--------------------------- MODULE AttemptPipeline ---------------------------
(****************************************************************************)
(* The contact pipeline of one chaser case (a RecoveryCase of a non-payment *)
(* risk type): orchestrator.chase_case, the scheduler's fire sweep and      *)
(* stale-attempt sweep, and the two customer-side transactions that race    *)
(* them, a payment capture and an opt-out.                                  *)
(*                                                                          *)
(* Every worker runs its own database session.  A step of this module is a  *)
(* stretch of one worker between two points where other sessions can        *)
(* commit: a COMMIT, a wait for the FOR UPDATE lock on the customer's       *)
(* retry_ledger row, an LLM call or a gateway call.  What a worker keeps    *)
(* across such a point is its session's copy of the case (snap): sessions   *)
(* are built with expire_on_commit=False, so a copy is never re-read unless *)
(* the code calls session.refresh.                                          *)
(****************************************************************************)
EXTENDS Integers, FiniteSets

CONSTANTS
  Sweepers,      \* processes whose scheduler loop is on (scheduler.run_forever)
  WebWorkers,    \* request workers that chase a freshly pushed risk event
  MaxAttempts,   \* RiskPolicy.max_attempts, copied to recovery_cases.max_attempts
  LedgerAtStart, \* may the customer already have a retry_ledger row?
  FirePageFull,  \* TRUE when the fire sweep's page (scheduler_batch_size) may be full
  MaxEvents,     \* bound: risk events pushed for this case
  MaxDefers,     \* bound: quiet-hour, blackout and dispute deferrals
  MaxPartials,   \* bound: partial captures
  MaxCrashes,    \* bound: worker deaths
  NoWorker       \* the ledger lock is free

ASSUME PipelineAssumption ==
  /\ MaxAttempts \in Nat \ {0}
  /\ LedgerAtStart \subseteq BOOLEAN /\ LedgerAtStart # {}
  /\ FirePageFull \in BOOLEAN
  /\ MaxEvents \in Nat /\ MaxDefers \in Nat
  /\ MaxPartials \in Nat /\ MaxCrashes \in Nat
  /\ Sweepers \cap WebWorkers = {}
  /\ NoWorker \notin Sweepers \cup WebWorkers

Workers == Sweepers \cup WebWorkers

\* Attempt n is the row whose idempotency key is chase_{type}_{ref}_{n}.
Keys == 0 .. MaxAttempts - 1

\* "abandoned" is a verdict of the payment rail only.
Terminal == {"recovered", "exhausted", "expired", "opted_out"}
CaseStates == {"open"} \cup Terminal

\* retry_attempts.result; "none" is a key no row has been inserted for.
Settled == {"success", "failed", "rejected", "skipped", "cancelled", "superseded"}
Alive == {"pending", "scheduled"}
Results == {"none"} \cup Alive \cup Settled

\* The boundary markers in retry_attempts.result_details.
Phases == {"none", "claimed", "write_ahead"}

Actions == {"retry_now", "retry_at", "nudge_customer", "abandon"}

\* Gateway calls per key are counted up to this cap.
CallCap == 2

VARIABLES
  cState,    \* recovery_cases.state
  used,      \* recovery_cases.attempts_used
  due,       \* recovery_cases.next_action_at <= now
  result,    \* retry_attempts.result, per key
  phase,     \* retry_attempts.result_details, per key
  reparked,  \* keys whose scheduled_at was set by the stale sweep, not the agent
  ripe,      \* keys with scheduled_at <= now
  old,       \* keys with created_at <= now - attempt_stale_after_seconds
  optedOut,  \* retry_ledger.consent_status = "opted_out"
  hasLedger, \* the customer has a retry_ledger row (nothing to lock otherwise)
  lock,      \* the worker whose transaction holds that row FOR UPDATE
  windowOver,\* now > opened_at + consent_window_hours
  tickDue,   \* sweepers that started their tick, and took its "now", with the
             \* case already due
  pc,        \* where each worker is
  via,       \* "chase" or "fire": which path brought it there
  snap,      \* the worker's session copy of the case: state, used, due
  cached,    \* workers whose session still holds the ledger row it read at the
             \* first stopping rule: a later SELECT locks the row and keeps the copy
  key,       \* the attempt the worker is on
  act,       \* the action it is executing
  calls,     \* gateway calls issued per key, capped (what the customer received)
  events, defers, partials, crashes  \* bounded environment counters

caseVars == <<cState, used, due>>
rowVars  == <<result, phase, reparked, ripe, old>>
custVars == <<optedOut, hasLedger, windowOver>>
workVars == <<tickDue, via, snap, cached, key, act>>
envVars  == <<events, defers, partials, crashes>>
vars == <<caseVars, rowVars, custVars, lock, pc, workVars, calls, envVars>>

Snapshots == [state: CaseStates, used: 0 .. MaxAttempts, due: BOOLEAN]

\* The places a worker can be.  A sweeper sleeps in "idle" between two ticks, and
\* in a tick goes through the fire, stale and chase sweeps; a request worker
\* waits in "idle" for a risk event.
Places == {"fire", "stale", "chase", "idle", "loaded", "deciding", "refreshed",
           "claimed", "armed", "calling", "answered"}

CaseTypeOK ==
  cState \in CaseStates /\ used \in 0 .. MaxAttempts /\ due \in BOOLEAN

RowTypeOK ==
  /\ result \in [Keys -> Results] /\ phase \in [Keys -> Phases]
  /\ reparked \subseteq Keys /\ ripe \subseteq Keys /\ old \subseteq Keys
  /\ calls \in [Keys -> 0 .. CallCap]

CustomerTypeOK ==
  optedOut \in BOOLEAN /\ hasLedger \in BOOLEAN /\ windowOver \in BOOLEAN

WorkerTypeOK ==
  /\ pc \in [Workers -> Places] /\ via \in [Workers -> {"chase", "fire"}]
  /\ key \in [Workers -> 0 .. MaxAttempts] /\ act \in [Workers -> Actions]
  /\ snap \in [Workers -> Snapshots]
  /\ tickDue \subseteq Sweepers /\ cached \subseteq Workers
  /\ lock \in Workers \cup {NoWorker}

BoundsTypeOK ==
  /\ events \in 0 .. MaxEvents /\ defers \in 0 .. MaxDefers
  /\ partials \in 0 .. MaxPartials /\ crashes \in 0 .. MaxCrashes

TypeOK ==
  CaseTypeOK /\ RowTypeOK /\ CustomerTypeOK /\ WorkerTypeOK /\ BoundsTypeOK

-----------------------------------------------------------------------------
(* Helpers                                                                  *)

Rows == {n \in Keys : result[n] # "none"}

\* The row as it is in the database now.
CaseRow == [state |-> cState, used |-> used, due |-> due]

\* The newest attempt of the case is still pending (order_by created_at desc).
LatestPending ==
  \E n \in Rows : result[n] = "pending" /\ \A m \in Rows : m <= n

\* SELECT ... FOR UPDATE on the ledger row returns at once: the row does not
\* exist, or nobody holds it.
LedgerFree == ~hasLedger \/ lock = NoWorker

\* The consent a worker's session shows it after locking the ledger row.
\* chase_case keeps the row it read first (consent still given, or it would have
\* stopped there) alive in a local, and _get_ledger does not repopulate it.
SeesOptOut(w) == optedOut /\ w \notin cached

\* Variant: a stopping rule that forgets the budget.
StoppedIgnoringBudget(w) ==
  snap[w].state \in Terminal \/ SeesOptOut(w) \/ ~snap[w].due

\* cases.stop_reason on the session's copies of the case and the ledger.
Stopped(w) ==
  \/ snap[w].state \in Terminal
  \/ snap[w].used >= MaxAttempts
  \/ SeesOptOut(w)
  \/ ~snap[w].due

\* A fired attempt hands back to the fire sweep; a chase ends the tick, or the
\* request.
Home(w) == IF via[w] = "fire" THEN "fire" ELSE "idle"

Goto(w, place) == pc' = [pc EXCEPT ![w] = place]

\* What a worker holds between two units of work: nothing.
Fresh == [state |-> "open", used |-> 0, due |-> FALSE]

\* The session's objects go out of scope.
Forget(w) ==
  /\ snap' = [snap EXCEPT ![w] = Fresh]
  /\ key' = [key EXCEPT ![w] = 0]
  /\ via' = [via EXCEPT ![w] = "chase"]
  /\ act' = [act EXCEPT ![w] = "retry_now"]
  /\ cached' = cached \ {w}
  /\ UNCHANGED tickDue

\* The transaction ends and the worker moves on to its next unit of work.
Finish(w) == Goto(w, Home(w)) /\ Forget(w)

\* The tail of chase_case: a spent budget closes the case, judged on the copy
\* the session holds; otherwise the ladder gets a floor.
CloseOrFloor(s) ==
  IF s.used >= MaxAttempts
    THEN cState' = "exhausted" /\ UNCHANGED due
    ELSE due' = FALSE /\ UNCHANGED cState

-----------------------------------------------------------------------------
(* Picking a case: the due-case sweep and the risk-event worker             *)

\* chase_due_cases loads a page of due cases; chase_case gets the copy later.
ChaseLoad(w) ==
  /\ pc[w] = "chase" /\ w \in tickDue /\ cState = "open" /\ due
  /\ snap' = [snap EXCEPT ![w] = CaseRow]
  /\ via' = [via EXCEPT ![w] = "chase"]
  /\ Goto(w, "loaded")
  /\ UNCHANGED <<caseVars, rowVars, custVars, lock, tickDue, cached, key, act,
                 calls, envVars>>

\* A risk event arrives for the subject: open_case returns the existing row,
\* open or not, and first_action_hours <= 0 has it chased at once.
EventLoad(w) ==
  /\ w \in WebWorkers /\ pc[w] = "idle" /\ events < MaxEvents
  /\ events' = events + 1
  /\ snap' = [snap EXCEPT ![w] = CaseRow]
  /\ via' = [via EXCEPT ![w] = "chase"]
  /\ Goto(w, "loaded")
  /\ UNCHANGED <<caseVars, rowVars, custVars, lock, tickDue, cached, key, act, calls,
                 defers, partials, crashes>>

-----------------------------------------------------------------------------
(* chase_case up to the agent's decision                                    *)

\* An earlier attempt may still be alive: push the case out and stop.
DeferToPending(w) ==
  /\ pc[w] = "loaded" /\ LatestPending
  /\ due' = FALSE
  /\ Finish(w)
  /\ UNCHANGED <<cState, used, rowVars, custVars, lock, calls, envVars>>

\* The stopping rule, on the copy loaded with the page.
ChaseStopped(w) ==
  /\ pc[w] = "loaded" /\ ~LatestPending /\ LedgerFree /\ Stopped(w)
  /\ Finish(w)
  /\ UNCHANGED <<caseVars, rowVars, custVars, lock, calls, envVars>>

\* The consent window has closed: the case closes as expired.
ChaseExpires(w) ==
  /\ pc[w] = "loaded" /\ ~LatestPending /\ LedgerFree /\ ~Stopped(w)
  /\ windowOver
  /\ cState' = "expired"
  /\ Finish(w)
  /\ UNCHANGED <<used, due, rowVars, custVars, lock, calls, envVars>>

\* An open dispute, the B2B window or the IST blackout moves next_action_at.
ChaseDeferred(w) ==
  /\ pc[w] = "loaded" /\ ~LatestPending /\ LedgerFree /\ ~Stopped(w)
  /\ ~windowOver /\ defers < MaxDefers
  /\ defers' = defers + 1
  /\ due' = FALSE
  /\ Finish(w)
  /\ UNCHANGED <<cState, used, rowVars, custVars, lock, calls,
                 events, partials, crashes>>

\* The commit before the agent call: the ledger lock is given up and the
\* worker goes off to the LLM with its copy of the case.
ChaseAsksAgent(w) ==
  /\ pc[w] = "loaded" /\ ~LatestPending /\ LedgerFree /\ ~Stopped(w)
  /\ ~windowOver
  /\ key' = [key EXCEPT ![w] = snap[w].used]
  /\ cached' = IF hasLedger THEN cached \cup {w} ELSE cached
  /\ Goto(w, "deciding")
  /\ UNCHANGED <<caseVars, rowVars, custVars, lock, tickDue, via, snap, act,
                 calls, envVars>>

-----------------------------------------------------------------------------
(* chase_case from the decision to the write-ahead                          *)

\* The key is built from the attempts_used read before the agent call.
KeyTaken(w) ==
  /\ pc[w] = "deciding" /\ key[w] \in Rows
  /\ Finish(w)
  /\ UNCHANGED <<caseVars, rowVars, custVars, lock, calls, envVars>>

\* _revalidate_under_lock re-reads the case, and only then waits for the lock.
Revalidate(w) ==
  /\ pc[w] = "deciding" /\ key[w] \notin Rows
  /\ snap' = [snap EXCEPT ![w] = CaseRow]
  /\ Goto(w, "refreshed")
  /\ UNCHANGED <<caseVars, rowVars, custVars, lock, tickDue, via, cached, key,
                 act, calls, envVars>>

RecheckStopped(w) ==
  /\ pc[w] = "refreshed" /\ LedgerFree /\ Stopped(w)
  /\ Finish(w)
  /\ UNCHANGED <<caseVars, rowVars, custVars, lock, calls, envVars>>

\* attach_attempt in the session's copy: one unit of the budget, and a backoff
\* for a nudge.
Attached(s, a) ==
  [state |-> s.state, used |-> s.used + 1, due |-> s.due /\ a # "nudge_customer"]

\* Variant: no UNIQUE constraint on the idempotency key.
InsertRowUnconstrained(n, r, ph, s) ==
  /\ result' = [result EXCEPT ![n] = r]
  /\ phase' = [phase EXCEPT ![n] = ph]
  /\ used' = s.used

\* INSERT of the attempt row together with the case's new attempts_used.  The
\* UNIQUE idempotency key decides between two sessions.
InsertRow(n, r, ph, s) ==
  /\ n \notin Rows
  /\ result' = [result EXCEPT ![n] = r]
  /\ phase' = [phase EXCEPT ![n] = ph]
  /\ used' = s.used

\* The guardrail rejects the action, or the agent abandons the case: the row
\* is stored as an outcome, a unit of budget is spent, the ladder moves.
StoreOutcome(w, r) ==
  /\ pc[w] = "refreshed" /\ LedgerFree /\ ~Stopped(w)
  /\ InsertRow(key[w], r, "none", Attached(snap[w], "abandon"))
  /\ CloseOrFloor(Attached(snap[w], "abandon"))
  /\ hasLedger' = (hasLedger \/ r = "skipped")
  /\ Finish(w)
  /\ UNCHANGED <<reparked, ripe, old, optedOut, windowOver, lock, calls, envVars>>

\* The row this outcome belongs to was inserted by another session meanwhile:
\* the commit raises, the session rolls back.
OutcomeConflict(w) ==
  /\ pc[w] = "refreshed" /\ LedgerFree /\ ~Stopped(w)
  /\ key[w] \in Rows
  /\ Finish(w)
  /\ UNCHANGED <<caseVars, rowVars, custVars, lock, calls, envVars>>

\* retry_at: the attempt is parked and the case waits for the same instant.
Park(w) ==
  /\ pc[w] = "refreshed" /\ LedgerFree /\ ~Stopped(w)
  /\ InsertRow(key[w], "scheduled", "none", Attached(snap[w], "retry_at"))
  /\ due' = FALSE
  /\ hasLedger' = TRUE
  /\ Finish(w)
  /\ UNCHANGED <<cState, reparked, ripe, old, optedOut, windowOver, lock,
                 calls, envVars>>

\* The guardrail passes a contact: attach_attempt, then the nudge text is
\* generated with the ledger lock held.
Arm(w) ==
  /\ pc[w] = "refreshed" /\ LedgerFree /\ ~Stopped(w)
  /\ \E a \in {"retry_now", "nudge_customer"} :
       /\ act' = [act EXCEPT ![w] = a]
       /\ snap' = [snap EXCEPT ![w] = Attached(@, a)]
  /\ lock' = IF hasLedger THEN w ELSE lock
  /\ Goto(w, "armed")
  /\ UNCHANGED <<caseVars, rowVars, custVars, tickDue, via, cached, key, calls, envVars>>

-----------------------------------------------------------------------------
(* fire_due_retries: claim, re-check at fire time                           *)

\* The conditional UPDATE: whoever flips scheduled to pending owns the row.
FireClaim(w, n) ==
  /\ pc[w] = "fire" /\ result[n] = "scheduled" /\ n \in ripe
  /\ result' = [result EXCEPT ![n] = "pending"]
  /\ phase' = [phase EXCEPT ![n] = "claimed"]
  /\ via' = [via EXCEPT ![w] = "fire"]
  /\ key' = [key EXCEPT ![w] = n]
  /\ Goto(w, "claimed")
  /\ UNCHANGED <<caseVars, reparked, ripe, old, custVars, lock, tickDue, snap, cached, act,
                 calls, envVars>>

\* The ORM writes result and result_details by primary key, whatever the row
\* holds by now.
MarkRow(w, r) ==
  /\ result' = [result EXCEPT ![key[w]] = r]
  /\ phase' = [phase EXCEPT ![key[w]] = "none"]

\* Closed or opted out since the retry was parked.
FireCancelled(w) ==
  /\ pc[w] = "claimed" /\ LedgerFree
  /\ cState # "open" \/ optedOut
  /\ MarkRow(w, "cancelled")
  /\ Finish(w)
  /\ UNCHANGED <<caseVars, reparked, ripe, old, custVars, lock,
                 calls, envVars>>

\* Variant: a rejected retry that leaves the ladder where it was.
FireRejectedNoLadder(w) ==
  /\ pc[w] = "claimed" /\ LedgerFree /\ cState = "open" /\ ~optedOut
  /\ MarkRow(w, "rejected")
  /\ Finish(w)
  /\ UNCHANGED <<caseVars, reparked, ripe, old, custVars, lock, calls, envVars>>

\* The guardrail, run again against the clock at fire time, says no:
\* _advance_ladder moves the case on.
FireRejected(w) ==
  /\ pc[w] = "claimed" /\ LedgerFree /\ cState = "open" /\ ~optedOut
  /\ MarkRow(w, "rejected")
  /\ CloseOrFloor(CaseRow)
  /\ Finish(w)
  /\ UNCHANGED <<used, reparked, ripe, old, custVars, lock, calls, envVars>>

\* Variant: the ledger lock given up before the text is generated.
FirePassedUnlocked(w) ==
  /\ pc[w] = "claimed" /\ LedgerFree /\ cState = "open" /\ ~optedOut
  /\ snap' = [snap EXCEPT ![w] = CaseRow]
  /\ act' = [act EXCEPT ![w] = "retry_now"]
  /\ Goto(w, "armed")
  /\ UNCHANGED <<caseVars, rowVars, custVars, lock, tickDue, via, cached, key,
                 calls, envVars>>

\* Passed: the fired retry_at executes as retry_now, text generated under the
\* ledger lock.  The case is not attached again.
FirePassed(w) ==
  /\ pc[w] = "claimed" /\ LedgerFree /\ cState = "open" /\ ~optedOut
  /\ snap' = [snap EXCEPT ![w] = CaseRow]
  /\ act' = [act EXCEPT ![w] = "retry_now"]
  /\ lock' = IF hasLedger THEN w ELSE lock
  /\ Goto(w, "armed")
  /\ UNCHANGED <<caseVars, rowVars, custVars, tickDue, via, cached, key, calls, envVars>>

-----------------------------------------------------------------------------
(* _execute_case_and_record: write-ahead, gateway, outcome                  *)

Release(w) == lock' = IF lock = w THEN NoWorker ELSE lock

\* The write-ahead of a fresh chase: the row and the spent unit commit
\* together, which also gives up the ledger lock.
WriteAheadNew(w) ==
  /\ pc[w] = "armed" /\ via[w] = "chase"
  /\ InsertRow(key[w], "pending", "write_ahead", snap[w])
  /\ due' = (due /\ act[w] # "nudge_customer")
  /\ Release(w)
  /\ Goto(w, "calling")
  /\ UNCHANGED <<cState, reparked, ripe, old, custVars, workVars, calls, envVars>>

\* The UNIQUE key fires: the other session's attempt is the attempt.
WriteAheadConflict(w) ==
  /\ pc[w] = "armed" /\ via[w] = "chase" /\ key[w] \in Rows
  /\ Release(w)
  /\ Finish(w)
  /\ UNCHANGED <<caseVars, rowVars, custVars, calls, envVars>>

\* Variant: a write-ahead that writes result too.
WriteAheadFiredPending(w) ==
  /\ pc[w] = "armed" /\ via[w] = "fire"
  /\ result' = [result EXCEPT ![key[w]] = "pending"]
  /\ phase' = [phase EXCEPT ![key[w]] = "write_ahead"]
  /\ Release(w)
  /\ Goto(w, "calling")
  /\ UNCHANGED <<caseVars, reparked, ripe, old, custVars, workVars, calls, envVars>>

\* The write-ahead of a fired row: only result_details is dirty, so result
\* keeps what the database holds.
WriteAheadFired(w) ==
  /\ pc[w] = "armed" /\ via[w] = "fire"
  /\ phase' = [phase EXCEPT ![key[w]] = "write_ahead"]
  /\ Release(w)
  /\ Goto(w, "calling")
  /\ UNCHANGED <<caseVars, result, reparked, ripe, old, custVars, workVars,
                 calls, envVars>>

\* RetryExecutor.execute_case_action: the link is created, the nudge goes out.
\* The gateway does not deduplicate on the idempotency key.
CallGateway(w) ==
  /\ pc[w] = "calling"
  /\ calls' = [calls EXCEPT ![key[w]] = IF @ < CallCap THEN @ + 1 ELSE @]
  /\ Goto(w, "answered")
  /\ UNCHANGED <<caseVars, rowVars, custVars, lock, workVars, envVars>>

\* The outcome is recorded, and the ladder judged, on the session's old copy
\* of the case; a chase also bumps the ledger, under its lock.
Record(w) ==
  /\ pc[w] = "answered"
  /\ via[w] = "chase" => LedgerFree
  /\ \E r \in {"success", "failed"} : MarkRow(w, r)
  /\ IF snap[w].used >= MaxAttempts
       THEN cState' = "exhausted" /\ UNCHANGED due
       ELSE due' = (due /\ ~snap[w].due) /\ UNCHANGED cState
  /\ hasLedger' = (hasLedger \/ via[w] = "chase")
  /\ Finish(w)
  /\ UNCHANGED <<used, reparked, ripe, old, optedOut, windowOver, lock,
                 calls, envVars>>

-----------------------------------------------------------------------------
(* reconcile_stale_attempts                                                 *)

\* Variant: a sweep that only knows crashes after the write-ahead.
StaleWriteAheadOnly(n) ==
  result[n] = "pending" /\ n \in old /\ phase[n] = "write_ahead"

Stale(n) == result[n] = "pending" /\ n \in old

\* Variant: every stale attempt is parked again.
ReparkAny(w, n) ==
  /\ pc[w] = "stale" /\ Stale(n)
  /\ result' = [result EXCEPT ![n] = "scheduled"]
  /\ phase' = [phase EXCEPT ![n] = "none"]
  /\ ripe' = ripe \ {n}
  /\ reparked' = reparked \cup {n}
  /\ UNCHANGED <<caseVars, old, custVars, lock, pc, workVars, calls, envVars>>

\* Only claimed: the gateway was never called, so the retry is parked again.
Repark(w, n) ==
  /\ pc[w] = "stale" /\ Stale(n) /\ phase[n] = "claimed"
  /\ result' = [result EXCEPT ![n] = "scheduled"]
  /\ phase' = [phase EXCEPT ![n] = "none"]
  /\ ripe' = ripe \ {n}
  /\ reparked' = reparked \cup {n}
  /\ UNCHANGED <<caseVars, old, custVars, lock, pc, workVars, calls, envVars>>

\* Past the write-ahead: the link might exist, so the attempt fails closed.
FailClosed(w, n) ==
  /\ pc[w] = "stale" /\ Stale(n) /\ phase[n] # "claimed"
  /\ result' = [result EXCEPT ![n] = "failed"]
  /\ phase' = [phase EXCEPT ![n] = "none"]
  /\ UNCHANGED <<caseVars, reparked, ripe, old, custVars, lock, pc, workVars,
                 calls, envVars>>

-----------------------------------------------------------------------------
(* The order of the sweeps inside scheduler.tick                            *)

\* tick takes "now" once and hands it to every sweep.
TickStart(w) ==
  /\ w \in Sweepers /\ pc[w] = "idle"
  /\ tickDue' = IF due THEN tickDue \cup {w} ELSE tickDue \ {w}
  /\ Goto(w, "fire")
  /\ UNCHANGED <<caseVars, rowVars, custVars, lock, via, snap, cached, key, act, calls,
                 envVars>>

FireSweepDone(w) ==
  /\ pc[w] = "fire"
  /\ FirePageFull \/ ~\E n \in ripe : result[n] = "scheduled"
  /\ Goto(w, "stale")
  /\ UNCHANGED <<caseVars, rowVars, custVars, lock, workVars, calls, envVars>>

StaleSweepDone(w) ==
  /\ pc[w] = "stale" /\ ~\E n \in Keys : Stale(n)
  /\ Goto(w, "chase")
  /\ UNCHANGED <<caseVars, rowVars, custVars, lock, workVars, calls, envVars>>

ChaseSweepDone(w) ==
  /\ pc[w] = "chase" /\ ~(w \in tickDue /\ cState = "open" /\ due)
  /\ Goto(w, "idle")
  /\ UNCHANGED <<caseVars, rowVars, custVars, lock, workVars, calls, envVars>>

-----------------------------------------------------------------------------
(* The customer, the clock and crashes                                      *)

\* attribute_capture on an open case: a full capture closes it, and every
\* attempt still pending is superseded.
Capture(full) ==
  /\ cState = "open"
  /\ IF full THEN cState' = "recovered" /\ UNCHANGED partials
             ELSE partials < MaxPartials /\ partials' = partials + 1 /\ UNCHANGED cState
  /\ result' = [n \in Keys |->
                  IF result[n] = "pending" THEN "superseded" ELSE result[n]]
  /\ UNCHANGED <<used, due, phase, reparked, ripe, old, custVars, lock, pc,
                 workVars, calls, events, defers, crashes>>

\* record_opt_out: its UPDATE of the ledger row waits for whoever holds it.
OptOut ==
  /\ ~optedOut /\ LedgerFree
  /\ optedOut' = TRUE /\ hasLedger' = TRUE
  /\ cState' = IF cState = "open" THEN "opted_out" ELSE cState
  /\ UNCHANGED <<used, due, rowVars, windowOver, lock, pc, workVars, calls, envVars>>

\* next_action_at passes.  A case parked by retry_at waits for the same instant
\* as its attempt, so it is never due before the attempt is.
CaseComesDue ==
  /\ ~due /\ cState = "open"
  /\ \A n \in Keys : result[n] = "scheduled" => n \in ripe \cup reparked
  /\ due' = TRUE
  /\ UNCHANGED <<cState, used, rowVars, custVars, lock, pc, workVars, calls, envVars>>

Ripen(n) ==
  /\ result[n] = "scheduled" /\ n \notin ripe
  /\ ripe' = ripe \cup {n}
  /\ UNCHANGED <<caseVars, result, phase, reparked, old, custVars, lock, pc,
                 workVars, calls, envVars>>

\* created_at falls behind the stale cutoff.  Executing a freshly inserted row
\* takes far less than attempt_stale_after_seconds (the LLM and the gateway have
\* their own timeouts), so a live chase never sees its own row age.
AgeRow(n) ==
  /\ result[n] \in Alive /\ n \notin old
  /\ ~\E w \in Workers :
        key[w] = n /\ via[w] = "chase" /\ pc[w] \in {"calling", "answered"}
  /\ old' = old \cup {n}
  /\ UNCHANGED <<caseVars, result, phase, reparked, ripe, custVars, lock, pc,
                 workVars, calls, envVars>>

WindowCloses ==
  /\ ~windowOver /\ windowOver' = TRUE
  /\ UNCHANGED <<caseVars, rowVars, optedOut, hasLedger, lock, pc, workVars,
                 calls, envVars>>

\* The process dies: its transaction rolls back, its lock is released.
Crash(w) ==
  /\ pc[w] \notin {"fire", "stale", "chase", "idle"} /\ crashes < MaxCrashes
  /\ crashes' = crashes + 1
  /\ Release(w)
  /\ Goto(w, "idle") /\ Forget(w)
  /\ UNCHANGED <<caseVars, rowVars, custVars, calls, events, defers, partials>>

-----------------------------------------------------------------------------
Init ==
  /\ cState = "open" /\ used = 0 /\ due \in BOOLEAN
  /\ result = [n \in Keys |-> "none"] /\ phase = [n \in Keys |-> "none"]
  /\ reparked = {} /\ ripe = {} /\ old = {}
  /\ optedOut = FALSE /\ hasLedger \in LedgerAtStart /\ windowOver = FALSE
  /\ lock = NoWorker
  /\ pc = [w \in Workers |-> "idle"] /\ tickDue = {}
  /\ cached = {}
  /\ via = [w \in Workers |-> "chase"]
  /\ snap = [w \in Workers |-> Fresh]
  /\ key = [w \in Workers |-> 0]
  /\ act = [w \in Workers |-> "retry_now"]
  /\ calls = [n \in Keys |-> 0]
  /\ events = 0 /\ defers = 0 /\ partials = 0 /\ crashes = 0

\* chase_case, from the page to the agent.
ChaseStep(w) ==
  \/ ChaseLoad(w) \/ DeferToPending(w) \/ ChaseStopped(w)
  \/ ChaseExpires(w) \/ ChaseDeferred(w) \/ ChaseAsksAgent(w)

\* chase_case, from the decision to the row.
DecisionStep(w) ==
  \/ KeyTaken(w) \/ Revalidate(w) \/ RecheckStopped(w)
  \/ StoreOutcome(w, "rejected") \/ StoreOutcome(w, "skipped")
  \/ OutcomeConflict(w) \/ Park(w) \/ Arm(w)

FireStep(w) ==
  \/ \E n \in Keys : FireClaim(w, n)
  \/ FireCancelled(w) \/ FireRejected(w) \/ FirePassed(w)

ExecuteStep(w) ==
  \/ WriteAheadNew(w) \/ WriteAheadConflict(w) \/ WriteAheadFired(w)
  \/ CallGateway(w) \/ Record(w)

SweepStep(w) ==
  \/ \E n \in Keys : Repark(w, n) \/ FailClosed(w, n)
  \/ TickStart(w) \/ FireSweepDone(w) \/ StaleSweepDone(w) \/ ChaseSweepDone(w)

WorkerStep(w) ==
  ChaseStep(w) \/ DecisionStep(w) \/ FireStep(w) \/ ExecuteStep(w) \/ SweepStep(w)

Clock ==
  \/ CaseComesDue \/ WindowCloses
  \/ \E n \in Keys : Ripen(n) \/ AgeRow(n)

Next ==
  \/ \E w \in Workers : WorkerStep(w) \/ EventLoad(w) \/ Crash(w)
  \/ Clock
  \/ \E full \in BOOLEAN : Capture(full)
  \/ OptOut

Spec == Init /\ [][Next]_vars

\* Workers keep working and time keeps passing; pushed events, customers and
\* crashes are free.
Fairness ==
  /\ \A w \in Workers : WF_vars(WorkerStep(w))
  /\ WF_vars(CaseComesDue) /\ WF_vars(WindowCloses)
  /\ \A n \in Keys : WF_vars(Ripen(n)) /\ WF_vars(AgeRow(n))

FairSpec == Spec /\ Fairness

-----------------------------------------------------------------------------
(* Properties                                                               *)

\* The budget and the log agree: the attempt rows are exactly the first
\* attempts_used keys.  No worker spends a unit without leaving a row, takes
\* another's unit, or skips one, however stale the copy it decided on was.
RowsMatchBudget == Rows = 0 .. used - 1

\* One idempotency key reaches the gateway at most once: the promise of the
\* UNIQUE key, the claim and the write-ahead taken together, across crashes.
AtMostOneCallPerKey == \A n \in Keys : calls[n] <= 1

\* Once the gateway was called for a key, its row is on record and is never
\* again one the fire sweep could pick up: a crash after the call fails closed.
CalledRowsNeverRefire ==
  \A n \in Keys : calls[n] > 0 => result[n] \notin {"none", "scheduled"}

\* A row that has an outcome never comes back to life, although workers write
\* it by primary key long after they read it.
SettledRowsStaySettled ==
  [][\A n \in Keys : result[n] \in Settled => result'[n] \in Settled]_vars

\* A closed case never opens again, although workers write the case from
\* copies that still say "open".
NeverReopens == [][(cState \in Terminal) => (cState' \in Terminal)]_vars

\* Nothing that is over comes back: not a row whose key was sent, nor one with an
\* outcome, nor a closed case, though workers, sweeps and captures write all three
\* from copies of their own and a crash may fall between any two of their steps.
NothingComesBack ==
  []CalledRowsNeverRefire /\ SettledRowsStaySettled /\ NeverReopens

\* A parked retry is never sent to a customer who has opted out since: the fire
\* sweep reads consent under the ledger lock, and an opt-out waits for that lock
\* (docs/failure_cases.md, case 9).
ParkedRetryHonoursOptOut ==
  [][\A n \in Keys :
        phase[n] = "claimed" /\ phase'[n] = "write_ahead" => ~optedOut]_vars

\* _revalidate_under_lock: case and ledger are re-read under the lock, so that a
\* customer who pressed stop is not contacted: no attempt passes its write-ahead
\* once the opt-out has committed.
NoContactArmedAfterOptOut ==
  [][\A n \in Keys :
        phase[n] # "write_ahead" /\ phase'[n] = "write_ahead" => ~optedOut]_vars

\* No attempt stays pending or parked for ever: a crash anywhere between the
\* claim and the outcome is resolved by the stale sweep.
AttemptsSettle ==
  \A n \in Keys : result[n] \in Alive ~> result[n] \in Settled

\* The case reaches a verdict: exhausted, expired, or one of the customer's.
\* chase_case: not "knocking on a finished case forever".
CaseSettles == <>(cState \in Terminal)

\* It does if no worker dies on the way, though rejections, abandoned and parked
\* attempts, deferrals and lost races may each be what moved it last.
CaseSettlesUnlessCrash == [](crashes = 0) => CaseSettles
=============================================================================
