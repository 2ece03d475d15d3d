--------------------------- MODULE PromiseLedger ----------------------------
(****************************************************************************)
(* The promises to pay of one open case: how the recovery page and the      *)
(* voice agent record them, how a customer attaches a UPI Autopay mandate,  *)
(* and the four sweeps of a scheduler tick that act on them, in their       *)
(* order: confirm the mandates, charge what is due, break what is overdue,  *)
(* remind what is close.                                                    *)
(*                                                                          *)
(* Time is counted in half-days; instants with Night(t) lie in the          *)
(* guardrail's blackout.  A tick is short against the unit, so the clock    *)
(* rests while a sweep runs.  A step is a stretch of one process between    *)
(* two points where other sessions can commit; job holds what a session     *)
(* read of the case before such a point and still writes from after it, and *)
(* chase does the same for a chase of the case.                             *)
(****************************************************************************)
EXTENDS Integers, FiniteSets

CONSTANTS
  Schedulers,   \* processes that may run the scheduler loop
  Chasers,      \* sessions that may have a chase of the case in hand
  Surfaces,     \* where a promise is taken: "page", "voice", "merchant"
  Deployments,  \* the sets of these three that may be at work together
  MaxRows,      \* bound: rows of promises_to_pay on the case
  MaxPromises,  \* settings.max_promises_per_case
  MaxAttempts,  \* recovery_cases.max_attempts
  Horizon,      \* settings.promise_max_horizon_days
  PageNotice,   \* the recovery page asks for more than 12 hours
  Grace,        \* settings.promise_grace_hours
  Lead,         \* settings.promise_reminder_lead_hours
  Backoff,      \* settings.escalation_backoff_hours
  ReChase,      \* policy.re_chase_hours
  NoticeMin,    \* the RBI rule's 24 hours
  NoticeMax,    \* settings.mandate_predebit_notification_valid_hours
  Window,       \* instant the case's consent window ends
  LastDue,      \* bound: no promise is dated later
  MaxClock,     \* bound: the clock stops here
  Busy,         \* may the customer's daily limits refuse a contact?
  MaxCrashes    \* bound: scheduler deaths

ASSUME PromiseAssumption ==
  /\ Surfaces \subseteq {"page", "voice", "merchant"}
  /\ MaxRows \in Nat \ {0} /\ MaxPromises \in Nat /\ MaxAttempts \in Nat
  /\ {Horizon, PageNotice, Grace, Lead, ReChase, NoticeMin, NoticeMax} \subseteq Nat
  /\ Backoff \in Nat \ {0}  \* with 0 a chase's nudge would be floored like its other actions
  /\ Window \in Nat /\ LastDue \in Nat /\ MaxClock \in Nat /\ MaxCrashes \in Nat
  /\ Busy \subseteq BOOLEAN /\ Busy # {}
  /\ IsFiniteSet(Schedulers)
  /\ Deployments \subseteq SUBSET (Schedulers \cup Chasers \cup Surfaces) /\ Deployments # {}

Promises == 1 .. MaxRows
Night(t) == t % 2 = 0
Never == -1

\* promises_to_pay.status; "none" is an id no row was inserted for.
Statuses == {"none", "pending", "kept", "broken", "cancelled"}
\* promises_to_pay.mandate_status; "asked" is a ticked box not yet sent to the gateway.
Mandates == {"none", "asked", "pending", "active", "failed", "charged"}
\* The retry_attempts row of a promise's reminder, or of its debit.
RowStates == {"none", "rejected", "write_ahead", "charging", "success", "failed", "superseded"}
InDoubt == {"write_ahead", "charging"}

VARIABLES
  up,        \* the schedulers, chasers and surfaces of this deployment
  clock,
  cState,    \* recovery_cases.state
  used, level, nextAt, \* attempts_used, escalation_level, next_action_at
  booked,    \* amount_recovered against amount_at_risk: "none", "part", "full"
  status, due, channel, mandate, chargedAt, reminded,  \* per promise
  notice,    \* the reminder's attempt row, key reminder_{type}_{ref}_{promise}
  debit,     \* the debit's attempt row, key mandate_debit_{promise}
  lastNudge, \* executed_at of the newest successful nudge_customer of the case
  asked,     \* times the bank was asked to debit each promise (capped at 2)
  taken,     \* promises whose money left the customer's account
  landed,    \* those whose capture was attributed
  pc, page,  \* per scheduler: where it is, and what is left of its page
  job,       \* per scheduler: the promise in hand, its copy of the case, the bank's answer
  asking,    \* per surface: the request between its count and its insert
  chase,     \* per chaser: how far its chase is, and its copy of the case
  overtaken, \* history: was a chase in hand while the latest promise was recorded?
  crashes

caseVars == <<cState, used, level, nextAt, booked>>
promiseRows == <<status, due, channel, mandate, chargedAt, reminded>>
attemptRows == <<notice, debit, lastNudge>>
bankVars == <<asked, taken, landed>>
workVars == <<pc, page, job>>
sessionVars == <<asking, chase, overtaken>>
promiseVars == <<up, clock, caseVars, promiseRows, attemptRows, bankVars, workVars,
                 sessionVars, crashes>>

CaseStates == {"open", "recovered", "opted_out", "abandoned", "exhausted", "expired"}
Jobs == [on: 0 .. MaxRows, state: CaseStates,
         used: 0 .. MaxAttempts, level: Nat, ok: BOOLEAN]
NoJob == [on |-> 0, state |-> "open", used |-> 0, level |-> 0, ok |-> TRUE]
NoRequest == [due |-> Never, next |-> Never, chased |-> FALSE]
\* A chase is off, has the case as it was due, asks the agent, holds the copy of its
\* re-read, or has committed the write-ahead row.
Chase == [at: {"off", "due", "agent", "fresh", "sending"},
          used: 0 .. MaxAttempts, level: Nat, nudge: BOOLEAN]
NoChase == [at |-> "off", used |-> 0, level |-> 0, nudge |-> FALSE]
Places == {"idle", "confirm", "charge", "claimDebit", "order", "present", "book",
           "expire", "breaking", "remind", "claimNotice", "send", "sent", "stamp"}

CaseTypeOK ==
  /\ cState \in CaseStates
  /\ used \in 0 .. MaxAttempts /\ level \in Nat
  /\ nextAt \in Nat /\ booked \in {"none", "part", "full"}
PromiseRowsTypeOK ==
  /\ status \in [Promises -> Statuses] /\ mandate \in [Promises -> Mandates]
  /\ due \in [Promises -> Never .. LastDue] /\ chargedAt \in [Promises -> Never .. MaxClock]
  /\ channel \in [Promises -> {"page", "voice", "merchant", "payment_plan"}]
  /\ reminded \subseteq Promises
AttemptRowsTypeOK ==
  /\ notice \in [Promises -> RowStates] /\ debit \in [Promises -> RowStates]
  /\ lastNudge \in Never .. MaxClock
BankTypeOK ==
  asked \in [Promises -> 0 .. 2] /\ taken \subseteq Promises /\ landed \subseteq taken
WorkTypeOK ==
  /\ pc \in [Schedulers -> Places] /\ page \in [Schedulers -> SUBSET Promises]
  /\ job \in [Schedulers -> Jobs]
SessionTypeOK ==
  /\ asking \in [Surfaces -> [due: Never .. LastDue, next: {Never} \cup Nat, chased: BOOLEAN]]
  /\ chase \in [Chasers -> Chase] /\ overtaken \in BOOLEAN
EnvironmentTypeOK ==
  up \in Deployments /\ clock \in 0 .. MaxClock /\ crashes \in 0 .. MaxCrashes

PromiseTypeOK ==
  /\ CaseTypeOK /\ PromiseRowsTypeOK /\ AttemptRowsTypeOK
  /\ BankTypeOK /\ WorkTypeOK /\ SessionTypeOK /\ EnvironmentTypeOK

-----------------------------------------------------------------------------
(* Helpers                                                                  *)

Rows == {p \in Promises : status[p] # "none"}
RowsLeft == MaxRows - Cardinality(Rows) - Cardinality({f \in Surfaces : asking[f] # NoRequest})
Pending == {p \in Promises : status[p] = "pending"}
Deferrals == {p \in Rows : channel[p] # "payment_plan"}
Later(a, b) == IF a > b THEN a ELSE b
CopyFor(p) == [on |-> p, state |-> cState, used |-> used, level |-> level, ok |-> TRUE]
ChasesInHand == {c \in Chasers : chase[c] # NoChase}

\* Variant: a stopping rule that forgets the budget.
StoppedUnlessOpen(c) == c.state # "open"
\* stop_reason as the promise sweeps read it: "not due until" is their own
\* silence, every other reason stops them.
StoppedFor(c) == c.state # "open" \/ c.used >= MaxAttempts

\* Where attach_attempt puts next_action_at for a nudge, from a copy of the case; the last
\* call of a cart, which may come later, left out.
Rung(copy) == clock + Backoff * (copy.level + 1)

\* The RBI rule: a notice at least a day old and not stale.
NoticeServed ==
  /\ lastNudge # Never
  /\ clock - lastNudge \in NoticeMin .. NoticeMax

\* The guardrail's verdict, the rules that depend on the customer's own load
\* (daily limits, ceilings) folded into busy.
GatePasses(busy) == ~Night(clock) /\ clock <= Window /\ ~busy

\* A debited mandate's capture is still plausibly on its way.
\* Variant: the sweep forgets the charge.
ChargeForgotten(p) == FALSE
ChargeInFlight(p) == mandate[p] = "charged" /\ chargedAt[p] + Grace > clock

Overdue(p) == due[p] + Grace <= clock /\ ~ChargeInFlight(p)

\* record_promise's cap; payment-plan instalments do not count.
UnderCap ==
  /\ Cardinality(Deferrals) < MaxPromises
  /\ Cardinality({p \in Deferrals : status[p] = "broken"}) < MaxPromises - 1

\* resolve_promises: every pending promise of the case moves together.
Resolved(verdict) == [p \in Promises |-> IF p \in Pending THEN verdict ELSE status[p]]

\* The attempts of the case still pending are superseded by a capture.
Superseded(rows) == [p \in Promises |-> IF rows[p] \in InDoubt THEN "superseded" ELSE rows[p]]

Goto(s, place) == pc' = [pc EXCEPT ![s] = place]
NextOf(s, place) ==
  /\ page' = [page EXCEPT ![s] = @ \ {job[s].on}]
  /\ job' = [job EXCEPT ![s] = NoJob]
  /\ Goto(s, place)
Stay(s, place) == Goto(s, place) /\ UNCHANGED <<page, job>>
Load(s, rows, place) ==
  /\ page' = [page EXCEPT ![s] = rows]
  /\ job' = [job EXCEPT ![s] = NoJob]
  /\ Goto(s, place)

\* The soonest promise of a page (order_by due_at).
Soonest(rows) == {p \in rows : \A q \in rows : due[p] <= due[q]}

PromiseInit ==
  /\ up \in Deployments
  /\ clock = 0 /\ cState = "open" /\ used = 0 /\ level = 0 /\ nextAt = 0
  /\ booked = "none" /\ lastNudge = Never
  /\ status = [p \in Promises |-> "none"] /\ due = [p \in Promises |-> Never]
  /\ channel = [p \in Promises |-> "page"]
  /\ mandate = [p \in Promises |-> "none"] /\ chargedAt = [p \in Promises |-> Never]
  /\ reminded = {} /\ notice = [p \in Promises |-> "none"]
  /\ debit = [p \in Promises |-> "none"]
  /\ asked = [p \in Promises |-> 0] /\ taken = {} /\ landed = {}
  /\ pc = [s \in Schedulers |-> "idle"] /\ page = [s \in Schedulers |-> {}]
  /\ job = [s \in Schedulers |-> NoJob]
  /\ asking = [f \in Surfaces |-> NoRequest]
  /\ chase = [c \in Chasers |-> NoChase] /\ overtaken = FALSE
  /\ crashes = 0

-----------------------------------------------------------------------------
(* Recording a promise                                                      *)

\* The merchant's API and the voice agent take any instant inside the horizon; the
\* page a midnight IST more than twelve hours away.
InHorizon(d) == d \in clock + 1 .. clock + Horizon
PageTakes(d) == Night(d) /\ d > clock + PageNotice
Acceptable(f, d) == InHorizon(d) /\ (f = "page" => PageTakes(d))

\* promise_a_date, record_promise_for_case, the voice webhook: record_promise up to the
\* count of the case's promises.
AskToPromise(f, d) ==
  /\ f \in up /\ asking[f] = NoRequest /\ cState = "open"
  /\ d <= LastDue /\ Acceptable(f, d)
  /\ UnderCap /\ RowsLeft >= 1
  /\ asking' = [asking EXCEPT ![f] = [due |-> d, next |-> nextAt, chased |-> ChasesInHand # {}]]
  /\ UNCHANGED <<up, clock, caseVars, promiseRows, attemptRows, bankVars, workVars, chase,
                 overtaken, crashes>>

\* ... and from the insert to the commit.  The case is not locked: it may have
\* closed since, and next_action_at is written only when the copy's is earlier.
RecordPromise(f, autopay) ==
  /\ asking[f] # NoRequest
  /\ \E p \in Promises \ Rows :
       /\ \A q \in Promises \ Rows : p <= q
       /\ status' = [status EXCEPT ![p] = "pending"]
       /\ due' = [due EXCEPT ![p] = asking[f].due]
       /\ channel' = [channel EXCEPT ![p] = f]
       /\ mandate' = [mandate EXCEPT ![p] = IF autopay /\ f = "page" THEN "asked" ELSE "none"]
  /\ overtaken' = (ChasesInHand # {} \/ asking[f].chased)
  /\ nextAt' = IF asking[f].due > asking[f].next THEN asking[f].due ELSE nextAt
  /\ asking' = [asking EXCEPT ![f] = NoRequest]
  /\ UNCHANGED <<up, clock, cState, used, level, booked, chargedAt, reminded, attemptRows,
                 bankVars, workVars, chase, crashes>>

\* _authorize_mandate: the gateway answers with a token, or autopay is dropped.
Authorise(p) ==
  /\ mandate[p] = "asked"
  /\ \E m \in {"pending", "none"} : mandate' = [mandate EXCEPT ![p] = m]
  /\ UNCHANGED <<up, clock, caseVars, status, due, channel, chargedAt, reminded, attemptRows,
                 bankVars, workVars, sessionVars, crashes>>

-----------------------------------------------------------------------------
(* One tick of a scheduler                                                  *)

TickBegins(s) ==
  /\ s \in up /\ pc[s] = "idle"
  /\ Stay(s, "confirm")
  /\ UNCHANGED <<caseVars, promiseRows, attemptRows, bankVars>>

\* mandates_awaiting_confirmation and promises_due_for_mandate_debit.
AwaitingConfirmation == {p \in Pending : mandate[p] = "pending" /\ due[p] > clock}
DueForDebit(mandates) == {p \in Pending : mandates[p] = "active" /\ due[p] <= clock}

\* reconcile_pending_mandates: active, failed, or asked again next tick.
ConfirmMandates(s) ==
  /\ pc[s] = "confirm"
  /\ LET waiting == AwaitingConfirmation
     IN  \E answer \in [waiting -> {"pending", "active", "failed"}] :
           mandate' = [p \in Promises |-> IF p \in waiting THEN answer[p] ELSE mandate[p]]
  /\ Load(s, DueForDebit(mandate'), "charge")
  /\ UNCHANGED <<caseVars, status, due, channel, chargedAt, reminded, attemptRows, bankVars>>

\* Both sweeps with a contact take the next promise and read the case.
Take(s, here, there) ==
  /\ pc[s] = here
  /\ \E p \in Soonest(page[s]) : job' = [job EXCEPT ![s] = CopyFor(p)]
  /\ Goto(s, there)
  /\ UNCHANGED <<caseVars, promiseRows, attemptRows, bankVars, page>>

TakeDebit(s) == Take(s, "charge", "claimDebit")
TakeNotice(s) == Take(s, "remind", "claimNotice")

\* Variant: only a debit that went through keeps the key.
DebitKeyFreeUnlessPaid(p) == debit[p] # "success"
\* One promise, one debit, forever: any row with the key ends it.
DebitKeyFree(p) == debit[p] = "none"

\* charge_promise_mandate up to the write-ahead commit, under the ledger lock.
ClaimDebit(s) ==
  /\ pc[s] = "claimDebit"
  /\ LET p == job[s].on IN
       \/ /\ StoppedFor(job[s]) \/ ~DebitKeyFree(p)
          /\ NextOf(s, "charge") /\ UNCHANGED debit
       \/ /\ ~StoppedFor(job[s]) /\ DebitKeyFree(p)
          /\ \E busy \in Busy :
               IF GatePasses(busy) /\ NoticeServed
               THEN debit' = [debit EXCEPT ![p] = "write_ahead"] /\ Stay(s, "order")
               ELSE debit' = [debit EXCEPT ![p] = "rejected"] /\ NextOf(s, "charge")
  /\ UNCHANGED <<caseVars, promiseRows, notice, lastNudge, bankVars>>

\* The order is created and committed before the charge; or it fails, and with
\* it the mandate.
CreateOrder(s) ==
  /\ pc[s] = "order"
  /\ LET p == job[s].on IN
       \/ /\ debit' = [debit EXCEPT ![p] = "charging"]
          /\ Stay(s, "present") /\ UNCHANGED mandate
       \/ /\ debit' = [debit EXCEPT ![p] = "failed"]
          /\ mandate' = [mandate EXCEPT ![p] = "failed"]
          /\ NextOf(s, "charge")
  /\ UNCHANGED <<caseVars, status, due, channel, chargedAt, reminded, notice, lastNudge, bankVars>>

\* charge_mandate: the bank may take the money and the answer still be an error.
PresentDebit(s) ==
  /\ pc[s] = "present"
  /\ LET p == job[s].on IN
       /\ asked' = [asked EXCEPT ![p] = IF @ < 2 THEN @ + 1 ELSE 2]
       /\ \E took \in BOOLEAN, ok \in BOOLEAN :
            /\ ok => took
            /\ taken' = IF took THEN taken \cup {p} ELSE taken
            /\ job' = [job EXCEPT ![s].ok = ok]
  /\ Goto(s, "book")
  /\ UNCHANGED <<caseVars, promiseRows, attemptRows, landed, page>>

\* The outcome is written by primary key, over whatever the row says by now.
BookDebit(s) ==
  /\ pc[s] = "book"
  /\ LET p == job[s].on ok == job[s].ok IN
       /\ debit' = [debit EXCEPT ![p] = IF ok THEN "success" ELSE "failed"]
       /\ mandate' = [mandate EXCEPT ![p] = IF ok THEN "charged" ELSE "failed"]
       /\ chargedAt' = [chargedAt EXCEPT ![p] = IF ok THEN clock ELSE @]
  /\ NextOf(s, "charge")
  /\ UNCHANGED <<caseVars, status, due, channel, reminded, notice, lastNudge, bankVars>>

\* expire_promises selects what is overdue ...
SelectExpired(s) ==
  /\ pc[s] = "charge" /\ page[s] = {}
  /\ Load(s, {p \in Pending : Overdue(p)}, "breaking")
  /\ UNCHANGED <<caseVars, promiseRows, attemptRows, bankVars>>

\* ... and commits it broken, pulling an open case back to now.  The page of the
\* reminder sweep is read next.
BreakExpired(s) ==
  /\ pc[s] = "breaking"
  /\ status' = [p \in Promises |-> IF p \in page[s] THEN "broken" ELSE status[p]]
  /\ nextAt' = IF page[s] # {} /\ cState = "open" THEN clock ELSE nextAt
  /\ Load(s, {p \in Pending \ page[s] : p \notin reminded /\ due[p] \in clock + 1 .. clock + Lead},
          "remind")
  /\ UNCHANGED <<cState, used, level, booked, due, channel, mandate, chargedAt, reminded,
                 attemptRows, bankVars>>

Stamp(s) ==
  /\ reminded' = reminded \cup {job[s].on}
  /\ NextOf(s, "remind")

\* send_promise_reminder up to the write-ahead commit.  attach_attempt spends a
\* slot and moves next_action_at from the copy, rejected or not.
ClaimNotice(s) ==
  /\ pc[s] = "claimNotice"
  /\ LET p == job[s].on c == job[s] IN
       \/ /\ StoppedFor(c) \/ notice[p] # "none"
          /\ Stamp(s) /\ UNCHANGED <<used, level, nextAt, notice>>
       \/ /\ ~StoppedFor(c) /\ notice[p] = "none"
          /\ used' = c.used + 1 /\ level' = c.level + 1
          /\ nextAt' = Rung(c)
          /\ \E busy \in Busy :
               IF GatePasses(busy)
               THEN notice' = [notice EXCEPT ![p] = "write_ahead"] /\ Stay(s, "send")
                    /\ UNCHANGED reminded
               ELSE notice' = [notice EXCEPT ![p] = "rejected"] /\ Stamp(s)
  /\ UNCHANGED <<cState, booked, status, due, channel, mandate, chargedAt, debit, lastNudge,
                 bankVars>>

\* The gateway sends the link, or fails; the outcome and the contact are committed.
SendNotice(s) ==
  /\ pc[s] = "send"
  /\ LET p == job[s].on IN
       \/ notice' = [notice EXCEPT ![p] = "success"] /\ lastNudge' = clock
       \/ notice' = [notice EXCEPT ![p] = "failed"] /\ UNCHANGED lastNudge
  /\ Stay(s, "sent")
  /\ UNCHANGED <<caseVars, promiseRows, debit, bankVars>>

\* Variant: the reminder leaves the case on its own backoff.
FlooredByBackoff(copy) == nextAt
\* The promise owns the silence: the date, where the copy's own rung comes before it.
Floored(copy) == IF due[copy.on] > Rung(copy) THEN due[copy.on] ELSE nextAt

RestoreSilence(s) ==
  /\ pc[s] = "sent"
  /\ nextAt' = Floored(job[s])
  /\ Stamp(s)
  /\ UNCHANGED <<cState, used, level, booked, status, due, channel, mandate, chargedAt,
                 attemptRows, bankVars>>

TickEnds(s) ==
  /\ pc[s] = "remind" /\ page[s] = {}
  /\ Stay(s, "idle")
  /\ UNCHANGED <<up, clock, caseVars, promiseRows, attemptRows, bankVars, sessionVars, crashes>>

\* reconcile_stale_attempts: a row with no outcome is failed, never retried.
FailStale ==
  /\ \E p \in Promises :
       \/ debit[p] \in InDoubt /\ debit' = [debit EXCEPT ![p] = "failed"] /\ UNCHANGED notice
       \/ notice[p] \in InDoubt /\ notice' = [notice EXCEPT ![p] = "failed"] /\ UNCHANGED debit
  /\ UNCHANGED <<up, clock, caseVars, promiseRows, lastNudge, bankVars, workVars, sessionVars,
                 crashes>>

-----------------------------------------------------------------------------
(* The customer, the bank and the rest of the engine                        *)

\* attribute_capture on an open case: every pending promise is kept, whatever
\* the amount; a full amount closes the case.
Attributed(full) ==
  /\ status' = Resolved("kept")
  /\ debit' = Superseded(debit) /\ notice' = Superseded(notice)
  /\ cState' = IF full THEN "recovered" ELSE cState
  /\ booked' = IF full THEN "full" ELSE "part"

\* A debit's capture; on a closed case it is logged as an overpayment.
DebitLands(p) ==
  /\ p \in taken \ landed
  /\ landed' = landed \cup {p}
  /\ IF cState = "open" THEN Attributed(TRUE)
     ELSE UNCHANGED <<status, debit, notice, cState, booked>>
  /\ UNCHANGED <<up, clock, used, level, nextAt, due, channel, mandate, chargedAt, reminded,
                 lastNudge, asked, taken, workVars, sessionVars, crashes>>

CustomerPays(full) ==
  /\ cState = "open" /\ (full \/ booked = "none")
  /\ Attributed(full)
  /\ UNCHANGED <<up, clock, used, level, nextAt, due, channel, mandate, chargedAt, reminded,
                 lastNudge, bankVars, workVars, sessionVars, crashes>>

OptOut ==
  /\ cState = "open"
  /\ cState' = "opted_out"
  /\ status' = Resolved("cancelled")
  /\ UNCHANGED <<up, clock, used, level, nextAt, booked, due, channel, mandate, chargedAt, reminded,
                 attemptRows, bankVars, workVars, sessionVars, crashes>>

-----------------------------------------------------------------------------
(* A chase of the case (module AttemptPipeline), seen from its schedule: by *)
(* the sweep of what is due, a risk event's task, or a sweep that only puts *)
(* a due case off.  None of them locks the case.                            *)

ChaseIs(c, place) == chase[c].at = place
ChaseTo(c, place) == chase' = [chase EXCEPT ![c].at = place]
ChaseOver(c) == chase' = [chase EXCEPT ![c] = NoChase]
RestOfLedger == <<up, clock, booked, promiseRows, notice, debit, bankVars, workVars, asking,
                  overtaken, crashes>>

\* The page of the sweep, or the task's lookup: an open case whose wait has elapsed.
ChaseLoads(c) ==
  /\ c \in up /\ ChaseIs(c, "off")
  /\ ~StoppedFor(CopyFor(0)) /\ nextAt <= clock
  /\ ChaseTo(c, "due")
  /\ UNCHANGED <<RestOfLedger, cState, used, level, nextAt, lastNudge>>

\* The consent window is over: closed from the copy, which is open, whatever the row says.
ChaseExpires(c) ==
  /\ ChaseIs(c, "due") /\ clock > Window
  /\ cState' = "expired"
  /\ ChaseOver(c)
  /\ UNCHANGED <<RestOfLedger, used, level, nextAt, lastNudge>>

\* An attempt still pending, a dispute, the office's hours, the blackout, a statement of
\* the account or a fired retry puts the case off, over whatever its row says; bound: by
\* ReChase at most.
PutOff == clock .. clock + ReChase
ChaseDefers(c) ==
  /\ ChaseIs(c, "due")
  /\ nextAt' \in PutOff
  /\ ChaseOver(c)
  /\ UNCHANGED <<RestOfLedger, cState, used, level, lastNudge>>

\* Nothing speaks against it: the session commits and asks the agent.
ChaseAsks(c) ==
  /\ ChaseIs(c, "due") /\ ~Night(clock) /\ clock <= Window
  /\ ChaseTo(c, "agent")
  /\ UNCHANGED <<RestOfLedger, cState, used, level, nextAt, lastNudge>>

\* The case is read again, and the stopping rule with it.
ChaseRefreshes(c) ==
  /\ ChaseIs(c, "agent")
  /\ ~StoppedFor(CopyFor(0)) /\ nextAt <= clock
  /\ chase' = [chase EXCEPT ![c] =
                 [at |-> "fresh", used |-> used, level |-> level, nudge |-> FALSE]]
  /\ UNCHANGED <<RestOfLedger, cState, used, level, nextAt, lastNudge>>

\* attach_attempt, from the copy: a slot, and for a nudge a rung.
Attach(c, nudge) ==
  /\ used' = chase[c].used + 1
  /\ level' = IF nudge THEN chase[c].level + 1 ELSE level

\* chase_case's tail, on the copy: a spent budget closes, an action that set no date of its
\* own is floored.
Spent(c) == chase[c].used + 1 >= MaxAttempts
Verdict(c) == IF Spent(c) THEN "exhausted" ELSE cState
TailFloor(c, nudge, own) == IF nudge \/ Spent(c) THEN own ELSE clock + ReChase

\* The nudge's text was awaited; the row and the copy's schedule are committed ahead of
\* the gateway call.
ChaseWritesAhead(c, nudge) ==
  /\ ChaseIs(c, "fresh") /\ (\E busy \in Busy : GatePasses(busy))
  /\ Attach(c, nudge)
  /\ nextAt' = IF nudge THEN Rung(chase[c]) ELSE nextAt
  /\ chase' = [chase EXCEPT ![c].at = "sending", ![c].nudge = nudge]
  /\ UNCHANGED <<RestOfLedger, cState, lastNudge>>

\* Refused, or told to abandon: one commit with the tail.
ChaseRefused(c, nudge) ==
  /\ ChaseIs(c, "fresh")
  /\ Attach(c, nudge)
  /\ cState' = Verdict(c)
  /\ nextAt' = TailFloor(c, nudge, IF nudge THEN Rung(chase[c]) ELSE nextAt)
  /\ ChaseOver(c)
  /\ UNCHANGED <<RestOfLedger, lastNudge>>

\* A retry is parked: the case waits for its instant; bound: as in PutOff.
ChaseParks(c) ==
  /\ ChaseIs(c, "fresh") /\ (\E busy \in Busy : GatePasses(busy))
  /\ Attach(c, FALSE)
  /\ nextAt' \in PutOff
  /\ ChaseOver(c)
  /\ UNCHANGED <<RestOfLedger, cState, lastNudge>>

\* The gateway answered, or threw: the outcome and the tail are committed.
ChaseEnds(c) ==
  /\ ChaseIs(c, "sending")
  /\ lastNudge' \in {lastNudge} \cup (IF chase[c].nudge THEN {clock} ELSE {})
  /\ cState' = Verdict(c)
  /\ nextAt' = TailFloor(c, chase[c].nudge, nextAt)
  /\ ChaseOver(c)
  /\ UNCHANGED <<RestOfLedger, used, level>>

\* The stopping rule or the attempt's key stopped it, it threw, or its process died: what it
\* had not committed is gone.
ChaseGivesUp(c) ==
  /\ c \in ChasesInHand
  /\ ChaseOver(c)
  /\ UNCHANGED <<RestOfLedger, cState, used, level, nextAt, lastNudge>>

\* A chase goes on, but for ChaseAsks, which an open dispute would stop.
ChaseStep(c) ==
  \/ ChaseExpires(c) \/ ChaseDefers(c) \/ ChaseRefreshes(c) \/ ChaseParks(c)
  \/ \E nudge \in BOOLEAN : ChaseWritesAhead(c, nudge) \/ ChaseRefused(c, nudge)
  \/ ChaseEnds(c) \/ ChaseGivesUp(c)

-----------------------------------------------------------------------------
(* Time, deaths, and the whole                                              *)

HalfDay ==
  /\ clock < MaxClock
  /\ \A s \in Schedulers : pc[s] = "idle"
  /\ (\A f \in Surfaces : asking[f] = NoRequest) /\ ChasesInHand = {}
  /\ \A p \in Promises : mandate[p] # "asked"
  /\ clock' = clock + 1
  /\ UNCHANGED <<up, caseVars, promiseRows, attemptRows, bankVars, workVars, sessionVars, crashes>>

\* What the session had not committed is gone; the bank keeps what it took.
SchedulerDies(s) ==
  /\ pc[s] # "idle" /\ crashes < MaxCrashes
  /\ crashes' = crashes + 1
  /\ Load(s, {}, "idle")
  /\ UNCHANGED <<up, clock, caseVars, promiseRows, attemptRows, bankVars, sessionVars>>

SweepStep(s) ==
  /\ \/ TickBegins(s) \/ ConfirmMandates(s)
     \/ TakeDebit(s) \/ ClaimDebit(s) \/ CreateOrder(s) \/ PresentDebit(s) \/ BookDebit(s)
     \/ SelectExpired(s) \/ BreakExpired(s)
     \/ TakeNotice(s) \/ ClaimNotice(s) \/ SendNotice(s) \/ RestoreSilence(s)
  /\ UNCHANGED <<up, clock, sessionVars, crashes>>

\* Everything but the end of a tick and a chase's decision to ask, which module Commitments
\* extends.
LedgerStep ==
  \/ \E s \in Schedulers : SweepStep(s) \/ SchedulerDies(s)
  \/ \E f \in Surfaces : \/ \E d \in 0 .. LastDue : AskToPromise(f, d)
                         \/ \E auto \in BOOLEAN : RecordPromise(f, auto)
  \/ \E p \in Promises : Authorise(p) \/ DebitLands(p)
  \/ \E full \in BOOLEAN : CustomerPays(full)
  \/ \E c \in Chasers : ChaseLoads(c) \/ ChaseStep(c)
  \/ FailStale \/ OptOut \/ HalfDay

PromiseNext ==
  LedgerStep \/ (\E c \in Chasers : ChaseAsks(c)) \/ (\E s \in Schedulers : TickEnds(s))

PromiseSpec == PromiseInit /\ [][PromiseNext]_promiseVars

-----------------------------------------------------------------------------
(* Properties                                                               *)

\* A promise whose debit is known to have gone through is not called broken
\* within one grace window of the charge.  Claimed for one scheduler: a second
\* one may charge while the first is breaking.
BrokenWasUnpaid ==
  Cardinality(up \cap Schedulers) = 1 =>
    \A p \in Promises : (status[p] = "broken" /\ debit[p] = "success")
      => chargedAt[p] + Grace <= clock

\* The case does not fall due before the date of the customer's one promise, whatever a
\* reminder or a chase did to its schedule: unless a chase was in hand while the promise was
\* recorded, whose commits then win over the date, or the reminder was refused, or its
\* worker died, between moving the case and restoring the silence.
SilenceKept ==
  \A p \in Pending :
    (/\ cState = "open" /\ Rows = {p} /\ due[p] > clock
     /\ ~overtaken /\ notice[p] # "rejected" /\ crashes = 0
     /\ \A s \in Schedulers : pc[s] \notin {"send", "sent"})
    => nextAt >= due[p]

\* What the bank sees of a promise (module DebitContract): nothing, a mandate
\* the customer confirmed, a mandate or a debit given up, one request, the money.
Stage(p) ==
  IF asked[p] > 1 THEN "twice"
  ELSE IF p \in taken THEN "taken"
  ELSE IF asked[p] = 1 THEN "asked"
  ELSE IF mandate[p] = "active" THEN "consented"
  ELSE IF mandate[p] = "failed" THEN "over" ELSE "idle"

Contract == INSTANCE DebitContract WITH
  today <- clock, date <- due, stage <- [p \in Promises |-> Stage(p)]

\* However the sweeps of two schedulers interleave and wherever they die, the
\* bank is asked to debit a promise at most once, only after the customer's
\* confirmed consent and not before the date they named.
DebitsHonourContract == Contract!Spec

=============================================================================
