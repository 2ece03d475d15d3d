----------------------------- MODULE PaymentRail -----------------------------
(****************************************************************************)
(* One failed payment, its recovery case and the Payment Links it spawns.   *)
(* Three kinds of session create links: the payment.failed pipeline         *)
(* (orchestrator.process_payment_failure, run by webhook handlers), the pay *)
(* button of the recovery page (customer/routes.start_payment), and the     *)
(* scheduler firing a parked retry (_fire_one).  The scheduler's two link   *)
(* sweeps kill what the customer should no longer be able to pay, and       *)
(* captures arrive for what was paid.                                       *)
(*                                                                          *)
(* A step is a stretch of one session between two points where others can   *)
(* commit.  The contact ledger's tallies and its lock are in ContactLedger, *)
(* the events that start a handler in EventIntake; the guardrail's verdict  *)
(* is free except for the attempt budget.                                   *)
(****************************************************************************)
EXTENDS Integers, Sequences, FiniteSets

CONSTANTS
  Webhooks,     \* handlers of payment.failed events of this payment
  Taps,         \* presses of the page's pay button
  Scheduler,    \* the one process whose scheduler loop is on
  RetryLimit,   \* max_retries_per_payment, and the case's max_attempts
  LinkPage,     \* scheduler_batch_size: rows one link sweep reads
  MaxRailRows,  \* bound: attempt rows of the case
  MaxDeadSessions \* bound: processes that die

ASSUME PaymentAssumption ==
  /\ RetryLimit \in Nat \ {0} /\ LinkPage \in Nat \ {0}
  /\ MaxRailRows \in Nat /\ MaxDeadSessions \in Nat
  /\ IsFiniteSet(Taps) /\ Webhooks \cap Taps = {} /\ Scheduler \notin Webhooks \cup Taps

VARIABLES
  railState, \* recovery_cases.state
  railUsed,  \* recovery_cases.attempts_used
  waiting,   \* recovery_cases.next_action_at lies in the future
  optedOut,  \* retry_ledger.consent_status = "opted_out"
  rows,      \* retry_attempts of the case, oldest created_at first
  captured,  \* rows whose link was paid and the capture attributed
  place,     \* where each session is
  snap,      \* a session's copy of the case: state, used
  num,       \* the number in the idempotency key a handler built, or the count
             \* of rows a page saw at its first look
  on,        \* the row a session is executing (0: none)
  minted,    \* the gateway's answer to the call in progress
  deadSessions

railVars == <<railState, railUsed, waiting, optedOut>>
sessVars == <<place, snap, num, on, minted>>
payVars  == <<railVars, rows, captured, sessVars, deadSessions>>

Sessions == Webhooks \cup Taps \cup {Scheduler}
Closed   == {"recovered", "abandoned", "opted_out"}
Verdicts == {"success", "failed", "rejected", "skipped", "cancelled", "superseded"}
InFlight == {"claimed", "pending"}

\* A row: its idempotency key, retry_attempts.result ("claimed" is a pending row
\* that carries only the scheduler's claim marker), the Payment Link behind it,
\* whether external_ref names that link, and result_details.link_cancelled_at.
RowShape == [key     : {"retry", "selfserve"} \X (0 .. MaxRailRows),
             result  : {"scheduled"} \cup InFlight \cup Verdicts,
             link    : {"none", "live", "dead", "paid"},
             known   : BOOLEAN,
             stamped : BOOLEAN]

SessionPlaces ==
  {"new", "agent", "keyed", "lock", "look", "claimed", "calling", "answered", "done"}

PayTypeOK ==
  /\ railState \in {"open"} \cup Closed /\ railUsed \in 0 .. Len(rows)
  /\ waiting \in BOOLEAN /\ optedOut \in BOOLEAN
  /\ rows \in Seq(RowShape) /\ Len(rows) <= MaxRailRows
  /\ captured \subseteq DOMAIN rows
  /\ place \in [Sessions -> SessionPlaces] /\ num \in [Sessions -> 0 .. MaxRailRows]
  /\ snap \in [Sessions -> [state : {"open"} \cup Closed, used : 0 .. MaxRailRows]]
  /\ on \in [Sessions -> 0 .. MaxRailRows] /\ minted \in [Sessions -> BOOLEAN]
  /\ deadSessions \in 0 .. MaxDeadSessions

-----------------------------------------------------------------------------
(* Helpers                                                                  *)

Keys == {rows[n].key : n \in DOMAIN rows}
With(result) == {n \in DOMAIN rows : rows[n].result \in result}

\* Links the database can name (external_ref is not null), and among them those
\* the recovery page would redirect to.
Known == {n \in DOMAIN rows : rows[n].known}
Shown == {n \in Known : ~rows[n].stamped}
Payable == {n \in DOMAIN rows : rows[n].link = "live"}

CaseCopy == [state |-> railState, used |-> railUsed]
Unset == [state |-> "open", used |-> 0]

At(s, where) == place' = [place EXCEPT ![s] = where]

\* The session's objects go out of scope; the scheduler goes on with its tick.
Leave(s) ==
  /\ At(s, IF s = Scheduler THEN "new" ELSE "done")
  /\ snap' = [snap EXCEPT ![s] = Unset]
  /\ num' = [num EXCEPT ![s] = 0] /\ on' = [on EXCEPT ![s] = 0]
  /\ minted' = [minted EXCEPT ![s] = FALSE]

\* cases.stop_reason on a copy of the case; the ledger row is read afresh.
StopReason(c) ==
  c.state # "open" \/ optedOut \/ c.used >= RetryLimit \/ waiting

\* Variant: caller and callee both attach the attempt.
InsertAttachedTwice(s, key, result) ==
  /\ Len(rows) < MaxRailRows
  /\ rows' = Append(rows, [key |-> key, result |-> result, link |-> "none",
                           known |-> FALSE, stamped |-> FALSE])
  /\ railUsed' = snap[s].used + 2

\* INSERT of an attempt row together with attach_attempt: the budget is written
\* from the session's copy, whatever it is in the database by now.
Insert(s, key, result) ==
  /\ Len(rows) < MaxRailRows
  /\ rows' = Append(rows, [key |-> key, result |-> result, link |-> "none",
                           known |-> FALSE, stamped |-> FALSE])
  /\ railUsed' = snap[s].used + 1

SetResult(n, result) == rows' = [rows EXCEPT ![n].result = result]

-----------------------------------------------------------------------------
(* process_payment_failure                                                  *)

\* A hard decline closes the case, unless it is closed already, with an
\* abandon_ row that spends nothing and bears no link.
HardDecline(w) ==
  /\ w \in Webhooks /\ place[w] = "new"
  /\ railState' = IF railState = "open" THEN "abandoned" ELSE railState
  /\ Leave(w)
  /\ UNCHANGED <<railUsed, waiting, optedOut, rows, captured, deadSessions>>

PaymentStopped(w) ==
  /\ w \in Webhooks /\ place[w] = "new" /\ StopReason(CaseCopy)
  /\ Leave(w)
  /\ UNCHANGED <<railVars, rows, captured, deadSessions>>

\* The failure is recorded and the lock released for the agent's decision.
AskAgent(w) ==
  /\ w \in Webhooks /\ place[w] = "new" /\ ~StopReason(CaseCopy)
  /\ At(w, "agent")
  /\ UNCHANGED <<railVars, rows, captured, snap, num, on, minted, deadSessions>>

\* _get_attempt_count: the abandon_ marker (attempt_number 0) does not count.
AttemptCount == Len(rows)

\* The key is the number of attempts the payment has used; page rows count.
BuildKey(w) ==
  /\ place[w] = "agent"
  /\ num' = [num EXCEPT ![w] = AttemptCount]
  /\ At(w, "keyed")
  /\ UNCHANGED <<railVars, rows, captured, snap, on, minted, deadSessions>>

\* Another handler took the number between the count and the look-up of the key:
\* without one the count is a number no row has.
AlreadyExecuted(w) ==
  /\ place[w] = "keyed" /\ <<"retry", num[w]>> \in Keys
  /\ Leave(w)
  /\ UNCHANGED <<railVars, rows, captured, deadSessions>>

\* _revalidate_under_lock re-reads the case, and then waits for the ledger.
Revalidate(w) ==
  /\ place[w] = "keyed" /\ <<"retry", num[w]>> \notin Keys
  /\ snap' = [snap EXCEPT ![w] = CaseCopy]
  /\ At(w, "lock")
  /\ UNCHANGED <<railVars, rows, captured, num, on, minted, deadSessions>>

StoppedUnderLock(w) ==
  /\ place[w] = "lock" /\ StopReason(snap[w])
  /\ Leave(w)
  /\ UNCHANGED <<railVars, rows, captured, deadSessions>>

\* Variant: no UNIQUE constraint on the idempotency key.
FreeUnconstrained(w) == place[w] = "lock" /\ ~StopReason(snap[w])

\* The lock is held and nobody took the key: the decision can be stored.
Free(w) ==
  /\ place[w] = "lock" /\ ~StopReason(snap[w])
  /\ <<"retry", num[w]>> \notin Keys

\* A rejected action is a row, and a unit of budget, too; so is an agent's
\* abandon ("skipped") and a retry_at that passed ("scheduled").  A nudge, even
\* a rejected one, makes the case wait.
StoreDecision(w, result) ==
  /\ Free(w)
  /\ result = "scheduled" => num[w] < RetryLimit
  /\ Insert(w, <<"retry", num[w]>>, result)
  /\ \/ UNCHANGED waiting
     \/ result = "rejected" /\ waiting' = TRUE
  /\ Leave(w)
  /\ UNCHANGED <<railState, optedOut, captured, deadSessions>>

\* The guardrail passes a contact: write-ahead, then the gateway is called.
WriteAhead(w) ==
  /\ Free(w) /\ num[w] < RetryLimit
  /\ Insert(w, <<"retry", num[w]>>, "pending")
  /\ \/ UNCHANGED waiting \/ waiting' = TRUE
  /\ on' = [on EXCEPT ![w] = Len(rows) + 1]
  /\ At(w, "calling")
  /\ UNCHANGED <<railState, optedOut, captured, snap, num, minted, deadSessions>>

\* Another handler inserted the key first.  The rolled-back row is added to the
\* session again behind _execute_and_record, so the commit raises a second time
\* and the event goes back to the reconciler, which runs it from the start.
LostRace(w) ==
  /\ place[w] = "lock" /\ ~StopReason(snap[w]) /\ <<"retry", num[w]>> \in Keys
  /\ At(w, "new")
  /\ snap' = [snap EXCEPT ![w] = Unset] /\ num' = [num EXCEPT ![w] = 0]
  /\ UNCHANGED <<railVars, rows, captured, on, minted, deadSessions>>

-----------------------------------------------------------------------------
(* The executor, and what comes of it                                       *)

\* The gateway mints a link, or refuses.
Answer(s, ok) ==
  /\ place[s] = "calling"
  /\ rows' = IF ok THEN [rows EXCEPT ![on[s]].link = "live"] ELSE rows
  /\ minted' = [minted EXCEPT ![s] = ok]
  /\ At(s, "answered")
  /\ UNCHANGED <<railVars, captured, snap, num, on, deadSessions>>

\* _record_execution_outcome writes the row by primary key, whatever its result
\* has become meanwhile.
Record(s) ==
  /\ place[s] = "answered"
  /\ rows' = [rows EXCEPT
       ![on[s]].result = IF minted[s] THEN "success" ELSE "failed",
       ![on[s]].known = minted[s]]
  /\ Leave(s)
  /\ UNCHANGED <<railVars, captured, deadSessions>>

-----------------------------------------------------------------------------
(* The pay button                                                           *)

\* _view_state offers payment: an open case with no attempt in flight.
Offers(state) == state = "open" /\ With(InFlight) = {}

\* First look.  The page refuses, or redirects to a link already out.
PageRefuses(t) ==
  /\ t \in Taps /\ place[t] = "new" /\ (~Offers(railState) \/ Shown # {})
  /\ Leave(t)
  /\ UNCHANGED <<railVars, rows, captured, deadSessions>>

PageOpens(t) ==
  /\ t \in Taps /\ place[t] = "new" /\ Offers(railState) /\ Shown = {}
  /\ snap' = [snap EXCEPT ![t] = CaseCopy]
  /\ num' = [num EXCEPT ![t] = Len(rows)]
  /\ At(t, "look")
  /\ UNCHANGED <<railVars, rows, captured, on, minted, deadSessions>>

\* The second look runs in the same session: rows inserted since the first look
\* are seen, the case and the rows it already holds are its old copies.
NothingNew(t) ==
  \A n \in num[t] + 1 .. Len(rows) : n \notin With(InFlight) \cup Shown

\* validate_self_serve and the flush of the new row.
PageMints(t) ==
  /\ place[t] = "look" /\ NothingNew(t) /\ snap[t].used < RetryLimit
  /\ <<"selfserve", snap[t].used>> \notin Keys
  /\ Insert(t, <<"selfserve", snap[t].used>>, "pending")
  /\ on' = [on EXCEPT ![t] = Len(rows) + 1]
  /\ At(t, "calling")
  /\ UNCHANGED <<railState, waiting, optedOut, captured, snap, num, minted, deadSessions>>

PageRefusesLate(t) ==
  /\ place[t] = "look"
  /\ \/ ~NothingNew(t)
     \/ snap[t].used >= RetryLimit
     \/ <<"selfserve", snap[t].used>> \in Keys
  /\ Leave(t)
  /\ UNCHANGED <<railVars, rows, captured, deadSessions>>

-----------------------------------------------------------------------------
(* The scheduler                                                            *)

\* A parked retry comes due: claimed, committed.
Claim(n) ==
  /\ place[Scheduler] = "new" /\ n \in With({"scheduled"})
  /\ SetResult(n, "claimed")
  /\ on' = [on EXCEPT ![Scheduler] = n] /\ At(Scheduler, "claimed")
  /\ UNCHANGED <<railVars, captured, snap, num, minted, deadSessions>>

\* The case was closed or the customer opted out while it waited.
FireCancels ==
  /\ place[Scheduler] = "claimed" /\ (railState # "open" \/ optedOut)
  /\ SetResult(on[Scheduler], "cancelled")
  /\ Leave(Scheduler)
  /\ UNCHANGED <<railVars, captured, deadSessions>>

FireRejects ==
  /\ place[Scheduler] = "claimed" /\ railState = "open" /\ ~optedOut
  /\ SetResult(on[Scheduler], "rejected")
  /\ Leave(Scheduler)
  /\ UNCHANGED <<railVars, captured, deadSessions>>

Fires ==
  /\ place[Scheduler] = "claimed" /\ railState = "open" /\ ~optedOut
  /\ SetResult(on[Scheduler], "pending")
  /\ At(Scheduler, "calling")
  /\ UNCHANGED <<railVars, captured, snap, num, on, minted, deadSessions>>

\* What the stale sweep reads: pending rows, claimed or written ahead.
StaleRows == With(InFlight)

ResolvedAs(n) == IF rows[n].result = "claimed" THEN "scheduled" ELSE "failed"

\* The stale sweep meets a row whose session died: a mere claim is parked again,
\* a write-ahead fails with its outcome unknown.
StaleResolves(n) ==
  /\ place[Scheduler] = "new" /\ n \in StaleRows
  /\ \A s \in Sessions : on[s] # n
  /\ SetResult(n, ResolvedAs(n))
  /\ UNCHANGED <<railVars, captured, sessVars, deadSessions>>

\* _cancel_links: the gateway kills the links it is reached for, or answers that
\* they are inert already; those rows are stamped, stamped ones are skipped.
CancelLinks(page, reached) ==
  /\ reached # {} /\ reached \subseteq {n \in page : ~rows[n].stamped}
  /\ rows' = [n \in DOMAIN rows |->
       IF n \notin reached THEN rows[n]
       ELSE [rows[n] EXCEPT !.stamped = TRUE,
               !.link = IF @ = "live" THEN "dead" ELSE @]]
  /\ UNCHANGED <<railVars, captured, sessVars, deadSessions>>

\* ORDER BY created_at LIMIT batch.
Oldest(set) == {n \in set : Cardinality({m \in set : m < n}) < LinkPage}

\* Variant: only a recovered case has its links killed.
ClosedPageRecovered ==
  IF railState # "recovered" THEN {} ELSE Oldest(Known \ With({"cancelled"}))

\* The rows cancel_links_for_closed_cases reads.
ClosedPage ==
  IF railState = "open" THEN {} ELSE Oldest(Known \ With({"cancelled"}))

\* Variant: the newest link is not spared.
SupersededAll ==
  IF railState = "open" THEN Oldest(Known \ With({"cancelled"})) ELSE {}

\* The rows cancel_superseded_links reads: an open case's older links.
SupersededPage ==
  IF railState = "open"
    THEN Oldest({n \in Known \ With({"cancelled"}) : \E m \in Known : n < m})
    ELSE {}

\* cancel_links_for_closed_cases and cancel_superseded_links.
LinkSweep(reached) ==
  /\ place[Scheduler] = "new"
  /\ CancelLinks(ClosedPage, reached) \/ CancelLinks(SupersededPage, reached)

-----------------------------------------------------------------------------
(* The customer, the clock and crashes                                      *)

Pay(n) ==
  /\ n \in Payable
  /\ rows' = [rows EXCEPT ![n].link = "paid"]
  /\ UNCHANGED <<railVars, captured, sessVars, deadSessions>>

\* payment_link.paid: a capture recovers an open case and supersedes what is
\* pending; on a closed one it is an overpayment and changes nothing else.
Capture(n) ==
  /\ n \in DOMAIN rows \ captured /\ rows[n].link = "paid"
  /\ captured' = captured \cup {n}
  /\ IF railState = "open"
       THEN /\ railState' = "recovered"
            /\ rows' = [m \in DOMAIN rows |->
                 IF m \in With(InFlight)
                   THEN [rows[m] EXCEPT !.result = "superseded"] ELSE rows[m]]
       ELSE UNCHANGED <<railState, rows>>
  /\ UNCHANGED <<railUsed, waiting, optedOut, sessVars, deadSessions>>

RailOptOut ==
  /\ ~optedOut /\ optedOut' = TRUE
  /\ railState' = IF railState = "open" THEN "opted_out" ELSE railState
  /\ UNCHANGED <<railUsed, waiting, rows, captured, sessVars, deadSessions>>

WaitOver ==
  /\ waiting /\ waiting' = FALSE
  /\ UNCHANGED <<railState, railUsed, optedOut, rows, captured, sessVars, deadSessions>>

\* A process dies: between the write-ahead and the record, its row is left
\* pending and the link it may have minted is nowhere on record.
Dies(s) ==
  /\ deadSessions < MaxDeadSessions
  /\ place[s] \in {"agent", "keyed", "lock", "claimed", "calling", "answered"}
  /\ deadSessions' = deadSessions + 1
  /\ Leave(s)
  /\ UNCHANGED <<railVars, rows, captured>>

-----------------------------------------------------------------------------
PayInit ==
  /\ railState = "open" /\ railUsed = 0 /\ waiting = FALSE /\ optedOut = FALSE
  /\ rows = <<>> /\ captured = {} /\ deadSessions = 0
  /\ place = [s \in Sessions |-> "new"] /\ snap = [s \in Sessions |-> Unset]
  /\ num = [s \in Sessions |-> 0] /\ on = [s \in Sessions |-> 0]
  /\ minted = [s \in Sessions |-> FALSE]

HandlerStep(w) ==
  \/ HardDecline(w) \/ PaymentStopped(w) \/ AskAgent(w) \/ BuildKey(w)
  \/ AlreadyExecuted(w) \/ Revalidate(w) \/ StoppedUnderLock(w) \/ WriteAhead(w)
  \/ LostRace(w)
  \/ \E result \in {"rejected", "skipped", "scheduled"} : StoreDecision(w, result)

PageStep(t) ==
  PageRefuses(t) \/ PageOpens(t) \/ PageMints(t) \/ PageRefusesLate(t)

Execute(s) == (\E ok \in BOOLEAN : Answer(s, ok)) \/ Record(s)

FireStep == FireCancels \/ FireRejects \/ Fires

RowStep(n) == Claim(n) \/ StaleResolves(n)

PayNext ==
  \/ \E w \in Webhooks : HandlerStep(w)
  \/ \E t \in Taps : PageStep(t)
  \/ \E s \in Sessions : Execute(s) \/ Dies(s)
  \/ FireStep
  \/ \E n \in DOMAIN rows : RowStep(n) \/ Pay(n) \/ Capture(n)
  \/ \E reached \in SUBSET DOMAIN rows : LinkSweep(reached)
  \/ RailOptOut \/ WaitOver

PaySpec == PayInit /\ [][PayNext]_payVars

\* Sessions go on, the scheduler keeps ticking, and the gateway is reached for
\* every link of a page.  The customer owes nothing.
PayFairness ==
  /\ \A w \in Webhooks : WF_payVars(HandlerStep(w))
  /\ \A t \in Taps : WF_payVars(PageStep(t))
  /\ \A s \in Sessions : WF_payVars(Execute(s))
  /\ WF_payVars(FireStep)
  /\ WF_payVars(\E n \in DOMAIN rows : RowStep(n))
  /\ WF_payVars(LinkSweep({n \in ClosedPage : ~rows[n].stamped}))

FairPaySpec == PaySpec /\ PayFairness

-----------------------------------------------------------------------------
(* Properties                                                               *)

\* The page and the engine count one budget from different copies, and the page
\* takes no lock.  A press that overlaps another session may overrun it by one
\* contact; nothing else does, however many events arrive.
LinksWithinBudget ==
  Cardinality({n \in DOMAIN rows : rows[n].link # "none"})
    <= RetryLimit + Cardinality(Taps)

\* cancel_superseded_links leaves the customer of an open case a way to pay: it
\* never kills a link unless a newer one on record is payable, or paid.
OnePayableLeft ==
  [][\A n \in DOMAIN rows :
       railState = "open" /\ rows[n].link = "live" /\ rows'[n].link = "dead"
         => \E m \in Known : n < m /\ rows'[m].link \in {"live", "paid"}]_payVars

\* cancel_links_for_closed_cases: "When a case reaches a terminal state, its
\* links must die with it."  Of every link on record.
LinksDieWithCase == []<>(railState = "open" \/ Known \cap Payable = {})

\* Parked and pending attempts all get their verdict, whichever process died on
\* them and whatever the capture and the page did to the case meanwhile.
RowsSettle == []<>(With({"scheduled"} \cup InFlight) = {})
=============================================================================
