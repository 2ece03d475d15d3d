----------------------------- MODULE EventIntake -----------------------------
(****************************************************************************)
(* From a gateway webhook to the pipeline and back to rest: receipt and     *)
(* deduplication (router.receive_razorpay_webhook, idempotency), the        *)
(* background task of the request, and the scheduler's reconcile sweep,     *)
(* which re-runs what the task never finished under a retry cap.            *)
(*                                                                          *)
(* Two kinds of event reach the pipeline.  A payment.captured is credited   *)
(* in one transaction.  A payment.failed counts the payment's attempts,     *)
(* writes the next attempt ahead under the key retry_{payment}_{count}, and *)
(* only then contacts the customer.                                         *)
(****************************************************************************)
EXTENDS Integers, FiniteSets

CONSTANTS
  FailedEvents,   \* payment.failed events
  CapturedEvents, \* payment.captured events
  Sweepers,       \* processes whose scheduler loop is on
  RetryCap,       \* EVENT_RECONCILE_MAX_ATTEMPTS
  Budget,         \* attempts the stopping rule allows one payment
  NoEvent,        \* a sweeper between two events
  SlowTasks,      \* TRUE when a task may outlast event_reconcile_after_seconds
  MaxDeliveries,  \* bound: deliveries per event
  MaxFaults,      \* bound: exceptions raised by a handler
  MaxOutages,     \* bound: re-arms lost with the database
  MaxTaskDeaths,  \* bound: request processes that die with a task
  MaxSweepDeaths  \* bound: schedulers that die inside the sweep

ASSUME IntakeAssumption ==
  /\ RetryCap \in Nat \ {0} /\ Budget \in Nat \ {0}
  /\ MaxDeliveries \in Nat /\ MaxFaults \in Nat /\ MaxOutages \in Nat
  /\ MaxTaskDeaths \in Nat /\ MaxSweepDeaths \in Nat
  /\ SlowTasks \in BOOLEAN
  /\ FailedEvents \cap CapturedEvents = {}
  /\ Sweepers \cap (FailedEvents \cup CapturedEvents) = {}
  /\ NoEvent \notin FailedEvents \cup CapturedEvents

Events == FailedEvents \cup CapturedEvents

\* The background task of event e is named e; it works on that event only.
Handlers == Events \cup Sweepers

VARIABLES
  delivered,  \* deliveries so far, per event
  acked,      \* events the gateway got a 200 for
  windowOver, \* events the gateway no longer redelivers
  dedup,      \* processed_events
  copies,     \* webhook_events rows, per event
  processed,  \* webhook_events.processed
  tries,      \* webhook_events.processing_attempts
  aged,       \* received_at older than event_reconcile_after_seconds
  page,       \* per sweeper: the events its SELECT returned
  pc,         \* where each handler is
  on,         \* the event each handler works on
  key,        \* the attempt number a handler has counted
  rows,       \* retry_attempts rows of the payment, per failed event
  contacts,   \* gateway calls made for the payment, per failed event
  handled,    \* events a handler has seen through
  faults, outages, taskDeaths, sweepDeaths  \* bounded environment counters

gatewayVars == <<delivered, acked, windowOver>>
storeVars   == <<dedup, copies, processed, tries, aged>>
effectVars  == <<rows, contacts, handled>>
boundVars   == <<faults, outages, taskDeaths, sweepDeaths>>
vars == <<gatewayVars, storeVars, page, pc, on, key, effectVars, boundVars>>

Places == {"none", "running", "counted", "calling", "finish", "failing", "done"}

TypeOK ==
  /\ delivered \in [Events -> 0 .. MaxDeliveries]
  /\ acked \subseteq Events /\ windowOver \subseteq Events
  /\ dedup \subseteq Events /\ copies \in [Events -> Nat]
  /\ processed \in [Events -> BOOLEAN] /\ tries \in [Events -> Nat]
  /\ aged \subseteq Events /\ page \in [Sweepers -> SUBSET Events]
  /\ pc \in [Handlers -> Places] /\ on \in [Handlers -> Events \cup {NoEvent}]
  /\ key \in [Handlers -> 0 .. Budget - 1]
  /\ rows \in [FailedEvents -> Nat] /\ contacts \in [FailedEvents -> Nat]
  /\ handled \subseteq Events
  /\ faults \in 0 .. MaxFaults /\ outages \in 0 .. MaxOutages
  /\ taskDeaths \in 0 .. MaxTaskDeaths /\ sweepDeaths \in 0 .. MaxSweepDeaths

-----------------------------------------------------------------------------
(* Receipt                                                                  *)

\* One transaction: the dedup row and the event row commit together, and only
\* then is the gateway told 200.
StoreNew(e) ==
  /\ dedup' = dedup \cup {e}
  /\ copies' = [copies EXCEPT ![e] = @ + 1]
  /\ UNCHANGED <<processed, tries, aged>>

Deliverable(e) == e \notin acked /\ e \notin windowOver /\ delivered[e] < MaxDeliveries

\* A new event: stored, acknowledged, and its background task queued.  The 200
\* may get lost on the way, and then the gateway sends the event again.
Receive(e, heard) ==
  /\ Deliverable(e) /\ e \notin dedup /\ pc[e] = "none"
  /\ delivered' = [delivered EXCEPT ![e] = @ + 1]
  /\ acked' = IF heard THEN acked \cup {e} ELSE acked
  /\ StoreNew(e)
  /\ pc' = [pc EXCEPT ![e] = "running"]
  /\ UNCHANGED <<windowOver, page, on, key, effectVars, boundVars>>

\* The process dies between the commit and the task.
ReceiveAndDie(e, heard) ==
  /\ Deliverable(e) /\ e \notin dedup /\ taskDeaths < MaxTaskDeaths
  /\ taskDeaths' = taskDeaths + 1
  /\ delivered' = [delivered EXCEPT ![e] = @ + 1]
  /\ acked' = IF heard THEN acked \cup {e} ELSE acked
  /\ StoreNew(e)
  /\ UNCHANGED <<windowOver, page, pc, on, key, effectVars, faults, outages, sweepDeaths>>

\* The UNIQUE dedup row is already there: 200, and nothing else.
ReceiveDuplicate(e) ==
  /\ Deliverable(e) /\ e \in dedup
  /\ delivered' = [delivered EXCEPT ![e] = @ + 1]
  /\ acked' = acked \cup {e}
  /\ UNCHANGED <<windowOver, storeVars, page, pc, on, key, effectVars, boundVars>>

\* The gateway gives up on an event after a day, heard or not.
GatewayGivesUp(e) ==
  /\ e \notin windowOver /\ delivered[e] > 0
  /\ windowOver' = windowOver \cup {e}
  /\ UNCHANGED <<delivered, acked, storeVars, page, pc, on, key, effectVars, boundVars>>

\* Variant: a retention shorter than the gateway's redelivery window.
PruneEarly(e) ==
  /\ e \in dedup /\ delivered[e] > 0
  /\ dedup' = dedup \ {e}
  /\ UNCHANGED <<gatewayVars, copies, processed, tries, aged, page, pc, on, key,
                 effectVars, boundVars>>

\* prune_processed_events: retention is longer than any redelivery window.
Prune(e) ==
  /\ e \in dedup /\ e \in windowOver
  /\ dedup' = dedup \ {e}
  /\ UNCHANGED <<gatewayVars, copies, processed, tries, aged, page, pc, on, key,
                 effectVars, boundVars>>

-----------------------------------------------------------------------------
(* The handlers: process_payment_failure and attribute_captured_payload     *)

IsTask(h) == h \in Events

\* A handler goes back: a task is over, a sweeper takes the next event.
Leave(h) ==
  /\ pc' = [pc EXCEPT ![h] = IF IsTask(h) THEN "done" ELSE "none"]
  /\ on' = [on EXCEPT ![h] = IF IsTask(h) THEN h ELSE NoEvent]
  /\ key' = [key EXCEPT ![h] = 0]

Raise(h) == pc' = [pc EXCEPT ![h] = "failing"] /\ UNCHANGED <<on, key>>

\* The handler is through.  A task marks the event processed in its last
\* commit; a sweeper marked it when it claimed it.
SeeThrough(h) ==
  /\ handled' = handled \cup {on[h]}
  /\ processed' = IF IsTask(h) THEN [processed EXCEPT ![h] = TRUE] ELSE processed
  /\ Leave(h)

\* A capture: credited, and for a task marked processed, in one commit.
Credit(h) ==
  /\ pc[h] = "running" /\ on[h] \in CapturedEvents
  /\ SeeThrough(h)
  /\ UNCHANGED <<gatewayVars, dedup, copies, tries, aged, page, rows, contacts, boundVars>>

\* Variant: an off-by-one in the stopping rule.
BudgetLeftOrAt(h) == rows[on[h]] <= Budget

BudgetLeft(h) == rows[on[h]] < Budget

\* _get_attempt_count and the deterministic key.
CountAttempts(h) ==
  /\ pc[h] = "running" /\ on[h] \in FailedEvents /\ BudgetLeft(h)
  /\ key' = [key EXCEPT ![h] = rows[on[h]]]
  /\ pc' = [pc EXCEPT ![h] = "counted"]
  /\ UNCHANGED <<gatewayVars, storeVars, page, on, effectVars, boundVars>>

\* The stopping rule, before the agent call or after it: the budget is spent, or
\* the case is closed, opted out, not due or not recoverable.
Stop(h) ==
  /\ pc[h] \in {"running", "counted"} /\ on[h] \in FailedEvents
  /\ pc' = [pc EXCEPT ![h] = "finish"]
  /\ UNCHANGED <<gatewayVars, storeVars, page, on, key, effectVars, boundVars>>

\* Variant: no UNIQUE constraint on retry_attempts.idempotency_key.
KeyFreeUnchecked(h) == TRUE

\* No row carries the handler's key yet.
KeyFree(h) == rows[on[h]] = key[h]

\* The attempt row commits; a contact follows, or the decision was no contact.
WriteAhead(h, contact) ==
  /\ pc[h] = "counted" /\ KeyFree(h)
  /\ rows' = [rows EXCEPT ![on[h]] = @ + 1]
  /\ pc' = [pc EXCEPT ![h] = IF contact THEN "calling" ELSE "finish"]
  /\ UNCHANGED <<gatewayVars, storeVars, page, on, key, contacts, handled, boundVars>>

\* _attempt_exists sees another handler's row under the key: a clean skip.
KeyTaken(h) ==
  /\ pc[h] = "counted" /\ ~KeyFree(h)
  /\ pc' = [pc EXCEPT ![h] = "finish"]
  /\ UNCHANGED <<gatewayVars, storeVars, page, on, key, effectVars, boundVars>>

\* The row came after that check: the insert raises, the session is rolled back
\* under the handler's feet, and the handler raises in turn.
LoseKey(h) ==
  /\ pc[h] = "counted" /\ ~KeyFree(h)
  /\ Raise(h)
  /\ UNCHANGED <<gatewayVars, storeVars, page, effectVars, boundVars>>

\* The gateway call: the link is sent.
Contact(h) ==
  /\ pc[h] = "calling"
  /\ contacts' = [contacts EXCEPT ![on[h]] = @ + 1]
  /\ pc' = [pc EXCEPT ![h] = "finish"]
  /\ UNCHANGED <<gatewayVars, storeVars, page, on, key, rows, handled, boundVars>>

Finish(h) ==
  /\ pc[h] = "finish"
  /\ SeeThrough(h)
  /\ UNCHANGED <<gatewayVars, dedup, copies, tries, aged, page, rows, contacts, boundVars>>

-----------------------------------------------------------------------------
(* Failure: rollback, re-arm, death                                         *)

\* Something the handler needs raises (the database, the payload, a bug); what
\* it had not committed is rolled back.
Fault(h) ==
  /\ pc[h] \in {"running", "counted", "finish"} /\ faults < MaxFaults
  /\ faults' = faults + 1
  /\ Raise(h)
  /\ UNCHANGED <<gatewayVars, storeVars, page, effectVars, outages, taskDeaths, sweepDeaths>>

\* Variant: a failed event is buried, not re-armed.
RestsAtOnce(n) == TRUE

\* rearm sets processed once the attempts reach the cap.
RestsAfter(n) == ~(n < RetryCap)

\* A rollback expires every row of the page the sweep still holds: touching the
\* next one raises, and the sweep is over.
DropPage(h) == page' = IF IsTask(h) THEN page ELSE [page EXCEPT ![h] = {}]

\* router.rearm: one more attempt on record; below the cap the event is open again.
Rearm(h) ==
  /\ pc[h] = "failing"
  /\ tries' = [tries EXCEPT ![on[h]] = @ + 1]
  /\ processed' = [processed EXCEPT ![on[h]] = RestsAfter(tries[on[h]] + 1)]
  /\ DropPage(h)
  /\ Leave(h)
  /\ UNCHANGED <<gatewayVars, dedup, copies, aged, effectVars, boundVars>>

\* rearm raises as well (the database is still away): it is logged and dropped.
RearmLost(h) ==
  /\ pc[h] = "failing" /\ outages < MaxOutages
  /\ outages' = outages + 1
  /\ DropPage(h)
  /\ Leave(h)
  /\ UNCHANGED <<gatewayVars, storeVars, effectVars, faults, taskDeaths, sweepDeaths>>

\* The request process dies with its task.
TaskDies(e) ==
  /\ pc[e] \notin {"none", "done"} /\ taskDeaths < MaxTaskDeaths
  /\ taskDeaths' = taskDeaths + 1
  /\ Leave(e)
  /\ UNCHANGED <<gatewayVars, storeVars, page, effectVars, faults, outages, sweepDeaths>>

\* The scheduler dies with the event it has claimed.
SweepDies(s) ==
  /\ pc[s] # "none" /\ sweepDeaths < MaxSweepDeaths
  /\ sweepDeaths' = sweepDeaths + 1
  /\ page' = [page EXCEPT ![s] = {}]
  /\ Leave(s)
  /\ UNCHANGED <<gatewayVars, storeVars, effectVars, faults, outages, taskDeaths>>

-----------------------------------------------------------------------------
(* reconcile_events                                                         *)

\* received_at falls behind the cutoff.  Nothing in the code stops that while
\* the task is still running; SlowTasks says whether it happens.
Age(e) ==
  /\ copies[e] > 0 /\ e \notin aged
  /\ SlowTasks \/ pc[e] \in {"none", "done"}
  /\ aged' = aged \cup {e}
  /\ UNCHANGED <<gatewayVars, dedup, copies, processed, tries, page, pc, on, key,
                 effectVars, boundVars>>

\* The sweep's SELECT.
SweepLoad(s) ==
  /\ pc[s] = "none" /\ page[s] = {}
  /\ \E e \in aged : ~processed[e]
  /\ page' = [page EXCEPT ![s] = {e \in aged : ~processed[e]}]
  /\ UNCHANGED <<gatewayVars, storeVars, pc, on, key, effectVars, boundVars>>

\* The conditional UPDATE hits a row.
Claimable(e) == ~processed[e]

\* The claim commits before the handler runs.
SweepClaim(s, e) ==
  /\ pc[s] = "none" /\ e \in page[s] /\ Claimable(e)
  /\ processed' = [processed EXCEPT ![e] = TRUE]
  /\ page' = [page EXCEPT ![s] = @ \ {e}]
  /\ pc' = [pc EXCEPT ![s] = "running"]
  /\ on' = [on EXCEPT ![s] = e]
  /\ UNCHANGED <<gatewayVars, dedup, copies, tries, aged, key, effectVars, boundVars>>

\* Another handler owns the event, or is through with it.
SweepSkip(s, e) ==
  /\ pc[s] = "none" /\ e \in page[s] /\ ~Claimable(e)
  /\ page' = [page EXCEPT ![s] = @ \ {e}]
  /\ UNCHANGED <<gatewayVars, storeVars, pc, on, key, effectVars, boundVars>>

-----------------------------------------------------------------------------
Init ==
  /\ delivered = [e \in Events |-> 0] /\ acked = {} /\ windowOver = {}
  /\ dedup = {} /\ copies = [e \in Events |-> 0]
  /\ processed = [e \in Events |-> FALSE] /\ tries = [e \in Events |-> 0]
  /\ aged = {} /\ page = [s \in Sweepers |-> {}]
  /\ pc = [h \in Handlers |-> "none"]
  /\ on = [h \in Handlers |-> IF IsTask(h) THEN h ELSE NoEvent]
  /\ key = [h \in Handlers |-> 0]
  /\ rows = [e \in FailedEvents |-> 0] /\ contacts = [e \in FailedEvents |-> 0]
  /\ handled = {}
  /\ faults = 0 /\ outages = 0 /\ taskDeaths = 0 /\ sweepDeaths = 0

Gateway(e) ==
  \/ \E heard \in BOOLEAN : Receive(e, heard) \/ ReceiveAndDie(e, heard)
  \/ ReceiveDuplicate(e) \/ GatewayGivesUp(e)

Handle(h) ==
  \/ Credit(h) \/ CountAttempts(h) \/ Stop(h)
  \/ \E contact \in BOOLEAN : WriteAhead(h, contact)
  \/ KeyTaken(h) \/ LoseKey(h) \/ Contact(h) \/ Finish(h) \/ Rearm(h)

Sweep(s) == SweepLoad(s) \/ \E e \in Events : SweepClaim(s, e) \/ SweepSkip(s, e)

Mishap ==
  \/ \E h \in Handlers : Fault(h) \/ RearmLost(h)
  \/ \E e \in Events : TaskDies(e)
  \/ \E s \in Sweepers : SweepDies(s)

Next ==
  \/ \E e \in Events : Gateway(e) \/ Prune(e) \/ Age(e)
  \/ \E h \in Handlers : Handle(h)
  \/ \E s \in Sweepers : Sweep(s)
  \/ Mishap

Spec == Init /\ [][Next]_vars

\* Handlers and sweeps keep running, time passes; the gateway and mishaps are free.
Fairness ==
  /\ \A h \in Handlers : WF_vars(Handle(h))
  /\ \A s \in Sweepers : WF_vars(Sweep(s))
  /\ \A e \in Events : WF_vars(Age(e))

FairSpec == Spec /\ Fairness

-----------------------------------------------------------------------------
(* Properties                                                               *)

\* A task or a sweeper is on the event.
InHand(e) == \E h \in Handlers : on[h] = e /\ pc[h] \notin {"none", "done"}

\* An event that looks finished is finished: it was seen through, it has used
\* up its retries, or a handler is on it.  Otherwise no sweep would ever pick it
\* up again, and the gateway will not resend it.
NoEventLost ==
  \A e \in Events :
    processed[e] => e \in handled \/ tries[e] >= RetryCap \/ InHand(e)

\* No event is lost to an exception, the retry cap or a dying request process;
\* only a scheduler that died inside a claim, or a re-arm that failed as well,
\* can lose one.
EventsKept == sweepDeaths = 0 /\ outages = 0 => NoEventLost

\* What the gateway believes delivered is stored, once: redeliveries, lost 200s
\* and the pruning of the dedup table never make a second row, which every
\* lookup by event id would choke on.
StoredExactlyOnce ==
  \A e \in Events : (e \in acked => copies[e] = 1) /\ copies[e] <= 1

\* However often an event is processed, by tasks and sweeps overlapping, its
\* payment stays inside the attempt budget, and no contact goes out without
\* an attempt row of its own.
ContactsWithinBudget ==
  \A e \in FailedEvents : contacts[e] <= rows[e] /\ rows[e] <= Budget

\* Every acknowledged event is seen through, or rests with its error recorded
\* after RetryCap attempts, until a scheduler dies inside the sweep or a re-arm
\* fails: what such a mishap can cost is EventsKept's business.
AckedEventsResolve ==
  \A e \in Events :
    e \in acked ~> (\/ e \in handled \/ tries[e] >= RetryCap
                   \/ sweepDeaths > 0 \/ outages > 0)
=============================================================================
