---------------------------- MODULE AlertOutbox ----------------------------
(***************************************************************************)
(* Merchant alerts and the human call tasks that raise them                *)
(* (receivables/alerts.py, receivables/tasks.py): an alert joins the queue *)
(* in the transaction it describes; the tick of every scheduler process    *)
(* reads a batch, posts each row to the merchant and commits the outcomes  *)
(* once, at the end of the batch.                                          *)
(***************************************************************************)
EXTENDS Integers, Sequences, Lists

CONSTANTS
  Couriers,    \* scheduler processes that drain the queue
  MaxAlerts,   \* bound: alerts raised in a behaviour
  MaxTries,    \* _MAX_DELIVERY_ATTEMPTS
  BatchSize,   \* limit of one drain
  MaxDeaths    \* bound: processes that die inside a drain

ASSUME OutboxAssumption ==
  /\ MaxAlerts \in Nat /\ MaxTries \in Nat \ {0} /\ BatchSize \in Nat \ {0}
  /\ MaxDeaths \in Nat

VARIABLES
  configured,  \* merchant_webhook_url and risk_webhook_secret are both set
  queue,       \* merchant_alerts in order of created_at
  batch,       \* per courier: indices of the rows of its drain, the posted
               \* outcomes of those it has done and its copies of the tries
  posts,       \* per alert: what the merchant's endpoint has received
  tasks,       \* account_tasks: "pending" or "done", with the alert of each
  deaths
outboxVars == <<configured, queue, batch, posts, tasks, deaths>>

Alert == [call: BOOLEAN, delivered: BOOLEAN, tries: 0..MaxTries]
Idle == [rows |-> <<>>, copies |-> <<>>, done |-> <<>>]
OutboxTypeOK ==
  /\ configured \in BOOLEAN /\ deaths \in 0..MaxDeaths
  /\ queue \in Seq(Alert) /\ Len(queue) <= MaxAlerts
  /\ posts \in Seq(BOOLEAN) /\ Len(posts) = Len(queue)
  /\ tasks \in Seq([alert: 1..MaxAlerts, status: {"pending", "done"}])
  /\ \A c \in Couriers : Len(batch[c].done) <= Len(batch[c].rows)

OutboxInit ==
  /\ configured \in BOOLEAN /\ queue = <<>> /\ posts = <<>> /\ tasks = <<>>
  /\ batch = [c \in Couriers |-> Idle] /\ deaths = 0

----------------------------------------------------------------------------
\* raise_alert: appended in the caller's transaction, with what it describes.
NewAlert(call) == Append(queue, [call |-> call, delivered |-> FALSE, tries |-> 0])

RaiseAlert ==
  /\ Len(queue) < MaxAlerts
  /\ queue' = NewAlert(FALSE) /\ posts' = Append(posts, FALSE)
  /\ UNCHANGED <<configured, batch, tasks, deaths>>

\* raise_call_task: the task and its alert, one transaction (chase_due_accounts
\* commits them with the rung's log row).
RaiseCallTask ==
  /\ Len(queue) < MaxAlerts
  /\ queue' = NewAlert(TRUE) /\ posts' = Append(posts, FALSE)
  /\ tasks' = Append(tasks, [alert |-> Len(queue) + 1, status |-> "pending"])
  /\ UNCHANGED <<configured, batch, deaths>>

\* complete_task, from the console's task list: a done task stays done.
CompleteTask(t) ==
  /\ t \in DOMAIN tasks /\ tasks[t].status = "pending"
  /\ tasks' = [tasks EXCEPT ![t].status = "done"]
  /\ UNCHANGED <<configured, queue, batch, posts, deaths>>

----------------------------------------------------------------------------
\* deliver_pending_alerts

\* Variant: the batch is not filtered on delivery_attempts.
UndeliveredRow(n) == ~queue[n].delivered
Deliverable(n) == ~queue[n].delivered /\ queue[n].tries < MaxTries

Page == LET due == {n \in 1..Len(queue) : Deliverable(n)}
            rows == Kept([n \in 1..Len(queue) |-> n], due)
        IN SubSeq(rows, 1, IF Len(rows) < BatchSize THEN Len(rows) ELSE BatchSize)

SelectAlerts(c) ==
  /\ configured /\ batch[c] = Idle /\ Page # <<>>
  /\ batch' = [batch EXCEPT ![c] =
       [rows |-> Page, copies |-> [k \in 1..Len(Page) |-> queue[Page[k]].tries],
        done |-> <<>>]]
  /\ UNCHANGED <<configured, queue, posts, tasks, deaths>>

\* One signed POST: answered below 300, or any other answer, an error, a time-out
\* (the merchant may have received the last two as well).
PostAlert(c, answered, received) ==
  LET k == Len(batch[c].done) + 1
  IN /\ k <= Len(batch[c].rows) /\ (answered => received)
     /\ posts' = [posts EXCEPT ![batch[c].rows[k]] = @ \/ received]
     /\ batch' = [batch EXCEPT ![c].done = Append(@, answered)]
     /\ UNCHANGED <<configured, queue, tasks, deaths>>

\* What the drain's one commit writes into a row: the columns it changed, the
\* tries counted from its own copy.
Capped3(n) == IF n < MaxTries THEN n ELSE MaxTries
Outcome(row, copy, answered) ==
  IF answered THEN [row EXCEPT !.delivered = TRUE]
              ELSE [row EXCEPT !.tries = Capped3(copy + 1)]

CommitDrain(c) ==
  LET b == batch[c]
      At(n) == CHOOSE k \in 1..Len(b.rows) : b.rows[k] = n
      Held == {b.rows[k] : k \in 1..Len(b.rows)}
  IN /\ b.rows # <<>> /\ Len(b.done) = Len(b.rows)
     /\ queue' = [n \in 1..Len(queue) |->
          IF n \in Held THEN Outcome(queue[n], b.copies[At(n)], b.done[At(n)])
                        ELSE queue[n]]
     /\ batch' = [batch EXCEPT ![c] = Idle]
     /\ UNCHANGED <<configured, posts, tasks, deaths>>

\* The process dies inside the drain: its posts were made, nothing is recorded.
DrainDies(c) ==
  /\ batch[c] # Idle /\ deaths < MaxDeaths /\ deaths' = deaths + 1
  /\ batch' = [batch EXCEPT ![c] = Idle]
  /\ UNCHANGED <<configured, queue, posts, tasks>>

----------------------------------------------------------------------------
Drain(c) == \/ SelectAlerts(c) \/ CommitDrain(c)
            \/ \E answered, received \in BOOLEAN : PostAlert(c, answered, received)
OutboxNext ==
  \/ RaiseAlert \/ RaiseCallTask
  \/ \E t \in 1..MaxAlerts : CompleteTask(t)
  \/ \E c \in Couriers : Drain(c) \/ DrainDies(c)
OutboxSpec == OutboxInit /\ [][OutboxNext]_outboxVars

\* A scheduler's tick goes on to its end, and ticks follow each other.
OutboxFairness == \A c \in Couriers : WF_outboxVars(Drain(c))
FairOutboxSpec == OutboxSpec /\ OutboxFairness

----------------------------------------------------------------------------
\* Properties

\* The outbox comes to rest, whatever the endpoint answers: every alert is
\* delivered or has had its tries, and one that keeps failing never keeps later
\* ones out of the batch (deliver_pending_alerts, "stops a dead endpoint from
\* being hammered forever").
Settled(n) == queue[n].delivered \/ queue[n].tries = MaxTries
AlertsSettle ==
  (configured /\ queue # <<>>) ~> (\A n \in 1..Len(queue) : Settled(n))
=============================================================================
