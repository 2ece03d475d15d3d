------------------------------ MODULE BatchRun ------------------------------
(***************************************************************************)
(* Batch recovery (recovery_batch.py): an operator previews a cohort of    *)
(* open payment cases and runs the approved half in one transaction, while *)
(* other runs, the engine, captures and opt-outs commit around it. A run   *)
(* calls the gateway first, then adds the attempt's row and the count, and *)
(* commits when the whole cohort is done.                                  *)
(***************************************************************************)
EXTENDS Integers, FiniteSets

CONSTANTS
  Runs,         \* sessions that run a batch
  Cohort,       \* open payment cases, numbered by descending amount
  BatchBudget   \* recovery_cases.max_attempts

ASSUME BatchAssumption == Cohort \subseteq Nat /\ BatchBudget \in Nat

VARIABLES
  account,  \* the cases: [state, used]
  rows,     \* committed attempts: [case, slot, by]
  links,    \* payable links at the gateway, by the key they were minted under
  run       \* the runs: [at, todo, on, seen, mine, flushed]
batchVars == <<account, rows, links, run>>

Key(c, slot, by) == [case |-> c, slot |-> slot, by |-> by]
RowsOf(c) == {row \in rows : row.case = c}
Fresh == [state |-> "open", used |-> 0]
NotRunning == [at |-> "idle", todo |-> {}, on |-> 0, seen |-> Fresh, mine |-> {},
               flushed |-> {}]
BatchInit ==
  /\ account = [c \in Cohort |-> Fresh] /\ rows = {} /\ links = {}
  /\ run = [r \in Runs |-> NotRunning]

\* plan: open, with budget left; the stopping rules, the baseline and the
\* guardrail approve any of them.
Eligible == {c \in Cohort : account[c].state = "open" /\ account[c].used < BatchBudget}
Plan(r) ==
  /\ run[r].at = "idle"
  /\ \E approved \in SUBSET Eligible \ {{}} :
       run' = [run EXCEPT ![r] = [NotRunning EXCEPT !.at = "running", !.todo = approved]]
  /\ UNCHANGED <<account, rows, links>>

NextUp(r) == CHOOSE c \in run[r].todo : \A d \in run[r].todo : c <= d
Slot(r) == run[r].seen.used

\* A query of the session sends the changes it has pending to the database: the
\* cases it counted an attempt on are locked from then on.
Flush(r) == {m.case : m \in run[r].mine}
Unlocked(c) == \A r \in Runs : c \notin run[r].flushed

\* execute re-reads the case and asks the guardrail again: closed, refused,
\* abandoned, or without its failure.
\* Variant: a refusal counts as an attempt.
RefusalSpends(r, c) ==
  run' = [run EXCEPT ![r].todo = @ \ {c}, ![r].flushed = Flush(r),
                     ![r].mine = @ \cup {[case |-> c, slot |-> account[c].used,
                                          row |-> FALSE, ends |-> FALSE]}]
Passed(r, c) == run' = [run EXCEPT ![r].todo = @ \ {c}, ![r].flushed = Flush(r)]
Stale(r) ==
  /\ run[r].at = "running" /\ run[r].todo # {}
  /\ Passed(r, NextUp(r))
  /\ UNCHANGED <<account, rows, links>>

\* Passed again: still open, and the guardrail finds an attempt left.
LoadCase(r) ==
  /\ run[r].at = "running" /\ run[r].todo # {} /\ NextUp(r) \in Eligible
  /\ run' = [run EXCEPT ![r].at = "loaded", ![r].on = NextUp(r),
                        ![r].seen = account[NextUp(r)], ![r].flushed = Flush(r)]
  /\ UNCHANGED <<account, rows, links>>

\* execute_retry: the gateway takes a reference once.
CallGateway(r) ==
  LET key == Key(run[r].on, Slot(r), "batch")
  IN /\ run[r].at = "loaded" /\ run' = [run EXCEPT ![r].at = "called"]
     /\ links' \in {links, links \cup {key}}
     /\ UNCHANGED <<account, rows>>

\* The row is flushed: the insert waits for another run's row of the same key.
Mine(r, c) == {m \in run[r].mine : m.case = c /\ m.row}
KeyIsFree(r) ==
  \A other \in Runs \ {r} : \A m \in Mine(other, run[r].on) : m.slot # Slot(r)
Book(r) ==
  LET c == run[r].on
      spent == run[r].seen.used + 1 >= BatchBudget
  IN /\ run[r].at = "called" /\ KeyIsFree(r)
     /\ Key(c, Slot(r), "batch") \notin rows
     /\ run' = [run EXCEPT ![r].at = "running", ![r].todo = @ \ {c},
                  ![r].mine = @ \cup {[case |-> c, slot |-> Slot(r), row |-> TRUE,
                                       ends |-> spent]}]
     /\ UNCHANGED <<account, rows, links>>

\* The key is taken: the whole transaction is rolled back, after the links of
\* every case before this one were minted.
RunFails(r) ==
  /\ run[r].at = "called" /\ KeyIsFree(r)
  /\ Key(run[r].on, Slot(r), "batch") \in rows
  /\ run' = [run EXCEPT ![r] = NotRunning]
  /\ UNCHANGED <<account, rows, links>>

\* Only the columns the run has set are written, from the copies it read.
Commit(r) ==
  /\ run[r].at = "running" /\ run[r].todo = {}
  /\ account' = [c \in Cohort |->
       IF \A m \in run[r].mine : m.case # c THEN account[c]
       ELSE LET m == CHOOSE m \in run[r].mine : m.case = c
            IN [used |-> m.slot + 1,
                state |-> IF m.ends THEN "exhausted" ELSE account[c].state]]
  /\ rows' = rows \cup {Key(m.case, m.slot, "batch") : m \in {x \in run[r].mine : x.row}}
  /\ run' = [run EXCEPT ![r] = NotRunning]
  /\ UNCHANGED links

\* The session dies, or the console's request does.
RunDies(r) ==
  /\ run[r].at # "idle" /\ run' = [run EXCEPT ![r] = NotRunning]
  /\ UNCHANGED <<account, rows, links>>

----------------------------------------------------------------------------
\* Around the runs

\* A failure event: the engine's own attempt, with its link recorded.
EngineAttempt(c) ==
  /\ c \in Eligible /\ Unlocked(c)
  /\ LET key == Key(c, account[c].used, "engine") IN
       /\ key \notin rows
       /\ rows' = rows \cup {key} /\ links' = links \cup {key}
  /\ account' = [account EXCEPT ![c].used = @ + 1] /\ UNCHANGED run

\* A capture, an opt-out, an operator.
AccountCloses(c) ==
  /\ account[c].state = "open" /\ Unlocked(c)
  /\ account' = [account EXCEPT ![c].state = "recovered"] /\ UNCHANGED <<rows, links, run>>

\* cancel_links_for_closed_cases: links of closed cases whose row carries an external_ref.
\* A batch writes none.
Known(key) == key.by = "engine"
SweepLinks ==
  /\ \E key \in links : account[key.case].state # "open" /\ Known(key)
  /\ links' = {key \in links : account[key.case].state = "open" \/ ~Known(key)}
  /\ UNCHANGED <<account, rows, run>>

BatchNext ==
  \/ \E r \in Runs : \/ Plan(r) \/ Stale(r) \/ LoadCase(r) \/ CallGateway(r) \/ Book(r)
                     \/ RunFails(r) \/ Commit(r) \/ RunDies(r)
  \/ \E c \in Cohort : EngineAttempt(c) \/ AccountCloses(c)
  \/ SweepLinks
BatchSpec == BatchInit /\ [][BatchNext]_batchVars
FairBatchSpec == BatchSpec /\ WF_batchVars(SweepLinks)

----------------------------------------------------------------------------
\* Properties

BatchTypeOK ==
  /\ account \in [Cohort -> [state: {"open", "recovered", "exhausted"},
                             used: 0..BatchBudget]]
  /\ rows \subseteq [case: Cohort, slot: 0..(BatchBudget - 1), by: {"batch", "engine"}]
  /\ links \subseteq [case: Cohort, slot: 0..(BatchBudget - 1), by: {"batch", "engine"}]
  /\ \A r \in Runs : run[r].todo \subseteq Cohort

\* Every slot of a case's budget that is spent has its attempt on record, whatever
\* two runs and the engine do to one case at once: a refusal, an abandon or a run
\* that is rolled back spends nothing (execute: "an abandon must never reach the
\* executor and spend an attempt on a no-op").
NoSlotWithoutRow == \A c \in Cohort : account[c].used <= Cardinality(RowsOf(c))

\* "When a case reaches a terminal state, its links must die with it"
\* (scheduler.cancel_links_for_closed_cases).
BatchLinksDie ==
  \A c \in Cohort :
    (account[c].state # "open" /\ \E key \in links : key.case = c)
      ~> \A key \in links : key.case # c
=============================================================================
