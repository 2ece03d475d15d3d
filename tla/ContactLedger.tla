---------------------------- MODULE ContactLedger ----------------------------
(****************************************************************************)
(* The per-customer contact tally (retry_ledger) and the two rails that     *)
(* spend it: process_payment_failure and chase_case.  Both read the tally,  *)
(* commit, ask the agent, validate against the limit under a FOR UPDATE     *)
(* lock, contact the customer and then add one.  One tally stands for       *)
(* either of the two the row keeps (retries, nudges): they do not interact. *)
(*                                                                          *)
(* The write-ahead commit between validation and contact ends the           *)
(* transaction, and the lock with it.                                       *)
(****************************************************************************)
EXTENDS Integers, FiniteSets

CONSTANTS
  PayWorkers,   \* sessions running process_payment_failure for the customer
  ChaseWorkers, \* sessions running chase_case for the customer
  Limit,        \* max_retries_per_customer_24h, or max_nudges_per_customer_24h
  MaxContacts,  \* bound: contacts begun
  MaxCrashes,   \* bound: processes that die
  NoWorker,     \* nobody holds the lock
  NoRow         \* no ledger row, or no copy of it

TallyWorkers == PayWorkers \cup ChaseWorkers

ASSUME LedgerAssumption ==
  /\ Limit \in Nat \ {0} /\ MaxContacts \in Nat /\ MaxCrashes \in Nat
  /\ PayWorkers \cap ChaseWorkers = {} /\ IsFiniteSet(TallyWorkers)
  /\ NoWorker \notin TallyWorkers

\* A tally: how many, and whether the window it was opened in has passed
\* (anchored rows: now - window_started_at > window; rows without an anchor:
\* now - last contact > window).
Tallies == [count : Nat, rolled : BOOLEAN]

ASSUME NoRowAssumption == NoRow \notin Tallies

VARIABLES
  row,     \* the customer's ledger row
  lock,    \* the worker whose transaction holds it FOR UPDATE
  pc,      \* where each worker is
  rowCopy,    \* the row a worker's session keeps from its first read
  booked,  \* contacts bumped since the row's window opened
  begun, crashes  \* bounded environment counters

tallyVars == <<row, lock, pc, rowCopy, booked, begun, crashes>>

Places == {"idle", "deciding", "armed", "calling", "answered", "inserting"}

\* The lock is held only while a validated message is being written.
TallyTypeOK ==
  /\ row \in Tallies \cup {NoRow}
  /\ lock \in {w \in TallyWorkers : pc[w] = "armed"} \cup {NoWorker}
  /\ pc \in [TallyWorkers -> Places] /\ rowCopy \in [TallyWorkers -> Tallies \cup {NoRow}]
  /\ booked \in Nat /\ begun \in 0 .. MaxContacts /\ crashes \in 0 .. MaxCrashes

-----------------------------------------------------------------------------
(* The tally                                                                *)

\* _effective_counts: a tally whose window has passed counts nothing.
Effective(t) == IF t = NoRow \/ t.rolled THEN 0 ELSE t.count

\* _update_retry_ledger: a passed window starts again at one.
Bumped(t) == [count |-> Effective(t) + 1, rolled |-> FALSE]

LockFree == row = NoRow \/ lock = NoWorker

\* Variant: the payment rail keeps its first read alive as well.
KeepsCopyBoth(w) == TRUE

\* chase_case holds the row it read first in a local; a later SELECT ... FOR
\* UPDATE locks the row and hands out that same object unchanged.
KeepsCopy(w) == w \in ChaseWorkers

\* What a session shows its worker under the lock.
Seen(w) == IF rowCopy[w] = NoRow THEN row ELSE rowCopy[w]

Goto(w, place) == pc' = [pc EXCEPT ![w] = place]

Rest(w) == Goto(w, "idle") /\ rowCopy' = [rowCopy EXCEPT ![w] = NoRow]

\* The contacts booked after one more bump.
BookedNext == Effective(IF row = NoRow THEN row ELSE [row EXCEPT !.count = booked]) + 1

\* The UPDATE of the row, from the worker's copy.
Store(w) == row' = Bumped(Seen(w)) /\ booked' = BookedNext

-----------------------------------------------------------------------------
(* One contact                                                              *)

\* The first stopping rule reads the ledger; the commit before the agent call
\* lets go of the lock.
BeginContact(w) ==
  /\ pc[w] = "idle" /\ LockFree /\ begun < MaxContacts
  /\ begun' = begun + 1
  /\ rowCopy' = [rowCopy EXCEPT ![w] = IF KeepsCopy(w) THEN row ELSE NoRow]
  /\ Goto(w, "deciding")
  /\ UNCHANGED <<row, lock, booked, crashes>>

UnderLimit(w) == Effective(Seen(w)) < Limit

\* The guardrail says no, or the stopping rule does: nothing is counted.
Refuse(w) ==
  /\ pc[w] = "deciding" /\ LockFree
  /\ Rest(w)
  /\ UNCHANGED <<row, lock, booked, begun, crashes>>

\* The agent abandons the case: a missing row is added, with nothing counted.
Abandon(w) ==
  /\ pc[w] = "deciding" /\ LockFree
  /\ row' = IF row = NoRow THEN [count |-> 0, rolled |-> FALSE] ELSE row
  /\ Rest(w)
  /\ UNCHANGED <<lock, booked, begun, crashes>>

\* retry_at: parked and counted in one transaction, under the lock.  A first row
\* is inserted; two such inserts collide on the customer, and the loser's
\* whole transaction is gone.
Park(w) ==
  /\ pc[w] = "deciding" /\ LockFree /\ UnderLimit(w)
  /\ Store(w)
  /\ Rest(w)
  /\ UNCHANGED <<lock, begun, crashes>>

\* Validated: the lock is held while the message is written.
Arm(w) ==
  /\ pc[w] = "deciding" /\ LockFree /\ UnderLimit(w)
  /\ lock' = IF row = NoRow THEN lock ELSE w
  /\ Goto(w, "armed")
  /\ UNCHANGED <<row, rowCopy, booked, begun, crashes>>

Release(w) == lock' = IF lock = w THEN NoWorker ELSE lock

\* The write-ahead row commits, and the lock goes with the transaction.
WriteAhead(w) ==
  /\ pc[w] = "armed"
  /\ Release(w)
  /\ Goto(w, "calling")
  /\ UNCHANGED <<row, rowCopy, booked, begun, crashes>>

\* The gateway sends the link.
Contact(w) ==
  /\ pc[w] = "calling"
  /\ Goto(w, "answered")
  /\ UNCHANGED <<row, lock, rowCopy, booked, begun, crashes>>

\* One more contact in the tally.
Bump(w) ==
  /\ pc[w] = "answered" /\ LockFree /\ Seen(w) # NoRow
  /\ Store(w)
  /\ Rest(w)
  /\ UNCHANGED <<lock, begun, crashes>>

\* No row yet: one is added to the session, to be inserted by the commit.
AddRow(w) ==
  /\ pc[w] = "answered" /\ Seen(w) = NoRow
  /\ Goto(w, "inserting")
  /\ UNCHANGED <<row, lock, rowCopy, booked, begun, crashes>>

InsertRow(w) ==
  /\ pc[w] = "inserting" /\ row = NoRow
  /\ Store(w)
  /\ Rest(w)
  /\ UNCHANGED <<lock, begun, crashes>>

\* UNIQUE(customer_id): the outcome and the bump are rolled back together.
InsertLost(w) ==
  /\ pc[w] = "inserting" /\ row # NoRow
  /\ Rest(w)
  /\ UNCHANGED <<row, lock, booked, begun, crashes>>

-----------------------------------------------------------------------------
(* The clock and crashes                                                    *)

\* The row's window passes, and with it that of every copy: a copy is never
\* anchored later than the row.
WindowPasses ==
  /\ row # NoRow /\ ~row.rolled
  /\ row' = [row EXCEPT !.rolled = TRUE]
  /\ rowCopy' = [w \in TallyWorkers |->
                IF rowCopy[w] = NoRow THEN NoRow ELSE [rowCopy[w] EXCEPT !.rolled = TRUE]]
  /\ UNCHANGED <<lock, pc, booked, begun, crashes>>

Crash(w) ==
  /\ pc[w] # "idle" /\ crashes < MaxCrashes
  /\ crashes' = crashes + 1
  /\ Release(w)
  /\ Rest(w)
  /\ UNCHANGED <<row, booked, begun>>

-----------------------------------------------------------------------------
TallyInit ==
  /\ row = NoRow /\ lock = NoWorker
  /\ pc = [w \in TallyWorkers |-> "idle"] /\ rowCopy = [w \in TallyWorkers |-> NoRow]
  /\ booked = 0 /\ begun = 0 /\ crashes = 0

ContactStep(w) ==
  \/ BeginContact(w) \/ Refuse(w) \/ Abandon(w) \/ Park(w) \/ Arm(w)
  \/ WriteAhead(w) \/ Contact(w) \/ Bump(w) \/ AddRow(w)
  \/ InsertRow(w) \/ InsertLost(w) \/ Crash(w)

TallyNext == (\E w \in TallyWorkers : ContactStep(w)) \/ WindowPasses

TallySpec == TallyInit /\ [][TallyNext]_tallyVars

-----------------------------------------------------------------------------
(* Properties                                                               *)

\* Contacts that have passed validation and are not in the tally yet.
InFlight == {w \in TallyWorkers : pc[w] \in {"armed", "calling", "answered", "inserting"}}

\* The tally counts every contact that was recorded: no bump overwrites another,
\* although the lock is not held from validation to bump.
TallyCountsEveryBump == row # NoRow => row.count = booked

\* How far the limit can be overrun: every session may have passed validation on
\* the last free contact, so one window sees at most Limit + |TallyWorkers| - 1.
OverrunIsBounded ==
  Effective(row) + Cardinality(InFlight) <= Limit + Cardinality(TallyWorkers) - 1

\* The contact tally, though its lock is given up before the contact is made: no bump is
\* lost, and a window is overrun by the sessions at work at most.
TallyHolds == TallyCountsEveryBump /\ OverrunIsBounded
=============================================================================
