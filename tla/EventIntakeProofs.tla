-------------------------- MODULE EventIntakeProofs --------------------------
(****************************************************************************)
(* Proofs about EventIntake for any number of events and schedulers: types, *)
(* the single copy of every acknowledged event, a budget that covers every  *)
(* contact, and that no event is lost as long as no scheduler dies inside a *)
(* claim and no re-arm fails.                                               *)
(****************************************************************************)
EXTENDS EventIntake, FiniteSetTheorems, TLAPS

\* What a handler works on: a task on its own event, a busy sweeper on some event.
OnTheirEvent ==
  /\ \A e \in Events : on[e] = e
  /\ \A s \in Sweepers : pc[s] # "none" => on[s] \in Events /\ pc[s] # "done"

\* A handler past the count is on a failed payment, and its key is inside the budget.
OnAFailedPayment ==
  \A h \in Handlers :
    /\ pc[h] \in {"counted", "calling"} => on[h] \in FailedEvents
    /\ pc[h] = "counted" => key[h] < Budget

IInv == TypeOK /\ OnTheirEvent /\ OnAFailedPayment

LEMMA TypeStep ==
  ASSUME IInv, [Next]_vars
  PROVE  IInv'
<1>. USE IntakeAssumption
     DEF IInv, TypeOK, OnTheirEvent, OnAFailedPayment, Events, Handlers, Places
<1>1. ASSUME NEW e \in Events, NEW heard \in BOOLEAN, Receive(e, heard)
      PROVE  IInv'
  BY <1>1 DEF Receive, StoreNew, Deliverable,
         vars, gatewayVars, storeVars, effectVars, boundVars
<1>2. ASSUME NEW e \in Events, NEW heard \in BOOLEAN, ReceiveAndDie(e, heard)
      PROVE  IInv'
  BY <1>2 DEF ReceiveAndDie, StoreNew, Deliverable,
         vars, gatewayVars, storeVars, effectVars, boundVars
<1>3. ASSUME NEW e \in Events, ReceiveDuplicate(e)
      PROVE  IInv'
  BY <1>3 DEF ReceiveDuplicate, Deliverable,
         vars, gatewayVars, storeVars, effectVars, boundVars
<1>4. ASSUME NEW e \in Events, GatewayGivesUp(e)
      PROVE  IInv'
  BY <1>4 DEF GatewayGivesUp,
         vars, gatewayVars, storeVars, effectVars, boundVars
<1>5. ASSUME NEW e \in Events, Prune(e)
      PROVE  IInv'
  BY <1>5 DEF Prune,
         vars, gatewayVars, storeVars, effectVars, boundVars
<1>6. ASSUME NEW e \in Events, Age(e)
      PROVE  IInv'
  BY <1>6 DEF Age,
         vars, gatewayVars, storeVars, effectVars, boundVars
<1>7. ASSUME NEW h \in Handlers, Credit(h)
      PROVE  IInv'
  BY <1>7 DEF Credit, SeeThrough, Leave, IsTask,
         vars, gatewayVars, storeVars, effectVars, boundVars
<1>8. ASSUME NEW h \in Handlers, CountAttempts(h)
      PROVE  IInv'
  BY <1>8 DEF CountAttempts, BudgetLeft,
         vars, gatewayVars, storeVars, effectVars, boundVars
<1>9. ASSUME NEW h \in Handlers, Stop(h)
      PROVE  IInv'
  BY <1>9 DEF Stop,
         vars, gatewayVars, storeVars, effectVars, boundVars
<1>10. ASSUME NEW h \in Handlers, NEW contact \in BOOLEAN, WriteAhead(h, contact)
      PROVE  IInv'
  BY <1>10 DEF WriteAhead, KeyFree,
         vars, gatewayVars, storeVars, effectVars, boundVars
<1>11. ASSUME NEW h \in Handlers, LoseKey(h)
      PROVE  IInv'
  BY <1>11 DEF LoseKey, Raise,
         vars, gatewayVars, storeVars, effectVars, boundVars
<1>23. ASSUME NEW h \in Handlers, KeyTaken(h)
      PROVE  IInv'
  BY <1>23 DEF KeyTaken, KeyFree,
         vars, gatewayVars, storeVars, effectVars, boundVars
<1>12. ASSUME NEW h \in Handlers, Contact(h)
      PROVE  IInv'
  BY <1>12 DEF Contact,
         vars, gatewayVars, storeVars, effectVars, boundVars
<1>13. ASSUME NEW h \in Handlers, Finish(h)
      PROVE  IInv'
  BY <1>13 DEF Finish, SeeThrough, Leave, IsTask,
         vars, gatewayVars, storeVars, effectVars, boundVars
<1>14. ASSUME NEW h \in Handlers, Rearm(h)
      PROVE  IInv'
  BY <1>14 DEF Rearm, DropPage, Leave, IsTask, RestsAfter,
         vars, gatewayVars, storeVars, effectVars, boundVars
<1>15. ASSUME NEW s \in Sweepers, SweepLoad(s)
      PROVE  IInv'
  BY <1>15 DEF SweepLoad,
         vars, gatewayVars, storeVars, effectVars, boundVars
<1>16. ASSUME NEW s \in Sweepers, NEW e \in Events, SweepClaim(s, e)
      PROVE  IInv'
  BY <1>16 DEF SweepClaim, Claimable,
         vars, gatewayVars, storeVars, effectVars, boundVars
<1>17. ASSUME NEW s \in Sweepers, NEW e \in Events, SweepSkip(s, e)
      PROVE  IInv'
  BY <1>17 DEF SweepSkip,
         vars, gatewayVars, storeVars, effectVars, boundVars
<1>18. ASSUME NEW h \in Handlers, Fault(h)
      PROVE  IInv'
  BY <1>18 DEF Fault, Raise,
         vars, gatewayVars, storeVars, effectVars, boundVars
<1>19. ASSUME NEW h \in Handlers, RearmLost(h)
      PROVE  IInv'
  BY <1>19 DEF RearmLost, DropPage, Leave, IsTask,
         vars, gatewayVars, storeVars, effectVars, boundVars
<1>20. ASSUME NEW e \in Events, TaskDies(e)
      PROVE  IInv'
  BY <1>20 DEF TaskDies, Leave, IsTask,
         vars, gatewayVars, storeVars, effectVars, boundVars
<1>21. ASSUME NEW s \in Sweepers, SweepDies(s)
      PROVE  IInv'
  BY <1>21 DEF SweepDies, Leave, IsTask,
         vars, gatewayVars, storeVars, effectVars, boundVars
<1>22. ASSUME UNCHANGED vars
      PROVE  IInv'
  BY <1>22 DEF vars, gatewayVars, storeVars, effectVars, boundVars
<1>. HIDE DEF IInv, TypeOK, OnTheirEvent, OnAFailedPayment, Events, Handlers, Places
<1>. QED
  BY <1>1, <1>2, <1>3, <1>4, <1>5, <1>6, <1>7, <1>8, <1>9, <1>10, <1>11, <1>12,
     <1>13, <1>14, <1>15, <1>16, <1>17, <1>18, <1>19, <1>20, <1>21, <1>22, <1>23
  DEF Next, Gateway, Handle, Sweep, Mishap

\* A sweeper has claimed the event and has not let go of it.
Held(e) == \E s \in Sweepers : pc[s] # "none" /\ on[s] = e

\* The strengthening of EventsKept: tasks do not count, for a task may die.
Accounted ==
  sweepDeaths = 0 /\ outages = 0 =>
    \A e \in Events :
      processed[e] => e \in handled \/ tries[e] >= RetryCap \/ Held(e)

LEMMA AccountedStep ==
  ASSUME IInv, Accounted, [Next]_vars
  PROVE  Accounted'
<1>. USE IntakeAssumption
     DEF IInv, TypeOK, OnTheirEvent, OnAFailedPayment, Events, Handlers, Places,
         Accounted, Held
<1>1. ASSUME NEW e \in Events, NEW heard \in BOOLEAN, Receive(e, heard)
      PROVE  Accounted'
  BY <1>1 DEF Receive, StoreNew, Deliverable,
         vars, gatewayVars, storeVars, effectVars, boundVars
<1>2. ASSUME NEW e \in Events, NEW heard \in BOOLEAN, ReceiveAndDie(e, heard)
      PROVE  Accounted'
  BY <1>2 DEF ReceiveAndDie, StoreNew, Deliverable,
         vars, gatewayVars, storeVars, effectVars, boundVars
<1>3. ASSUME NEW e \in Events, ReceiveDuplicate(e)
      PROVE  Accounted'
  BY <1>3 DEF ReceiveDuplicate, Deliverable,
         vars, gatewayVars, storeVars, effectVars, boundVars
<1>4. ASSUME NEW e \in Events, GatewayGivesUp(e)
      PROVE  Accounted'
  BY <1>4 DEF GatewayGivesUp,
         vars, gatewayVars, storeVars, effectVars, boundVars
<1>5. ASSUME NEW e \in Events, Prune(e)
      PROVE  Accounted'
  BY <1>5 DEF Prune,
         vars, gatewayVars, storeVars, effectVars, boundVars
<1>6. ASSUME NEW e \in Events, Age(e)
      PROVE  Accounted'
  BY <1>6 DEF Age,
         vars, gatewayVars, storeVars, effectVars, boundVars
<1>7. ASSUME NEW h \in Handlers, Credit(h)
      PROVE  Accounted'
  BY <1>7 DEF Credit, SeeThrough, Leave, IsTask,
         vars, gatewayVars, storeVars, effectVars, boundVars
<1>8. ASSUME NEW h \in Handlers, CountAttempts(h)
      PROVE  Accounted'
  BY <1>8 DEF CountAttempts, BudgetLeft,
         vars, gatewayVars, storeVars, effectVars, boundVars
<1>9. ASSUME NEW h \in Handlers, Stop(h)
      PROVE  Accounted'
  BY <1>9 DEF Stop,
         vars, gatewayVars, storeVars, effectVars, boundVars
<1>10. ASSUME NEW h \in Handlers, NEW contact \in BOOLEAN, WriteAhead(h, contact)
      PROVE  Accounted'
  BY <1>10 DEF WriteAhead, KeyFree,
         vars, gatewayVars, storeVars, effectVars, boundVars
<1>11. ASSUME NEW h \in Handlers, LoseKey(h)
      PROVE  Accounted'
  BY <1>11 DEF LoseKey, Raise,
         vars, gatewayVars, storeVars, effectVars, boundVars
<1>23. ASSUME NEW h \in Handlers, KeyTaken(h)
      PROVE  Accounted'
  BY <1>23 DEF KeyTaken, KeyFree,
         vars, gatewayVars, storeVars, effectVars, boundVars
<1>12. ASSUME NEW h \in Handlers, Contact(h)
      PROVE  Accounted'
  BY <1>12 DEF Contact,
         vars, gatewayVars, storeVars, effectVars, boundVars
<1>13. ASSUME NEW h \in Handlers, Finish(h)
      PROVE  Accounted'
  BY <1>13 DEF Finish, SeeThrough, Leave, IsTask,
         vars, gatewayVars, storeVars, effectVars, boundVars
<1>14. ASSUME NEW h \in Handlers, Rearm(h)
      PROVE  Accounted'
  <2>1. on[h] \in Events
    BY <1>14 DEF Rearm
  <2>2. ~(tries[on[h]] + 1 < RetryCap) => tries'[on[h]] >= RetryCap
    BY <1>14, <2>1 DEF Rearm
  <2>3. processed'[on[h]] => tries'[on[h]] >= RetryCap
    BY <1>14, <2>1, <2>2 DEF Rearm, RestsAfter
  <2>4. ASSUME sweepDeaths' = 0, outages' = 0,
               NEW e \in Events, e # on[h], processed'[e]
        PROVE  e \in handled' \/ tries'[e] >= RetryCap \/ Held(e)'
    BY <1>14, <2>1, <2>4 DEF Rearm, Leave, IsTask, effectVars, boundVars
  <2>. QED
    BY <2>3, <2>4
<1>15. ASSUME NEW s \in Sweepers, SweepLoad(s)
      PROVE  Accounted'
  BY <1>15 DEF SweepLoad,
         vars, gatewayVars, storeVars, effectVars, boundVars
<1>16. ASSUME NEW s \in Sweepers, NEW e \in Events, SweepClaim(s, e)
      PROVE  Accounted'
  BY <1>16 DEF SweepClaim, Claimable,
         vars, gatewayVars, storeVars, effectVars, boundVars
<1>17. ASSUME NEW s \in Sweepers, NEW e \in Events, SweepSkip(s, e)
      PROVE  Accounted'
  BY <1>17 DEF SweepSkip,
         vars, gatewayVars, storeVars, effectVars, boundVars
<1>18. ASSUME NEW h \in Handlers, Fault(h)
      PROVE  Accounted'
  BY <1>18 DEF Fault, Raise,
         vars, gatewayVars, storeVars, effectVars, boundVars
<1>19. ASSUME NEW h \in Handlers, RearmLost(h)
      PROVE  Accounted'
  BY <1>19 DEF RearmLost, DropPage, Leave, IsTask,
         vars, gatewayVars, storeVars, effectVars, boundVars
<1>20. ASSUME NEW e \in Events, TaskDies(e)
      PROVE  Accounted'
  BY <1>20 DEF TaskDies, Leave, IsTask,
         vars, gatewayVars, storeVars, effectVars, boundVars
<1>21. ASSUME NEW s \in Sweepers, SweepDies(s)
      PROVE  Accounted'
  BY <1>21 DEF SweepDies, Leave, IsTask,
         vars, gatewayVars, storeVars, effectVars, boundVars
<1>22. CASE UNCHANGED vars
  BY <1>22 DEF vars, gatewayVars, storeVars, effectVars, boundVars
<1>. HIDE DEF IInv, TypeOK, OnTheirEvent, OnAFailedPayment, Events, Handlers, Places,
         Accounted, Held
<1>. QED
  BY <1>1, <1>2, <1>3, <1>4, <1>5, <1>6, <1>7, <1>8, <1>9, <1>10, <1>11, <1>12,
     <1>13, <1>14, <1>15, <1>16, <1>17, <1>18, <1>19, <1>20, <1>21, <1>22, <1>23
  DEF Next, Gateway, Handle, Sweep, Mishap

\* Each stored event has one row, and its dedup row stays at least until the
\* gateway has stopped sending it.
OneCopy ==
  \A e \in Events :
    /\ copies[e] <= 1
    /\ copies[e] = 1 => e \in dedup \cup windowOver
    /\ e \in dedup \cup acked => copies[e] = 1

LEMMA OneCopyStep ==
  ASSUME IInv, OneCopy, [Next]_vars
  PROVE  OneCopy'
<1>. USE DEF IInv, TypeOK, Events, Handlers, OneCopy
<1>1. ASSUME NEW e \in Events, NEW heard \in BOOLEAN, Receive(e, heard)
      PROVE  OneCopy'
  BY <1>1 DEF Receive, StoreNew, Deliverable,
         vars, gatewayVars, storeVars, effectVars, boundVars
<1>2. ASSUME NEW e \in Events, NEW heard \in BOOLEAN, ReceiveAndDie(e, heard)
      PROVE  OneCopy'
  BY <1>2 DEF ReceiveAndDie, StoreNew, Deliverable,
         vars, gatewayVars, storeVars, effectVars, boundVars
<1>3. ASSUME NEW e \in Events, ReceiveDuplicate(e)
      PROVE  OneCopy'
  BY <1>3 DEF ReceiveDuplicate, Deliverable,
         vars, gatewayVars, storeVars, effectVars, boundVars
<1>4. ASSUME NEW e \in Events, GatewayGivesUp(e)
      PROVE  OneCopy'
  BY <1>4 DEF GatewayGivesUp,
         vars, gatewayVars, storeVars, effectVars, boundVars
<1>5. ASSUME NEW e \in Events, Prune(e)
      PROVE  OneCopy'
  BY <1>5 DEF Prune,
         vars, gatewayVars, storeVars, effectVars, boundVars
<1>6. ASSUME NEW e \in Events, Age(e)
      PROVE  OneCopy'
  BY <1>6 DEF Age,
         vars, gatewayVars, storeVars, effectVars, boundVars
<1>7. ASSUME NEW h \in Handlers, Credit(h)
      PROVE  OneCopy'
  BY <1>7 DEF Credit, SeeThrough, Leave, IsTask,
         vars, gatewayVars, storeVars, effectVars, boundVars
<1>8. ASSUME NEW h \in Handlers, CountAttempts(h)
      PROVE  OneCopy'
  BY <1>8 DEF CountAttempts, BudgetLeft,
         vars, gatewayVars, storeVars, effectVars, boundVars
<1>9. ASSUME NEW h \in Handlers, Stop(h)
      PROVE  OneCopy'
  BY <1>9 DEF Stop,
         vars, gatewayVars, storeVars, effectVars, boundVars
<1>10. ASSUME NEW h \in Handlers, NEW contact \in BOOLEAN, WriteAhead(h, contact)
      PROVE  OneCopy'
  BY <1>10 DEF WriteAhead, KeyFree,
         vars, gatewayVars, storeVars, effectVars, boundVars
<1>11. ASSUME NEW h \in Handlers, LoseKey(h)
      PROVE  OneCopy'
  BY <1>11 DEF LoseKey, Raise,
         vars, gatewayVars, storeVars, effectVars, boundVars
<1>23. ASSUME NEW h \in Handlers, KeyTaken(h)
      PROVE  OneCopy'
  BY <1>23 DEF KeyTaken, KeyFree,
         vars, gatewayVars, storeVars, effectVars, boundVars
<1>12. ASSUME NEW h \in Handlers, Contact(h)
      PROVE  OneCopy'
  BY <1>12 DEF Contact,
         vars, gatewayVars, storeVars, effectVars, boundVars
<1>13. ASSUME NEW h \in Handlers, Finish(h)
      PROVE  OneCopy'
  BY <1>13 DEF Finish, SeeThrough, Leave, IsTask,
         vars, gatewayVars, storeVars, effectVars, boundVars
<1>14. ASSUME NEW h \in Handlers, Rearm(h)
      PROVE  OneCopy'
  BY <1>14 DEF Rearm, DropPage, Leave, IsTask, RestsAfter,
         vars, gatewayVars, storeVars, effectVars, boundVars
<1>15. ASSUME NEW s \in Sweepers, SweepLoad(s)
      PROVE  OneCopy'
  BY <1>15 DEF SweepLoad,
         vars, gatewayVars, storeVars, effectVars, boundVars
<1>16. ASSUME NEW s \in Sweepers, NEW e \in Events, SweepClaim(s, e)
      PROVE  OneCopy'
  BY <1>16 DEF SweepClaim, Claimable,
         vars, gatewayVars, storeVars, effectVars, boundVars
<1>17. ASSUME NEW s \in Sweepers, NEW e \in Events, SweepSkip(s, e)
      PROVE  OneCopy'
  BY <1>17 DEF SweepSkip,
         vars, gatewayVars, storeVars, effectVars, boundVars
<1>18. ASSUME NEW h \in Handlers, Fault(h)
      PROVE  OneCopy'
  BY <1>18 DEF Fault, Raise,
         vars, gatewayVars, storeVars, effectVars, boundVars
<1>19. ASSUME NEW h \in Handlers, RearmLost(h)
      PROVE  OneCopy'
  BY <1>19 DEF RearmLost, DropPage, Leave, IsTask,
         vars, gatewayVars, storeVars, effectVars, boundVars
<1>20. ASSUME NEW e \in Events, TaskDies(e)
      PROVE  OneCopy'
  BY <1>20 DEF TaskDies, Leave, IsTask,
         vars, gatewayVars, storeVars, effectVars, boundVars
<1>21. ASSUME NEW s \in Sweepers, SweepDies(s)
      PROVE  OneCopy'
  BY <1>21 DEF SweepDies, Leave, IsTask,
         vars, gatewayVars, storeVars, effectVars, boundVars
<1>22. CASE UNCHANGED vars
  BY <1>22 DEF vars, gatewayVars, storeVars, effectVars, boundVars
<1>. HIDE DEF IInv, TypeOK, Events, Handlers, OneCopy
<1>. QED
  BY <1>1, <1>2, <1>3, <1>4, <1>5, <1>6, <1>7, <1>8, <1>9, <1>10, <1>11, <1>12,
     <1>13, <1>14, <1>15, <1>16, <1>17, <1>18, <1>19, <1>20, <1>21, <1>22, <1>23
  DEF Next, Gateway, Handle, Sweep, Mishap

LEMMA InitHolds == Init => IInv /\ Accounted /\ OneCopy
BY IntakeAssumption
DEF Init, IInv, TypeOK, OnTheirEvent, OnAFailedPayment, Accounted, OneCopy, Events,
    Handlers, Places, IsTask

LEMMA Invariant == Spec => []IInv
<1>1. IInv /\ [Next]_vars => IInv'
  BY TypeStep
<1>. QED
  BY InitHolds, <1>1, PTL DEF Spec

\* Every reachable state is well typed: in particular a sweeper is always on a
\* stored event, and no counter leaves its bound.
THEOREM TypeCorrect == Spec => []TypeOK
BY Invariant, PTL DEF IInv

\* Redelivery, lost acknowledgements, crashes and the pruning of the dedup table
\* never give an event two rows, and every acknowledged event has one.
THEOREM StoredOnce == Spec => []StoredExactlyOnce
<1>1. IInv /\ OneCopy /\ [Next]_vars => OneCopy'
  BY OneCopyStep
<1>2. OneCopy => StoredExactlyOnce
  BY DEF OneCopy, StoredExactlyOnce
<1>. QED
  BY InitHolds, Invariant, <1>1, <1>2, PTL DEF Spec

\* No event is lost, whatever the handlers raise and however many request
\* processes die, until a scheduler dies inside a claim or a re-arm fails.
THEOREM NothingLost == Spec => []EventsKept
<1>1. IInv /\ Accounted /\ [Next]_vars => Accounted'
  BY AccountedStep
<1>2. IInv /\ Accounted => EventsKept
  BY DEF IInv, OnTheirEvent, Accounted, Held, EventsKept, NoEventLost, InHand, Handlers
<1>. QED
  BY InitHolds, Invariant, <1>1, <1>2, PTL DEF Spec
\* The handlers between an attempt row they committed and the call it announces.
Callers(e) == {h \in Handlers : pc[h] = "calling" /\ on[h] = e}

\* The strengthening of ContactsWithinBudget: every call made, and every call about
\* to be made, has a row of its own.
RowPerCall ==
  \A e \in FailedEvents :
    /\ IsFiniteSet(Callers(e))
    /\ contacts[e] + Cardinality(Callers(e)) <= rows[e]
    /\ rows[e] <= Budget

\* A step that writes no row, makes no call and sends no new handler to call.
LEMMA FewerCallers ==
  ASSUME IInv, RowPerCall, UNCHANGED <<rows, contacts>>,
         \A h \in Handlers : pc'[h] = "calling" => pc[h] = "calling" /\ on'[h] = on[h]
  PROVE  RowPerCall'
<1>1. ASSUME NEW e \in FailedEvents
      PROVE  /\ IsFiniteSet(Callers(e)')
             /\ contacts[e] + Cardinality(Callers(e)') <= rows[e]
  <2>1. Callers(e)' \subseteq Callers(e)
    BY DEF Callers
  <2>2. IsFiniteSet(Callers(e)') /\ Cardinality(Callers(e)') <= Cardinality(Callers(e))
    BY <2>1, FS_Subset DEF RowPerCall
  <2>3. Cardinality(Callers(e)') \in Nat /\ Cardinality(Callers(e)) \in Nat
    BY <2>2, FS_CardinalityType DEF RowPerCall
  <2>4. contacts[e] \in Nat /\ rows[e] \in Nat
    BY DEF IInv, TypeOK
  <2>. QED
    BY <2>2, <2>3, <2>4 DEF RowPerCall
<1>. QED
  BY <1>1 DEF RowPerCall

LEMMA RowPerCallStep ==
  ASSUME IInv, RowPerCall, [Next]_vars
  PROVE  RowPerCall'
<1>0. /\ pc \in [Handlers -> Places] /\ on \in [Handlers -> Events \cup {NoEvent}]
      /\ Events \subseteq Handlers /\ Sweepers \subseteq Handlers
      /\ rows \in [FailedEvents -> Nat] /\ contacts \in [FailedEvents -> Nat] /\ Budget \in Nat
  BY IntakeAssumption DEF IInv, TypeOK, Handlers
<1>. USE <1>0 DEF vars, gatewayVars, storeVars, effectVars, boundVars
<1>1. ASSUME NEW e \in Events, Gateway(e) \/ Prune(e) \/ Age(e) PROVE RowPerCall'
  BY <1>1, FewerCallers
  DEF Gateway, Receive, ReceiveAndDie, ReceiveDuplicate, GatewayGivesUp, Prune, Age
<1>2. ASSUME NEW h \in Handlers, NEW contact \in BOOLEAN, WriteAhead(h, contact) PROVE RowPerCall'
  <2>1. PICK f \in FailedEvents : f = on[h]
    BY <1>2 DEF WriteAhead, IInv, OnAFailedPayment
  <2>2. /\ rows' = [rows EXCEPT ![f] = @ + 1] /\ contacts' = contacts /\ on' = on
        /\ pc' = [pc EXCEPT ![h] = IF contact THEN "calling" ELSE "finish"]
        /\ pc[h] = "counted"
    BY <1>2, <2>1 DEF WriteAhead
  <2>3. rows[f] + 1 <= Budget
    BY <1>2, <2>1 DEF WriteAhead, KeyFree, IInv, OnAFailedPayment, TypeOK
  <2>4. ASSUME NEW e \in FailedEvents
        PROVE  /\ IsFiniteSet(Callers(e)')
               /\ contacts'[e] + Cardinality(Callers(e)') <= rows'[e]
               /\ rows'[e] <= Budget
    <3>0. IsFiniteSet(Callers(e)) /\ Cardinality(Callers(e)) \in Nat
      BY FS_CardinalityType DEF RowPerCall
    <3>1. CASE e = f /\ contact
      <4>1. Callers(e)' = Callers(e) \cup {h} /\ h \notin Callers(e)
        BY <2>1, <2>2, <3>1 DEF Callers
      <4>2. IsFiniteSet(Callers(e)') /\ Cardinality(Callers(e)') = Cardinality(Callers(e)) + 1
        BY <3>0, <4>1, FS_AddElement
      <4>. QED
        BY <2>2, <2>3, <3>0, <3>1, <4>2 DEF RowPerCall
    <3>2. CASE ~(e = f /\ contact)
      <4>1. Callers(e)' = Callers(e)
        BY <2>1, <2>2, <3>2 DEF Callers
      <4>. QED
        BY <2>2, <2>3, <3>0, <4>1 DEF RowPerCall
    <3>. QED
      BY <3>1, <3>2
  <2>. QED
    BY <2>4 DEF RowPerCall
<1>3. ASSUME NEW h \in Handlers, Contact(h) PROVE RowPerCall'
  <2>1. PICK f \in FailedEvents : f = on[h]
    BY <1>3 DEF Contact, IInv, OnAFailedPayment
  <2>2. /\ contacts' = [contacts EXCEPT ![f] = @ + 1] /\ rows' = rows /\ on' = on
        /\ pc' = [pc EXCEPT ![h] = "finish"] /\ pc[h] = "calling"
    BY <1>3, <2>1 DEF Contact
  <2>3. ASSUME NEW e \in FailedEvents
        PROVE  /\ IsFiniteSet(Callers(e)')
               /\ contacts'[e] + Cardinality(Callers(e)') <= rows'[e]
    <3>0. IsFiniteSet(Callers(e)) /\ Cardinality(Callers(e)) \in Nat
      BY FS_CardinalityType DEF RowPerCall
    <3>1. CASE e = f
      <4>1. Callers(e)' = Callers(e) \ {h} /\ h \in Callers(e)
        BY <2>1, <2>2, <3>1 DEF Callers
      <4>2. IsFiniteSet(Callers(e)') /\ Cardinality(Callers(e)') = Cardinality(Callers(e)) - 1
        BY <3>0, <4>1, FS_RemoveElement
      <4>. QED
        BY <2>2, <3>0, <3>1, <4>2 DEF RowPerCall
    <3>2. CASE e # f
      <4>1. Callers(e)' = Callers(e)
        BY <2>1, <2>2, <3>2 DEF Callers
      <4>. QED
        BY <2>2, <3>0, <3>2, <4>1 DEF RowPerCall
    <3>. QED
      BY <3>1, <3>2
  <2>. QED
    BY <2>2, <2>3 DEF RowPerCall
<1>4. ASSUME NEW h \in Handlers,
             \/ Credit(h) \/ CountAttempts(h) \/ Stop(h) \/ KeyTaken(h) \/ LoseKey(h)
             \/ Finish(h) \/ Rearm(h) \/ Fault(h) \/ RearmLost(h)
      PROVE  RowPerCall'
  BY <1>4, FewerCallers
  DEF Credit, CountAttempts, Stop, KeyTaken, LoseKey, Finish, Rearm, Fault, RearmLost, SeeThrough,
      Leave, Raise
<1>5. ASSUME NEW s \in Sweepers, Sweep(s) PROVE RowPerCall'
  BY <1>5, FewerCallers DEF Sweep, SweepLoad, SweepClaim, SweepSkip
<1>6. ASSUME NEW h \in Handlers, TaskDies(h) \/ SweepDies(h) PROVE RowPerCall'
  BY <1>6, FewerCallers DEF TaskDies, SweepDies, Leave
<1>7. CASE UNCHANGED vars
  BY <1>7, FewerCallers
<1>. QED
  BY <1>1, <1>2, <1>3, <1>4, <1>5, <1>6, <1>7 DEF Next, Handle, Mishap

\* However often an event is processed, by tasks and sweeps overlapping, its payment
\* stays inside the attempt budget, and each contact has an attempt row of its own.
THEOREM WithinBudget == Spec => []ContactsWithinBudget
<1>1. Init => RowPerCall
  <2>1. Init => \A e \in FailedEvents : Callers(e) = {}
    BY DEF Init, Callers
  <2>. QED
    BY <2>1, FS_EmptySet, IntakeAssumption DEF Init, RowPerCall
<1>2. IInv /\ RowPerCall /\ [Next]_vars => RowPerCall'
  BY RowPerCallStep
<1>3. IInv /\ RowPerCall => ContactsWithinBudget
  BY FS_CardinalityType DEF IInv, TypeOK, RowPerCall, ContactsWithinBudget
<1>. QED
  BY InitHolds, Invariant, <1>1, <1>2, <1>3, PTL DEF Spec
=============================================================================
