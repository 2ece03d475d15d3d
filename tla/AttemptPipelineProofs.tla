----------------------- MODULE AttemptPipelineProofs -----------------------
(****************************************************************************)
(* Proofs about AttemptPipeline for any number of schedulers, request       *)
(* workers, attempts, deferrals and crashes: types, the exact agreement of  *)
(* the budget with the attempt log, consent at fire time, and that outcomes *)
(* and closed cases stay; and, for one scheduler, that a key is sent once   *)
(* and nothing that is over comes back.                                     *)
(*                                                                          *)
(* Each theorem strengthens its property into an inductive invariant that   *)
(* says, for each place a worker can be, what it may still rely on; each    *)
(* step of Next then has one step of the proof.                             *)
(****************************************************************************)
EXTENDS AttemptPipeline, TLAPS

\* The sets the variables range over are visible in every step.
USE PipelineAssumption DEF Workers, Keys, Terminal, CaseStates, Settled, Alive,
  Results, Phases, Actions, CallCap, Snapshots, Places

\* One more call, as far as calls are counted.
LEMMA CountStays == \A k \in 0 .. 2 : (IF k < 2 THEN k + 1 ELSE k) \in 0 .. 2
  OBVIOUS

\* Every reachable state is well typed: no worker, whatever copy of the case it
\* decides on, drives attempts_used past the budget or leaves the range of keys.
THEOREM TypeCorrect == Spec => []TypeOK
<1> USE DEF TypeOK, CaseTypeOK, RowTypeOK, CustomerTypeOK, WorkerTypeOK, BoundsTypeOK
<1>1. Init => TypeOK
  <2> SUFFICES ASSUME Init PROVE TypeOK
    OBVIOUS
  <2> USE DEF Init, Fresh
  <2>1. CaseTypeOK
    OBVIOUS
  <2>2. RowTypeOK
    OBVIOUS
  <2>3. CustomerTypeOK
    OBVIOUS
  <2>4. WorkerTypeOK
    OBVIOUS
  <2>5. BoundsTypeOK
    OBVIOUS
  <2> QED
    BY <2>1, <2>2, <2>3, <2>4, <2>5
<1>2. TypeOK /\ [Next]_vars => TypeOK'
  <2> SUFFICES ASSUME TypeOK, [Next]_vars PROVE TypeOK'
    OBVIOUS
  <2> USE DEF caseVars, rowVars, custVars, workVars, envVars, Goto, Finish,
          Forget, Fresh, Home, CaseRow
  <2>1. ASSUME NEW w \in Workers, ChaseStep(w) PROVE TypeOK'
    <3>1. CASE ChaseLoad(w)
      BY <3>1 DEF ChaseLoad
    <3>3. CASE DeferToPending(w)
        <4> USE <3>3 DEF DeferToPending
        <4>1. CaseTypeOK'
          OBVIOUS
        <4>2. RowTypeOK'
          OBVIOUS
        <4>3. CustomerTypeOK'
          OBVIOUS
        <4>4. WorkerTypeOK'
          OBVIOUS
        <4>5. BoundsTypeOK'
          OBVIOUS
        <4> QED
          BY <4>1, <4>2, <4>3, <4>4, <4>5
    <3>4. CASE ChaseStopped(w)
      BY <3>4 DEF ChaseStopped
    <3>5. CASE ChaseExpires(w)
      BY <3>5 DEF ChaseExpires
    <3>6. CASE ChaseDeferred(w)
        <4> USE <3>6 DEF ChaseDeferred
        <4>1. CaseTypeOK'
          OBVIOUS
        <4>2. RowTypeOK'
          OBVIOUS
        <4>3. CustomerTypeOK'
          OBVIOUS
        <4>4. WorkerTypeOK'
          OBVIOUS
        <4>5. BoundsTypeOK'
          OBVIOUS
        <4> QED
          BY <4>1, <4>2, <4>3, <4>4, <4>5
    <3>7. CASE ChaseAsksAgent(w)
      BY <3>7 DEF ChaseAsksAgent, Stopped
    <3> QED
      BY <2>1, <3>1, <3>3, <3>4, <3>5, <3>6, <3>7 DEF ChaseStep
  <2>2. ASSUME NEW w \in Workers, DecisionStep(w) PROVE TypeOK'
    <3>1. CASE KeyTaken(w)
      BY <3>1 DEF KeyTaken
    <3>2. CASE Revalidate(w)
      BY <3>2 DEF Revalidate
    <3>3. CASE RecheckStopped(w)
      BY <3>3 DEF RecheckStopped
    <3>4. ASSUME NEW r \in {"rejected", "skipped"}, StoreOutcome(w, r) PROVE TypeOK'
        <4> USE <3>4 DEF StoreOutcome, InsertRow, Attached, CloseOrFloor, Stopped
        <4>1. CaseTypeOK'
          <5>1. snap[w].used \in 0 .. MaxAttempts - 1
            BY DEF Stopped
          <5>2. used' = snap[w].used + 1
            OBVIOUS
          <5>3. cState' \in CaseStates
            OBVIOUS
          <5>4. due' \in BOOLEAN
            OBVIOUS
          <5> QED
            BY <5>1, <5>2, <5>3, <5>4
        <4>2. RowTypeOK'
          OBVIOUS
        <4>3. CustomerTypeOK'
          OBVIOUS
        <4>4. WorkerTypeOK'
          OBVIOUS
        <4>5. BoundsTypeOK'
          OBVIOUS
        <4> QED
          BY <4>1, <4>2, <4>3, <4>4, <4>5
    <3>5. CASE OutcomeConflict(w)
      BY <3>5 DEF OutcomeConflict
    <3>6. CASE Park(w)
        <4> USE <3>6 DEF Park, InsertRow, Attached, Stopped
        <4>1. CaseTypeOK'
          <5>1. snap[w].used \in 0 .. MaxAttempts - 1
            BY DEF Stopped
          <5>2. used' = snap[w].used + 1
            OBVIOUS
          <5>3. cState' \in CaseStates
            OBVIOUS
          <5>4. due' \in BOOLEAN
            OBVIOUS
          <5> QED
            BY <5>1, <5>2, <5>3, <5>4
        <4>2. RowTypeOK'
          OBVIOUS
        <4>3. CustomerTypeOK'
          OBVIOUS
        <4>4. WorkerTypeOK'
          OBVIOUS
        <4>5. BoundsTypeOK'
          OBVIOUS
        <4> QED
          BY <4>1, <4>2, <4>3, <4>4, <4>5
    <3>7. CASE Arm(w)
        <4> USE <3>7 DEF Arm, Attached, Stopped
        <4>1. CaseTypeOK'
          OBVIOUS
        <4>2. RowTypeOK'
          OBVIOUS
        <4>3. CustomerTypeOK'
          OBVIOUS
        <4>4. WorkerTypeOK'
          <5>1. PICK a \in {"retry_now", "nudge_customer"} :
                  act' = [act EXCEPT ![w] = a] /\ snap' = [snap EXCEPT ![w] = Attached(@, a)]
            OBVIOUS
          <5>2. snap[w].used + 1 \in 0 .. MaxAttempts /\ snap[w].state \in CaseStates
            BY DEF Stopped
          <5>3. Attached(snap[w], a) \in Snapshots
            BY <5>2
          <5>4. snap' \in [Workers -> Snapshots] /\ act' \in [Workers -> Actions]
            BY <5>1, <5>3
          <5>5. pc' \in [Workers -> Places] /\ lock' \in Workers \cup {NoWorker}
            OBVIOUS
          <5> QED
            BY <5>4, <5>5
        <4>5. BoundsTypeOK'
          OBVIOUS
        <4> QED
          BY <4>1, <4>2, <4>3, <4>4, <4>5
    <3> QED
      BY <2>2, <3>1, <3>2, <3>3, <3>4, <3>5, <3>6, <3>7 DEF DecisionStep
  <2>3. ASSUME NEW w \in Workers, FireStep(w) PROVE TypeOK'
    <3>1. ASSUME NEW n \in Keys, FireClaim(w, n) PROVE TypeOK'
      BY <3>1 DEF FireClaim
    <3>2. CASE FireCancelled(w)
        <4> USE <3>2 DEF FireCancelled, MarkRow
        <4>1. CaseTypeOK'
          OBVIOUS
        <4>2. RowTypeOK'
          OBVIOUS
        <4>3. CustomerTypeOK'
          OBVIOUS
        <4>4. WorkerTypeOK'
          OBVIOUS
        <4>5. BoundsTypeOK'
          OBVIOUS
        <4> QED
          BY <4>1, <4>2, <4>3, <4>4, <4>5
    <3>3. CASE FireRejected(w)
        <4> USE <3>3 DEF FireRejected, MarkRow, CloseOrFloor
        <4>1. CaseTypeOK'
          OBVIOUS
        <4>2. RowTypeOK'
          OBVIOUS
        <4>3. CustomerTypeOK'
          OBVIOUS
        <4>4. WorkerTypeOK'
          OBVIOUS
        <4>5. BoundsTypeOK'
          OBVIOUS
        <4> QED
          BY <4>1, <4>2, <4>3, <4>4, <4>5
    <3>4. CASE FirePassed(w)
      BY <3>4 DEF FirePassed
    <3> QED
      BY <2>3, <3>1, <3>2, <3>3, <3>4 DEF FireStep
  <2>4. ASSUME NEW w \in Workers, ExecuteStep(w) PROVE TypeOK'
    <3>1. CASE WriteAheadNew(w)
      BY <3>1 DEF WriteAheadNew, InsertRow, Release
    <3>2. CASE WriteAheadConflict(w)
      BY <3>2 DEF WriteAheadConflict, Release
    <3>3. CASE WriteAheadFired(w)
      BY <3>3 DEF WriteAheadFired, Release
    <3>4. CASE CallGateway(w)
        <4> USE <3>4 DEF CallGateway
        <4>1. CaseTypeOK'
          OBVIOUS
        <4>2. RowTypeOK'
          <5> HIDE DEF CaseTypeOK, CustomerTypeOK, WorkerTypeOK, BoundsTypeOK
          <5>1. calls \in [Keys -> 0 .. 2]
            OBVIOUS
          <5>2. calls' \in [Keys -> 0 .. 2]
            BY <5>1, CountStays
          <5> QED
            BY <5>2
        <4>3. CustomerTypeOK'
          OBVIOUS
        <4>4. WorkerTypeOK'
          OBVIOUS
        <4>5. BoundsTypeOK'
          OBVIOUS
        <4> QED
          BY <4>1, <4>2, <4>3, <4>4, <4>5
    <3>5. CASE Record(w)
        <4> USE <3>5 DEF Record, MarkRow
        <4>1. CaseTypeOK'
          OBVIOUS
        <4>2. RowTypeOK'
          <5>1. PICK r \in {"success", "failed"} : MarkRow(w, r)
            OBVIOUS
          <5>2. result' \in [Keys -> Results] /\ phase' \in [Keys -> Phases]
            BY <5>1
          <5> QED
            BY <5>2
        <4>3. CustomerTypeOK'
          OBVIOUS
        <4>4. WorkerTypeOK'
          OBVIOUS
        <4>5. BoundsTypeOK'
          OBVIOUS
        <4> QED
          BY <4>1, <4>2, <4>3, <4>4, <4>5
    <3> QED
      BY <2>4, <3>1, <3>2, <3>3, <3>4, <3>5 DEF ExecuteStep
  <2>5. ASSUME NEW w \in Workers, SweepStep(w) PROVE TypeOK'
    <3>1. ASSUME NEW n \in Keys, Repark(w, n) PROVE TypeOK'
      BY <3>1 DEF Repark, Stale
    <3>2. ASSUME NEW n \in Keys, FailClosed(w, n) PROVE TypeOK'
      BY <3>2 DEF FailClosed, Stale
    <3>3. CASE TickStart(w)
      BY <3>3 DEF TickStart
    <3>4. CASE FireSweepDone(w)
      BY <3>4 DEF FireSweepDone
    <3>5. CASE StaleSweepDone(w)
      BY <3>5 DEF StaleSweepDone
    <3>6. CASE ChaseSweepDone(w)
      BY <3>6 DEF ChaseSweepDone
    <3> QED
      BY <2>5, <3>1, <3>2, <3>3, <3>4, <3>5, <3>6 DEF SweepStep
  <2>6. ASSUME NEW w \in Workers, Crash(w) PROVE TypeOK'
    BY <2>6 DEF Crash, Release
  <2>7. CASE Clock
      <3> USE <2>7 DEF Clock, CaseComesDue, WindowCloses, Ripen, AgeRow
      <3>1. CaseTypeOK'
        OBVIOUS
      <3>2. RowTypeOK'
        <4> HIDE DEF CaseTypeOK, CustomerTypeOK, WorkerTypeOK, BoundsTypeOK
        <4> QED
          OBVIOUS
      <3>3. CustomerTypeOK'
        OBVIOUS
      <3>4. WorkerTypeOK'
        OBVIOUS
      <3>5. BoundsTypeOK'
        OBVIOUS
      <3> QED
        BY <3>1, <3>2, <3>3, <3>4, <3>5
  <2>8. ASSUME NEW full \in BOOLEAN, Capture(full) PROVE TypeOK'
    BY <2>8 DEF Capture
  <2>9. CASE OptOut
    BY <2>9 DEF OptOut
  <2>10. CASE UNCHANGED vars
    BY <2>10 DEF vars
  <2>11. ASSUME NEW w \in Workers, EventLoad(w) PROVE TypeOK'
    BY <2>11 DEF EventLoad
  <2> QED
    BY <2>1, <2>2, <2>3, <2>4, <2>5, <2>6, <2>7, <2>8, <2>9, <2>10, <2>11
    DEF Next, WorkerStep
<1> QED
  BY <1>1, <1>2, PTL DEF Spec

-----------------------------------------------------------------------------
\* What a worker's place says of its key, its copy of the case and the rows.
WorkerInv(w) ==
  /\ pc[w] = "loaded" => snap[w].used <= used
  /\ pc[w] = "deciding" => key[w] \in Keys /\ key[w] <= used
  /\ pc[w] = "refreshed" =>
        /\ key[w] \in Keys
        /\ key[w] <= snap[w].used /\ snap[w].used <= used
  /\ pc[w] = "armed" /\ via[w] = "chase" =>
        /\ key[w] \in Keys /\ key[w] < snap[w].used /\ snap[w].used <= used + 1
  /\ pc[w] \in {"claimed", "armed"} /\ via[w] = "fire" => key[w] \in Rows
  /\ pc[w] = "claimed" => via[w] = "fire"
  /\ pc[w] \in {"loaded", "deciding", "refreshed"} => via[w] = "chase"
  /\ pc[w] \in {"calling", "answered"} => key[w] \in Rows

\* The strengthening of RowsMatchBudget.
BudgetInv == RowsMatchBudget /\ \A w \in Workers : WorkerInv(w)

LEMMA BudgetKept == Spec => []BudgetInv
<1> USE DEF BudgetInv, RowsMatchBudget, WorkerInv, Rows
<1>1. Init => BudgetInv
  BY DEF Init, Fresh
<1>2. TypeOK /\ BudgetInv /\ [Next]_vars => BudgetInv'
  <2> SUFFICES ASSUME TypeOK, BudgetInv, [Next]_vars PROVE BudgetInv'
    OBVIOUS
  <2> USE DEF TypeOK, CaseTypeOK, RowTypeOK, WorkerTypeOK, caseVars, rowVars,
          workVars, Goto, Finish, Forget, Fresh, Home, CaseRow
  <2>1. ASSUME NEW w \in Workers, ChaseStep(w) PROVE BudgetInv'
    <3>1. CASE ChaseLoad(w)
      BY <3>1 DEF ChaseLoad
    <3>3. CASE DeferToPending(w)
      BY <3>3 DEF DeferToPending
    <3>4. CASE ChaseStopped(w)
      BY <3>4 DEF ChaseStopped
    <3>5. CASE ChaseExpires(w)
      BY <3>5 DEF ChaseExpires
    <3>6. CASE ChaseDeferred(w)
      BY <3>6 DEF ChaseDeferred
    <3>7. CASE ChaseAsksAgent(w)
      BY <3>7 DEF ChaseAsksAgent, Stopped
    <3> QED
      BY <2>1, <3>1, <3>3, <3>4, <3>5, <3>6, <3>7 DEF ChaseStep
  <2>2. ASSUME NEW w \in Workers, DecisionStep(w) PROVE BudgetInv'
    <3>1. CASE KeyTaken(w)
      BY <3>1 DEF KeyTaken
    <3>2. CASE Revalidate(w)
      BY <3>2 DEF Revalidate
    <3>3. CASE RecheckStopped(w)
      BY <3>3 DEF RecheckStopped
    <3>4. ASSUME NEW r \in {"rejected", "skipped"}, StoreOutcome(w, r) PROVE BudgetInv'
      BY <3>4 DEF StoreOutcome, InsertRow, Attached, CloseOrFloor, Stopped
    <3>5. CASE OutcomeConflict(w)
      BY <3>5 DEF OutcomeConflict
    <3>6. CASE Park(w)
      BY <3>6 DEF Park, InsertRow, Attached, Stopped
    <3>7. CASE Arm(w)
      <4> USE <3>7
      <4>1. PICK a \in Actions : snap' = [snap EXCEPT ![w] = Attached(@, a)]
        BY DEF Arm
      <4>2. snap'[w].used = snap[w].used + 1
        BY <4>1 DEF Attached
      <4>3. snap[w].used <= used /\ key[w] \in Keys /\ key[w] <= snap[w].used
        BY DEF Arm
      <4>4. pc' = [pc EXCEPT ![w] = "armed"] /\ key' = key /\ via' = via
            /\ used' = used /\ result' = result /\ pc[w] = "refreshed"
        BY DEF Arm
      <4>5. WorkerInv(w)'
        BY <4>2, <4>3, <4>4
      <4>6. ASSUME NEW v \in Workers, v # w PROVE WorkerInv(v)'
        <5>1. snap'[v] = snap[v] /\ pc'[v] = pc[v]
          BY <4>1, <4>4, <4>6
        <5> QED
          BY <4>4, <5>1
      <4> QED
        BY <4>4, <4>5, <4>6
    <3> QED
      BY <2>2, <3>1, <3>2, <3>3, <3>4, <3>5, <3>6, <3>7 DEF DecisionStep
  <2>3. ASSUME NEW w \in Workers, FireStep(w) PROVE BudgetInv'
    <3>1. ASSUME NEW n \in Keys, FireClaim(w, n) PROVE BudgetInv'
      BY <3>1 DEF FireClaim
    <3>2. CASE FireCancelled(w)
      BY <3>2 DEF FireCancelled, MarkRow
    <3>3. CASE FireRejected(w)
      BY <3>3 DEF FireRejected, MarkRow, CloseOrFloor
    <3>4. CASE FirePassed(w)
      BY <3>4 DEF FirePassed
    <3> QED
      BY <2>3, <3>1, <3>2, <3>3, <3>4 DEF FireStep
  <2>4. ASSUME NEW w \in Workers, ExecuteStep(w) PROVE BudgetInv'
    <3>1. CASE WriteAheadNew(w)
      BY <3>1 DEF WriteAheadNew, InsertRow, Release
    <3>2. CASE WriteAheadConflict(w)
      BY <3>2 DEF WriteAheadConflict, Release
    <3>3. CASE WriteAheadFired(w)
      BY <3>3 DEF WriteAheadFired, Release
    <3>4. CASE CallGateway(w)
      BY <3>4 DEF CallGateway
    <3>5. CASE Record(w)
      BY <3>5 DEF Record, MarkRow
    <3> QED
      BY <2>4, <3>1, <3>2, <3>3, <3>4, <3>5 DEF ExecuteStep
  <2>5. ASSUME NEW w \in Workers, SweepStep(w) PROVE BudgetInv'
    <3>1. ASSUME NEW n \in Keys, Repark(w, n) PROVE BudgetInv'
      BY <3>1 DEF Repark, Stale
    <3>2. ASSUME NEW n \in Keys, FailClosed(w, n) PROVE BudgetInv'
      BY <3>2 DEF FailClosed, Stale
    <3>3. CASE TickStart(w)
      BY <3>3 DEF TickStart
    <3>4. CASE FireSweepDone(w)
      BY <3>4 DEF FireSweepDone
    <3>5. CASE StaleSweepDone(w)
      BY <3>5 DEF StaleSweepDone
    <3>6. CASE ChaseSweepDone(w)
      BY <3>6 DEF ChaseSweepDone
    <3> QED
      BY <2>5, <3>1, <3>2, <3>3, <3>4, <3>5, <3>6 DEF SweepStep
  <2>6. ASSUME NEW w \in Workers, Crash(w) PROVE BudgetInv'
    BY <2>6 DEF Crash, Release
  <2>7. CASE Clock
    BY <2>7 DEF Clock, CaseComesDue, WindowCloses, Ripen, AgeRow
  <2>8. ASSUME NEW full \in BOOLEAN, Capture(full) PROVE BudgetInv'
    BY <2>8 DEF Capture
  <2>9. CASE OptOut
    BY <2>9 DEF OptOut
  <2>10. CASE UNCHANGED vars
    BY <2>10 DEF vars
  <2>11. ASSUME NEW w \in Workers, EventLoad(w) PROVE BudgetInv'
    BY <2>11 DEF EventLoad
  <2> HIDE DEF TypeOK, BudgetInv
  <2> QED
    BY <2>1, <2>2, <2>3, <2>4, <2>5, <2>6, <2>7, <2>8, <2>9, <2>10, <2>11
    DEF Next, WorkerStep
<1> QED
  BY <1>1, <1>2, TypeCorrect, PTL DEF Spec

\* The attempt rows are exactly the first attempts_used keys: the UNIQUE key and
\* the commit that writes row and unit together keep budget and log in step.
THEOREM BudgetExact == Spec => []RowsMatchBudget
  BY BudgetKept, PTL DEF BudgetInv

-----------------------------------------------------------------------------
\* A worker that fires a parked retry holds the ledger lock from the consent
\* check to the write-ahead; a parked retry has a ledger row to lock.
ConsentInv ==
  /\ \A n \in Keys :
       /\ phase[n] # "none" => result[n] # "none"
       /\ result[n] = "scheduled" => hasLedger
       /\ phase[n] = "claimed" => hasLedger
  /\ \A w \in Workers :
       /\ pc[w] = "claimed" => hasLedger
       /\ pc[w] \in {"loaded", "deciding", "refreshed"} => via[w] = "chase"
       /\ pc[w] \in {"claimed", "armed"} /\ via[w] = "fire" => key[w] \in Rows
       /\ pc[w] = "armed" /\ via[w] = "fire" =>
            lock = w /\ hasLedger /\ ~optedOut

\* One step of ParkedRetryHonoursOptOut.
ConsentStep ==
  \A n \in Keys :
    phase[n] = "claimed" /\ phase'[n] = "write_ahead" => ~optedOut

\* No parked retry passes its write-ahead after an opt-out has committed: the
\* opt-out waits for the lock the fire sweep holds from its check on.
THEOREM ParkedConsent == Spec => ParkedRetryHonoursOptOut
<1> USE DEF ConsentInv, ConsentStep, LedgerFree, Rows
<1>1. Init => ConsentInv
  BY DEF Init
<1>2. TypeOK /\ ConsentInv /\ [Next]_vars => ConsentInv' /\ ConsentStep
  <2> SUFFICES ASSUME TypeOK, ConsentInv, [Next]_vars PROVE ConsentInv' /\ ConsentStep
    OBVIOUS
  <2> USE DEF TypeOK, RowTypeOK, CustomerTypeOK, WorkerTypeOK, caseVars,
          rowVars, custVars, workVars, Goto, Finish, Forget, Fresh, Home
  <2>1. ASSUME NEW w \in Workers, ChaseStep(w) PROVE ConsentInv' /\ ConsentStep
    <3>1. CASE ChaseLoad(w)
      BY <3>1 DEF ChaseLoad
    <3>3. CASE DeferToPending(w)
      BY <3>3 DEF DeferToPending
    <3>4. CASE ChaseStopped(w)
      BY <3>4 DEF ChaseStopped
    <3>5. CASE ChaseExpires(w)
      BY <3>5 DEF ChaseExpires
    <3>6. CASE ChaseDeferred(w)
      BY <3>6 DEF ChaseDeferred
    <3>7. CASE ChaseAsksAgent(w)
      BY <3>7 DEF ChaseAsksAgent, Stopped
    <3> QED
      BY <2>1, <3>1, <3>3, <3>4, <3>5, <3>6, <3>7 DEF ChaseStep
  <2>2. ASSUME NEW w \in Workers, DecisionStep(w) PROVE ConsentInv' /\ ConsentStep
    <3>1. CASE KeyTaken(w)
      BY <3>1 DEF KeyTaken
    <3>2. CASE Revalidate(w)
      BY <3>2 DEF Revalidate
    <3>3. CASE RecheckStopped(w)
      BY <3>3 DEF RecheckStopped
    <3>4. ASSUME NEW r \in {"rejected", "skipped"}, StoreOutcome(w, r)
          PROVE ConsentInv' /\ ConsentStep
      BY <3>4 DEF StoreOutcome, InsertRow, Attached, CloseOrFloor, Stopped
    <3>5. CASE OutcomeConflict(w)
      BY <3>5 DEF OutcomeConflict
    <3>6. CASE Park(w)
      BY <3>6 DEF Park, InsertRow, Attached, Stopped
    <3>7. CASE Arm(w)
      BY <3>7 DEF Arm
    <3> QED
      BY <2>2, <3>1, <3>2, <3>3, <3>4, <3>5, <3>6, <3>7 DEF DecisionStep
  <2>3. ASSUME NEW w \in Workers, FireStep(w) PROVE ConsentInv' /\ ConsentStep
    <3>1. ASSUME NEW n \in Keys, FireClaim(w, n) PROVE ConsentInv' /\ ConsentStep
      <4> USE <3>1 DEF FireClaim
      <4>1. result[n] = "scheduled" /\ hasLedger
        OBVIOUS
      <4>2. \A m \in Keys :
              /\ phase'[m] # "none" => result'[m] # "none"
              /\ result'[m] = "scheduled" => hasLedger'
              /\ phase'[m] = "claimed" => hasLedger'
        BY <4>1
      <4>3. ASSUME NEW v \in Workers
            PROVE
              /\ pc'[v] = "claimed" => hasLedger'
              /\ pc'[v] \in {"loaded", "deciding", "refreshed"} =>
                   via'[v] = "chase"
              /\ pc'[v] \in {"claimed", "armed"} /\ via'[v] = "fire" =>
                   key'[v] \in Rows'
              /\ pc'[v] = "armed" /\ via'[v] = "fire" =>
                   lock' = v /\ hasLedger' /\ ~optedOut'
        BY <4>1
      <4>4. ConsentStep
        OBVIOUS
      <4> QED
        BY <4>2, <4>3, <4>4
    <3>2. CASE FireCancelled(w)
      BY <3>2 DEF FireCancelled, MarkRow
    <3>3. CASE FireRejected(w)
      BY <3>3 DEF FireRejected, MarkRow, CloseOrFloor
    <3>4. CASE FirePassed(w)
      BY <3>4 DEF FirePassed
    <3> QED
      BY <2>3, <3>1, <3>2, <3>3, <3>4 DEF FireStep
  <2>4. ASSUME NEW w \in Workers, ExecuteStep(w) PROVE ConsentInv' /\ ConsentStep
    <3>1. CASE WriteAheadNew(w)
      <4> USE <3>1 DEF WriteAheadNew, InsertRow, Release
      <4>1. result[key[w]] = "none" \/ key[w] \notin Keys
        OBVIOUS
      <4>2. \A m \in Keys :
              /\ phase'[m] # "none" => result'[m] # "none"
              /\ result'[m] = "scheduled" => hasLedger'
              /\ phase'[m] = "claimed" => hasLedger'
        OBVIOUS
      <4>3. ASSUME NEW v \in Workers
            PROVE
              /\ pc'[v] = "claimed" => hasLedger'
              /\ pc'[v] \in {"loaded", "deciding", "refreshed"} =>
                   via'[v] = "chase"
              /\ pc'[v] \in {"claimed", "armed"} /\ via'[v] = "fire" =>
                   key'[v] \in Rows'
              /\ pc'[v] = "armed" /\ via'[v] = "fire" =>
                   lock' = v /\ hasLedger' /\ ~optedOut'
        OBVIOUS
      <4>4. ASSUME NEW m \in Keys, phase[m] = "claimed", phase'[m] = "write_ahead"
            PROVE  FALSE
        <5>1. CASE m = key[w]
          BY <4>1, <4>4, <5>1
        <5>2. CASE m # key[w]
          BY <4>4, <5>2
        <5> QED
          BY <5>1, <5>2
      <4> QED
        BY <4>2, <4>3, <4>4
    <3>2. CASE WriteAheadConflict(w)
      BY <3>2 DEF WriteAheadConflict, Release
    <3>3. CASE WriteAheadFired(w)
      BY <3>3 DEF WriteAheadFired, Release
    <3>4. CASE CallGateway(w)
      BY <3>4 DEF CallGateway
    <3>5. CASE Record(w)
      BY <3>5 DEF Record, MarkRow
    <3> QED
      BY <2>4, <3>1, <3>2, <3>3, <3>4, <3>5 DEF ExecuteStep
  <2>5. ASSUME NEW w \in Workers, SweepStep(w) PROVE ConsentInv' /\ ConsentStep
    <3>1. ASSUME NEW n \in Keys, Repark(w, n) PROVE ConsentInv' /\ ConsentStep
      BY <3>1 DEF Repark, Stale
    <3>2. ASSUME NEW n \in Keys, FailClosed(w, n) PROVE ConsentInv' /\ ConsentStep
      BY <3>2 DEF FailClosed, Stale
    <3>3. CASE TickStart(w)
      BY <3>3 DEF TickStart
    <3>4. CASE FireSweepDone(w)
      BY <3>4 DEF FireSweepDone
    <3>5. CASE StaleSweepDone(w)
      BY <3>5 DEF StaleSweepDone
    <3>6. CASE ChaseSweepDone(w)
      BY <3>6 DEF ChaseSweepDone
    <3> QED
      BY <2>5, <3>1, <3>2, <3>3, <3>4, <3>5, <3>6 DEF SweepStep
  <2>6. ASSUME NEW w \in Workers, Crash(w) PROVE ConsentInv' /\ ConsentStep
    BY <2>6 DEF Crash, Release
  <2>7. CASE Clock
    BY <2>7 DEF Clock, CaseComesDue, WindowCloses, Ripen, AgeRow
  <2>8. ASSUME NEW full \in BOOLEAN, Capture(full) PROVE ConsentInv' /\ ConsentStep
    BY <2>8 DEF Capture
  <2>9. CASE OptOut
    BY <2>9 DEF OptOut
  <2>10. CASE UNCHANGED vars
    BY <2>10 DEF vars
  <2>11. ASSUME NEW w \in Workers, EventLoad(w) PROVE ConsentInv' /\ ConsentStep
    BY <2>11 DEF EventLoad
  <2> QED
    BY <2>1, <2>2, <2>3, <2>4, <2>5, <2>6, <2>7, <2>8, <2>9, <2>10, <2>11
    DEF Next, WorkerStep
<1> QED
  BY <1>1, <1>2, TypeCorrect, PTL DEF Spec, ParkedRetryHonoursOptOut, ConsentStep
-----------------------------------------------------------------------------
(* What is over stays over                                                  *)

\* One step of SettledRowsStaySettled and of NeverReopens.
SettledStep == \A n \in Keys : result[n] \in Settled => result'[n] \in Settled
ClosedStep == cState \in Terminal => cState' \in Terminal

\* A row with an outcome keeps one and a closed case stays closed, whatever the
\* number of sweepers and however old the copies they write from.
THEOREM OutcomesStay == Spec => SettledRowsStaySettled /\ NeverReopens
<1>1. TypeOK /\ [Next]_vars => SettledStep /\ ClosedStep
  <2> SUFFICES ASSUME TypeOK, [Next]_vars PROVE SettledStep /\ ClosedStep
    OBVIOUS
  <2> USE DEF SettledStep, ClosedStep, TypeOK, CaseTypeOK, RowTypeOK, caseVars, rowVars, Rows,
          CloseOrFloor, MarkRow, InsertRow
  <2>1. ASSUME NEW w \in Workers, ChaseStep(w) PROVE SettledStep /\ ClosedStep
    BY <2>1 DEF ChaseStep, ChaseLoad, DeferToPending, ChaseStopped, ChaseExpires, ChaseDeferred,
       ChaseAsksAgent
  <2>2. ASSUME NEW w \in Workers, DecisionStep(w) PROVE SettledStep /\ ClosedStep
    BY <2>2 DEF DecisionStep, KeyTaken, Revalidate, RecheckStopped, StoreOutcome, OutcomeConflict,
       Park, Arm
  <2>3. ASSUME NEW w \in Workers, FireStep(w) PROVE SettledStep /\ ClosedStep
    BY <2>3 DEF FireStep, FireClaim, FireCancelled, FireRejected, FirePassed
  <2>4. ASSUME NEW w \in Workers, ExecuteStep(w) PROVE SettledStep /\ ClosedStep
    BY <2>4 DEF ExecuteStep, WriteAheadNew, WriteAheadConflict, WriteAheadFired, CallGateway, Record
  <2>5. ASSUME NEW w \in Workers, SweepStep(w) PROVE SettledStep /\ ClosedStep
    BY <2>5 DEF SweepStep, Repark, FailClosed, Stale, TickStart, FireSweepDone, StaleSweepDone,
       ChaseSweepDone
  <2>6. ASSUME NEW w \in Workers, EventLoad(w) \/ Crash(w) PROVE SettledStep /\ ClosedStep
    BY <2>6 DEF EventLoad, Crash
  <2>7. ASSUME NEW full \in BOOLEAN, Capture(full) PROVE SettledStep /\ ClosedStep
    BY <2>7 DEF Capture
  <2>8. CASE Clock \/ OptOut \/ UNCHANGED vars
    BY <2>8 DEF Clock, CaseComesDue, WindowCloses, Ripen, AgeRow, OptOut, vars
  <2> QED
    BY <2>1, <2>2, <2>3, <2>4, <2>5, <2>6, <2>7, <2>8 DEF Next, WorkerStep
<1> QED
  BY <1>1, TypeCorrect, PTL
  DEF Spec, SettledRowsStaySettled, NeverReopens, SettledStep, ClosedStep

-----------------------------------------------------------------------------
(* One call per key                                                         *)

\* Only sweepers run the sweeps, and whoever fires a parked retry is one.
TicksAreSweepers ==
  \A w \in Workers :
    pc[w] \in {"fire", "stale", "chase", "claimed"} \/ via[w] = "fire" => w \in Sweepers

\* On its way to the gateway with a row it owns: claimed, or written ahead.
Engaged(w) == \/ pc[w] \in {"claimed", "calling"}
              \/ pc[w] = "armed" /\ via[w] = "fire"

\* A row the gateway was called for is not one the fire sweep or a re-park takes.
CalledIsOver ==
  \A n \in Keys : /\ calls[n] \in {0, 1}
                  /\ calls[n] = 1 => result[n] \notin {"none", "scheduled"} /\ phase[n] # "claimed"

\* Its owner has not called yet, and nobody parked the row again behind its back.
EngagedIsOwner ==
  \A w \in Workers : Engaged(w) =>
    /\ key[w] \in Keys /\ calls[key[w]] = 0 /\ result[key[w]] \notin {"none", "scheduled"}
    /\ pc[w] = "calling" => phase[key[w]] # "claimed"
OneOwner ==
  \A v, w \in Workers : Engaged(v) /\ Engaged(w) /\ v # w => key[v] # key[w]

CallInv == TicksAreSweepers /\ CalledIsOver /\ EngagedIsOwner /\ OneOwner

\* One scheduler runs the loop.  With two, the stale sweep of one parks again what
\* the other has claimed, and both fire it.
LoneSweeper == \A s, t \in Sweepers : s = t

LEMMA CallInvInductive ==
  ASSUME LoneSweeper, TypeOK, BudgetInv, CallInv, [Next]_vars PROVE CallInv'
<1> USE DEF CallInv, TicksAreSweepers, CalledIsOver, EngagedIsOwner, OneOwner, Engaged, TypeOK,
        RowTypeOK, WorkerTypeOK, rowVars, workVars, Goto, Finish, Forget, Home, Rows
<1>1. ASSUME NEW w \in Workers, ChaseStep(w) PROVE CallInv'
  <2>1. CASE ChaseLoad(w)
    BY <2>1 DEF ChaseLoad
  <2>2. CASE DeferToPending(w)
    BY <2>2 DEF DeferToPending
  <2>3. CASE ChaseStopped(w)
    BY <2>3 DEF ChaseStopped
  <2>4. CASE ChaseExpires(w)
    BY <2>4 DEF ChaseExpires
  <2>5. CASE ChaseDeferred(w)
    BY <2>5 DEF ChaseDeferred
  <2>6. CASE ChaseAsksAgent(w)
    BY <2>6 DEF ChaseAsksAgent
  <2> QED
    BY <1>1, <2>1, <2>2, <2>3, <2>4, <2>5, <2>6 DEF ChaseStep
<1>2. ASSUME NEW w \in Workers, DecisionStep(w) PROVE CallInv'
  <2>1. CASE KeyTaken(w)
    BY <2>1 DEF KeyTaken
  <2>2. CASE Revalidate(w)
    BY <2>2 DEF Revalidate
  <2>3. CASE RecheckStopped(w)
    BY <2>3 DEF RecheckStopped
  <2>4. ASSUME NEW r \in {"rejected", "skipped"}, StoreOutcome(w, r) PROVE CallInv'
    BY <2>4 DEF StoreOutcome, InsertRow
  <2>5. CASE OutcomeConflict(w)
    BY <2>5 DEF OutcomeConflict
  <2>6. CASE Park(w)
    BY <2>6 DEF Park, InsertRow
  <2>7. CASE Arm(w)
    BY <2>7 DEF Arm, BudgetInv, WorkerInv
  <2> QED
    BY <1>2, <2>1, <2>2, <2>3, <2>4, <2>5, <2>6, <2>7 DEF DecisionStep
<1>3. ASSUME NEW w \in Workers, FireStep(w) PROVE CallInv'
  <2>1. ASSUME NEW n \in Keys, FireClaim(w, n) PROVE CallInv'
    BY <2>1 DEF FireClaim
  <2>2. CASE FireCancelled(w)
    BY <2>2 DEF FireCancelled, MarkRow
  <2>3. CASE FireRejected(w)
    BY <2>3 DEF FireRejected, MarkRow
  <2>4. CASE FirePassed(w)
    BY <2>4 DEF FirePassed
  <2> QED
    BY <1>3, <2>1, <2>2, <2>3, <2>4 DEF FireStep
<1>4. ASSUME NEW w \in Workers, ExecuteStep(w) PROVE CallInv'
  <2>1. CASE WriteAheadNew(w)
    BY <2>1 DEF WriteAheadNew, InsertRow, BudgetInv, WorkerInv
  <2>2. CASE WriteAheadConflict(w)
    BY <2>2 DEF WriteAheadConflict
  <2>3. CASE WriteAheadFired(w)
    BY <2>3 DEF WriteAheadFired
  <2>4. CASE CallGateway(w)
    BY <2>4 DEF CallGateway
  <2>5. CASE Record(w)
    BY <2>5 DEF Record, MarkRow
  <2> QED
    BY <1>4, <2>1, <2>2, <2>3, <2>4, <2>5 DEF ExecuteStep
<1>5. ASSUME NEW w \in Workers, SweepStep(w) PROVE CallInv'
  <2>0. pc[w] = "stale" => \A v \in Workers : pc[v] = "claimed" \/ via[v] = "fire" => v = w
    BY DEF LoneSweeper
  <2>1. ASSUME NEW n \in Keys, Repark(w, n) PROVE CallInv'
    BY <2>0, <2>1 DEF Repark, Stale
  <2>2. ASSUME NEW n \in Keys, FailClosed(w, n) PROVE CallInv'
    BY <2>2 DEF FailClosed, Stale
  <2>3. CASE TickStart(w)
    BY <2>3 DEF TickStart
  <2>4. CASE FireSweepDone(w)
    BY <2>4 DEF FireSweepDone
  <2>5. CASE StaleSweepDone(w)
    BY <2>5 DEF StaleSweepDone
  <2>6. CASE ChaseSweepDone(w)
    BY <2>6 DEF ChaseSweepDone
  <2> QED
    BY <1>5, <2>1, <2>2, <2>3, <2>4, <2>5, <2>6 DEF SweepStep
<1>6. ASSUME NEW w \in Workers, Crash(w) PROVE CallInv'
  BY <1>6 DEF Crash
<1>7. ASSUME NEW w \in Workers, EventLoad(w) PROVE CallInv'
  BY <1>7 DEF EventLoad
<1>8. ASSUME NEW full \in BOOLEAN, Capture(full) PROVE CallInv'
  BY <1>8 DEF Capture
<1>9. CASE Clock \/ OptOut \/ UNCHANGED vars
  BY <1>9 DEF Clock, CaseComesDue, WindowCloses, Ripen, AgeRow, OptOut, vars
<1> QED
  BY <1>1, <1>2, <1>3, <1>4, <1>5, <1>6, <1>7, <1>8, <1>9 DEF Next, WorkerStep

LEMMA CallsKept == ASSUME LoneSweeper PROVE Spec => []CallInv
<1>1. Init => CallInv
  BY DEF Init, CallInv, TicksAreSweepers, CalledIsOver, EngagedIsOwner, OneOwner, Engaged
<1> QED
  BY <1>1, CallInvInductive, TypeCorrect, BudgetKept, PTL DEF Spec

\* With one scheduler, a key reaches the gateway at most once: the UNIQUE key, the
\* claim and the write-ahead taken together, whatever dies in between.
THEOREM OneCallPerKey == ASSUME LoneSweeper PROVE Spec => []AtMostOneCallPerKey
<1>1. CallInv => AtMostOneCallPerKey
  BY DEF CallInv, CalledIsOver, AtMostOneCallPerKey
<1> QED
  BY <1>1, CallsKept, PTL

\* With one scheduler, nothing that is over comes back: no row whose key was sent,
\* no row with an outcome, no closed case.
THEOREM OverIsOver == ASSUME LoneSweeper PROVE Spec => NothingComesBack
<1>1. CallInv => CalledRowsNeverRefire
  BY DEF CallInv, CalledIsOver, CalledRowsNeverRefire
<1> QED
  BY <1>1, CallsKept, OutcomesStay, PTL DEF NothingComesBack
=============================================================================
