------------------------ MODULE PromiseLedgerProofs ------------------------
(****************************************************************************)
(* Proofs about PromiseLedger for any number of schedulers, promises,       *)
(* surfaces and crashes: its types, the refinement of DebitContract (the    *)
(* bank is asked once, with consent, not before the date), and the two      *)
(* promises to the customer that are safety properties; and about           *)
(* Commitments, where a plan dates several promises at once and disputes    *)
(* and payments outside the gateway move the same case: its types, the      *)
(* plan's verdict, and the promises to the customer once more.              *)
(****************************************************************************)
EXTENDS Commitments, FiniteSetTheorems, TLAPS

USE DEF promiseVars, caseVars, promiseRows, attemptRows, bankVars, workVars, sessionVars

-----------------------------------------------------------------------------
(* Facts about the constants and the helpers                                *)

LEMMA Constants ==
  /\ MaxRows \in Nat /\ MaxAttempts \in Nat /\ LastDue \in Nat /\ MaxClock \in Nat
  /\ MaxCrashes \in Nat /\ Horizon \in Nat /\ Grace \in Nat /\ Lead \in Nat
  /\ Backoff \in Nat /\ Backoff > 0 /\ ReChase \in Nat
  BY PromiseAssumption

\* The delay a chase or a reminder buys is a delay.
LEMMA RungAhead ==
  ASSUME EnvironmentTypeOK, NEW copy, copy.level \in Nat
  PROVE  Rung(copy) \in Nat /\ Rung(copy) > clock
<1>1. Backoff * (copy.level + 1) \in Nat /\ Backoff * (copy.level + 1) > 0
  <2>1. \A n \in Nat : Backoff * (n + 1) = Backoff * n + Backoff /\ Backoff * n >= 0
    BY Constants
  <2> QED
    BY <2>1, Constants
<1> QED
  BY <1>1, Constants DEF Rung, EnvironmentTypeOK

LEMMA PromisesArePositive == Promises \subseteq Nat /\ 0 \notin Promises
  BY Constants DEF Promises

LEMMA NoJobFits == NoJob \in Jobs
  BY Constants DEF NoJob, Jobs, CaseStates

LEMMA NoChaseFits == NoChase \in Chase /\ NoChase.at = "off"
  BY Constants DEF NoChase, Chase

LEMMA NoRequestFits ==
  NoRequest \in [due: Never .. LastDue, next: {Never} \cup Nat, chased: BOOLEAN]
  BY Constants DEF NoRequest, Never

LEMMA CopyFits ==
  ASSUME CaseTypeOK, NEW p \in Promises PROVE CopyFor(p) \in Jobs /\ CopyFor(p).on = p
  BY Constants DEF CaseTypeOK, CopyFor, Jobs, Promises

LEMMA OnItsPage ==
  ASSUME WorkTypeOK, NEW s \in Schedulers, job[s].on \in page[s]
  PROVE  job[s].on \in Promises
  BY DEF WorkTypeOK

LEMMA WorkTyped ==
  ASSUME WorkTypeOK, NEW s \in Schedulers, NEW place \in Places
  PROVE  /\ NextOf(s, place) => WorkTypeOK'
         /\ Stay(s, place) => WorkTypeOK'
         /\ \A rows \in SUBSET Promises : Load(s, rows, place) => WorkTypeOK'
  BY NoJobFits DEF WorkTypeOK, NextOf, Stay, Load, Goto

LEMMA CaseKept == CaseTypeOK /\ UNCHANGED caseVars => CaseTypeOK'
  BY DEF CaseTypeOK
LEMMA RowsKept == PromiseRowsTypeOK /\ UNCHANGED promiseRows => PromiseRowsTypeOK'
  BY DEF PromiseRowsTypeOK
LEMMA AttemptsKept == AttemptRowsTypeOK /\ UNCHANGED attemptRows => AttemptRowsTypeOK'
  BY DEF AttemptRowsTypeOK
LEMMA BankKept == BankTypeOK /\ UNCHANGED bankVars => BankTypeOK'
  BY DEF BankTypeOK
LEMMA WorkKept == WorkTypeOK /\ UNCHANGED workVars => WorkTypeOK'
  BY DEF WorkTypeOK
LEMMA EnvironmentKept ==
  EnvironmentTypeOK /\ UNCHANGED <<up, clock, crashes>> => EnvironmentTypeOK'
  BY DEF EnvironmentTypeOK

-----------------------------------------------------------------------------
(* Types                                                                    *)

\* Where a scheduler has a promise of its page in hand.
InHand == {"claimDebit", "order", "present", "book", "claimNotice", "send", "sent"}

\* What every session may rely on: a promise in hand is of the page, a chase that holds a
\* fresh copy of the case has a slot left in it, and a request still lies ahead.
HandOnPage == \A s \in Schedulers : pc[s] \in InHand => job[s].on \in page[s]
SlotLeft == \A c \in Chasers : chase[c].at = "fresh" => chase[c].used < MaxAttempts
RequestsAhead ==
  \A f \in Surfaces : asking[f] # NoRequest =>
    asking[f].due > clock /\ asking[f].next \in Nat

TypeInv == PromiseTypeOK /\ HandOnPage /\ SlotLeft /\ RequestsAhead

LEMMA SessionsKept ==
  SessionTypeOK /\ SlotLeft /\ UNCHANGED sessionVars => SessionTypeOK' /\ SlotLeft'
  BY DEF SessionTypeOK, SlotLeft

LEMMA TypeInvStarts == PromiseInit => TypeInv
<1> USE DEF PromiseTypeOK, TypeInv
<1> SUFFICES ASSUME PromiseInit PROVE TypeInv
  OBVIOUS
<1> USE Constants DEF PromiseInit
<1>1. CaseTypeOK /\ BankTypeOK
  BY DEF CaseTypeOK, CaseStates, BankTypeOK
<1>2. PromiseRowsTypeOK /\ AttemptRowsTypeOK
  BY DEF PromiseRowsTypeOK, AttemptRowsTypeOK, Statuses, Mandates, RowStates, Never
<1>3. WorkTypeOK
  BY NoJobFits DEF WorkTypeOK, Places
<1>4. EnvironmentTypeOK /\ SessionTypeOK /\ SlotLeft
  <2>1. NoRequest \in [due: Never .. LastDue, next: {Never} \cup Nat, chased: BOOLEAN]
    BY NoRequestFits
  <2>2. SessionTypeOK
    BY <2>1, NoChaseFits DEF SessionTypeOK
  <2> QED
    BY <2>2, NoChaseFits DEF EnvironmentTypeOK, SlotLeft
<1>5. HandOnPage /\ RequestsAhead
  BY DEF HandOnPage, RequestsAhead, InHand
<1> QED
  BY <1>1, <1>2, <1>3, <1>4, <1>5

\* What a chase leaves alone, and that it can only close the case.
LEMMA ChaseBounds ==
  ASSUME NEW c \in Chasers, ChaseLoads(c) \/ ChaseAsks(c) \/ ChaseStep(c)
  PROVE  UNCHANGED RestOfLedger /\ cState' \in {cState, "expired", "exhausted"}
  BY DEF ChaseStep, ChaseLoads, ChaseExpires, ChaseDefers, ChaseAsks, ChaseRefreshes,
     ChaseWritesAhead, ChaseRefused, ChaseParks, ChaseEnds, ChaseGivesUp, Verdict

\* A chase that goes on is in hand.
LEMMA ChaseIsInHand ==
  ASSUME NEW c \in Chasers, ChaseAsks(c) \/ ChaseStep(c)
  PROVE  ChasesInHand # {}
<1>1. chase[c].at # "off" \/ c \in ChasesInHand
  BY DEF ChaseStep, ChaseExpires, ChaseDefers, ChaseAsks, ChaseRefreshes, ChaseWritesAhead,
     ChaseRefused, ChaseParks, ChaseEnds, ChaseGivesUp, ChaseIs
<1> QED
  BY <1>1, NoChaseFits DEF ChasesInHand

LEMMA ChaseTyped ==
  ASSUME TypeInv, NEW c \in Chasers, ChaseLoads(c) \/ ChaseAsks(c) \/ ChaseStep(c)
  PROVE  TypeInv'
<1> USE DEF PromiseTypeOK, TypeInv, ChaseStep, ChaseLoads, ChaseExpires, ChaseDefers, ChaseAsks,
        ChaseRefreshes, ChaseWritesAhead, ChaseRefused, ChaseParks, ChaseEnds, ChaseGivesUp
<1>1. UNCHANGED RestOfLedger /\ cState' \in {cState, "expired", "exhausted"}
  BY ChaseBounds
<1>2. PromiseRowsTypeOK' /\ BankTypeOK' /\ WorkTypeOK' /\ EnvironmentTypeOK'
  BY <1>1, RowsKept, BankKept, WorkKept, EnvironmentKept DEF RestOfLedger
<1>3. HandOnPage' /\ RequestsAhead'
  BY <1>1 DEF RestOfLedger, HandOnPage, RequestsAhead
<1>4. AttemptRowsTypeOK'
  <2>1. lastNudge' \in {lastNudge, clock} /\ UNCHANGED <<notice, debit>>
    BY <1>1 DEF RestOfLedger
  <2> QED
    BY <2>1, Constants DEF AttemptRowsTypeOK, EnvironmentTypeOK, Never
<1>5. chase[c].used \in Nat /\ chase[c].level \in Nat
  BY Constants DEF SessionTypeOK, Chase
<1>6. CaseTypeOK'
  <2> USE DEF CaseTypeOK, CaseStates, EnvironmentTypeOK
  <2>1. UNCHANGED booked
    BY <1>1 DEF RestOfLedger
  <2>3. /\ used' = used \/ (used' = chase[c].used + 1 /\ chase[c].at = "fresh")
        /\ level' = level \/ level' = chase[c].level + 1
    BY DEF Attach, ChaseIs
  <2>4. used' \in 0 .. MaxAttempts /\ level' \in Nat
    BY <1>5, <2>3, Constants DEF SlotLeft
  <2>5. nextAt' = nextAt \/ nextAt' \in PutOff \/ nextAt' = clock + ReChase
          \/ nextAt' = Rung(chase[c])
    BY DEF TailFloor
  <2>6. nextAt' \in Nat
    BY <1>5, <2>5, RungAhead, Constants DEF PutOff
  <2> QED
    BY <1>1, <2>1, <2>4, <2>6
<1>7. SessionTypeOK' /\ SlotLeft'
  <2> USE DEF SessionTypeOK, SlotLeft, ChaseTo, ChaseOver
  <2>1. UNCHANGED <<asking, overtaken>>
    BY <1>1 DEF RestOfLedger
  <2>2. CASE ChaseOver(c)
    BY <2>1, <2>2, NoChaseFits
  <2>3. CASE ChaseTo(c, "due") \/ ChaseTo(c, "agent")
    BY <2>1, <2>3 DEF Chase
  <2>4. CASE ChaseRefreshes(c)
    <3>1. used \in 0 .. MaxAttempts /\ used < MaxAttempts /\ level \in Nat
      <4>1. CopyFor(0).used = used
        BY DEF CopyFor
      <4>2. ~(CopyFor(0).used >= MaxAttempts)
        BY <2>4 DEF StoppedFor
      <4> QED
        BY <4>1, <4>2, Constants DEF CaseTypeOK
    <3>2. [at |-> "fresh", used |-> used, level |-> level, nudge |-> FALSE] \in Chase
      BY <3>1 DEF Chase
    <3> QED
      BY <2>1, <2>4, <3>1, <3>2
  <2>5. ASSUME NEW nudge \in BOOLEAN, ChaseWritesAhead(c, nudge) PROVE SessionTypeOK' /\ SlotLeft'
    <3>1. chase[c] \in Chase
      OBVIOUS
    <3>2. [chase[c] EXCEPT !.at = "sending", !.nudge = nudge] \in Chase
      BY <3>1 DEF Chase
    <3>3. chase' = [chase EXCEPT ![c] = [chase[c] EXCEPT !.at = "sending", !.nudge = nudge]]
      BY <2>5
    <3>4. chase'[c].at = "sending"
      BY <3>1, <3>3 DEF Chase
    <3> QED
      BY <2>1, <3>2, <3>3, <3>4
  <2> QED
    BY <2>2, <2>3, <2>4, <2>5
<1> QED
  BY <1>2, <1>3, <1>4, <1>6, <1>7

LEMMA TypeInvInductive == TypeInv /\ [PromiseNext]_promiseVars => TypeInv'
<1> USE DEF PromiseTypeOK, TypeInv
<1> SUFFICES ASSUME TypeInv, [PromiseNext]_promiseVars PROVE TypeInv'
  OBVIOUS
<1>1. ASSUME NEW s \in Schedulers, SweepStep(s) PROVE TypeInv'
  <2>0. /\ UNCHANGED <<up, clock, sessionVars, crashes>>
        /\ EnvironmentTypeOK' /\ RequestsAhead' /\ SessionTypeOK' /\ SlotLeft'
    BY <1>1, EnvironmentKept, SessionsKept DEF SweepStep, RequestsAhead
  <2> USE DEF Places
  <2>1. CASE TickBegins(s)
    <3>1. HandOnPage'
      BY <2>1 DEF TickBegins, Stay, Goto, HandOnPage, WorkTypeOK, InHand
    <3> QED
      BY <2>0, <2>1, <3>1, WorkTyped, CaseKept, RowsKept, AttemptsKept, BankKept
      DEF TickBegins
  <2>2. CASE ConfirmMandates(s)
    <3>1. DueForDebit(mandate') \in SUBSET Promises
      BY DEF DueForDebit, Pending
    <3>2. PromiseRowsTypeOK'
      BY <2>2 DEF ConfirmMandates, PromiseRowsTypeOK, AwaitingConfirmation, Pending, Mandates
    <3>3. WorkTypeOK'
      BY <2>2, <3>1, WorkTyped DEF ConfirmMandates
    <3>4. HandOnPage'
      BY <2>2, NoJobFits DEF ConfirmMandates, Load, Goto, HandOnPage,
         WorkTypeOK, InHand
    <3> QED
      BY <2>0, <2>2, <3>2, <3>3, <3>4, CaseKept, AttemptsKept, BankKept DEF ConfirmMandates
  <2>3. ASSUME NEW here, NEW there \in {"claimDebit", "claimNotice"}, Take(s, here, there)
        PROVE  TypeInv'
    <3>1. PICK p \in page[s] : job' = [job EXCEPT ![s] = CopyFor(p)]
      BY <2>3 DEF Take, Soonest
    <3>2. p \in Promises /\ CopyFor(p) \in Jobs /\ CopyFor(p).on = p
      BY <3>1, CopyFits DEF WorkTypeOK
    <3>3. WorkTypeOK'
      BY <2>3, <3>1, <3>2 DEF Take, WorkTypeOK, Goto
    <3>4. HandOnPage'
      BY <2>3, <3>1, <3>2 DEF Take, Goto, HandOnPage, WorkTypeOK, CopyFor
    <3> QED
      BY <2>0, <2>3, <3>3, <3>4, CaseKept, RowsKept, AttemptsKept, BankKept DEF Take
  <2>4. CASE ClaimDebit(s)
    <3>1. job[s].on \in Promises
      BY <2>4, OnItsPage DEF ClaimDebit, HandOnPage, InHand
    <3>2. AttemptRowsTypeOK'
      BY <2>4, <3>1 DEF ClaimDebit, AttemptRowsTypeOK, RowStates
    <3>3. WorkTypeOK'
      BY <2>4, WorkTyped DEF ClaimDebit
    <3>4. HandOnPage'
      BY <2>4, NoJobFits DEF ClaimDebit, NextOf, Stay, Goto, HandOnPage,
         WorkTypeOK, InHand
    <3> QED
      BY <2>0, <2>4, <3>2, <3>3, <3>4, CaseKept, RowsKept, BankKept DEF ClaimDebit
  <2>5. CASE CreateOrder(s)
    <3>1. job[s].on \in Promises
      BY <2>5, OnItsPage DEF CreateOrder, HandOnPage, InHand
    <3>2. AttemptRowsTypeOK' /\ PromiseRowsTypeOK'
      BY <2>5, <3>1 DEF CreateOrder, AttemptRowsTypeOK, PromiseRowsTypeOK, RowStates, Mandates
    <3>3. WorkTypeOK'
      BY <2>5, WorkTyped DEF CreateOrder
    <3>4. HandOnPage'
      BY <2>5, NoJobFits DEF CreateOrder, NextOf, Stay, Goto, HandOnPage,
         WorkTypeOK, InHand
    <3> QED
      BY <2>0, <2>5, <3>2, <3>3, <3>4, CaseKept, BankKept DEF CreateOrder
  <2>6. CASE PresentDebit(s)
    <3>1. job[s].on \in Promises
      BY <2>6, OnItsPage DEF PresentDebit, HandOnPage, InHand
    <3>2. BankTypeOK'
      BY <2>6, <3>1 DEF PresentDebit, BankTypeOK
    <3>3. WorkTypeOK'
      BY <2>6 DEF PresentDebit, WorkTypeOK, Goto, Jobs
    <3>4. HandOnPage'
      BY <2>6 DEF PresentDebit, Goto, HandOnPage, WorkTypeOK, Jobs, InHand
    <3> QED
      BY <2>0, <2>6, <3>2, <3>3, <3>4, CaseKept, RowsKept, AttemptsKept DEF PresentDebit
  <2>7. CASE BookDebit(s)
    <3>1. job[s].on \in Promises
      BY <2>7, OnItsPage DEF BookDebit, HandOnPage, InHand
    <3>2. clock \in Never .. MaxClock
      BY Constants DEF EnvironmentTypeOK, Never
    <3>3. AttemptRowsTypeOK' /\ PromiseRowsTypeOK'
      BY <2>7, <3>1, <3>2 DEF BookDebit, AttemptRowsTypeOK, PromiseRowsTypeOK, RowStates, Mandates
    <3>4. WorkTypeOK'
      BY <2>7, WorkTyped DEF BookDebit
    <3>5. HandOnPage'
      BY <2>7, NoJobFits DEF BookDebit, NextOf, Goto, HandOnPage, WorkTypeOK, InHand
    <3> QED
      BY <2>0, <2>7, <3>3, <3>4, <3>5, CaseKept, BankKept DEF BookDebit
  <2>8. CASE SelectExpired(s)
    <3>1. WorkTypeOK'
      BY <2>8, WorkTyped DEF SelectExpired, Pending
    <3>2. HandOnPage'
      BY <2>8, NoJobFits DEF SelectExpired, Load, Goto, HandOnPage, WorkTypeOK, InHand
    <3> QED
      BY <2>0, <2>8, <3>1, <3>2, CaseKept, RowsKept, AttemptsKept, BankKept DEF SelectExpired
  <2>9. CASE BreakExpired(s)
    <3>1. CaseTypeOK'
      BY <2>9, Constants DEF BreakExpired, CaseTypeOK, EnvironmentTypeOK
    <3>2. PromiseRowsTypeOK'
      BY <2>9 DEF BreakExpired, PromiseRowsTypeOK, Statuses
    <3>3. WorkTypeOK'
      BY <2>9, WorkTyped DEF BreakExpired, Pending
    <3>4. HandOnPage'
      BY <2>9, NoJobFits DEF BreakExpired, Load, Goto, HandOnPage, WorkTypeOK, InHand
    <3> QED
      BY <2>0, <2>9, <3>1, <3>2, <3>3, <3>4, AttemptsKept, BankKept DEF BreakExpired
  <2>11. CASE ClaimNotice(s)
    <3>1. job[s].on \in Promises
      BY <2>11, OnItsPage DEF ClaimNotice, HandOnPage, InHand
    <3>2. AttemptRowsTypeOK' /\ PromiseRowsTypeOK'
      BY <2>11, <3>1 DEF ClaimNotice, Stamp, AttemptRowsTypeOK, PromiseRowsTypeOK, RowStates
    <3>3. CaseTypeOK'
      <4>1. job[s] \in Jobs
        BY DEF WorkTypeOK
      <4>2. ~StoppedFor(job[s]) => /\ job[s].used + 1 \in 0 .. MaxAttempts
                                   /\ job[s].level + 1 \in Nat /\ Rung(job[s]) \in Nat
        BY <4>1, Constants, RungAhead DEF StoppedFor, Jobs
      <4> QED
        BY <2>11, <4>1, <4>2 DEF ClaimNotice, CaseTypeOK
    <3>4. WorkTypeOK'
      BY <2>11, WorkTyped DEF ClaimNotice, Stamp
    <3>5. HandOnPage'
      BY <2>11, NoJobFits DEF ClaimNotice, Stamp, NextOf, Stay, Goto,
         HandOnPage, WorkTypeOK, InHand
    <3> QED
      BY <2>0, <2>11, <3>2, <3>3, <3>4, <3>5, BankKept DEF ClaimNotice
  <2>12. CASE SendNotice(s)
    <3>1. job[s].on \in Promises
      BY <2>12, OnItsPage DEF SendNotice, HandOnPage, InHand
    <3>2. AttemptRowsTypeOK'
      BY <2>12, <3>1, Constants
      DEF SendNotice, AttemptRowsTypeOK, RowStates, EnvironmentTypeOK, Never
    <3>3. WorkTypeOK'
      BY <2>12, WorkTyped DEF SendNotice
    <3>4. HandOnPage'
      BY <2>12 DEF SendNotice, Stay, Goto, HandOnPage, WorkTypeOK, InHand
    <3> QED
      BY <2>0, <2>12, <3>2, <3>3, <3>4, CaseKept, RowsKept, BankKept DEF SendNotice
  <2>13. CASE RestoreSilence(s)
    <3>1. job[s].on \in Promises
      BY <2>13, OnItsPage DEF RestoreSilence, HandOnPage, InHand
    <3>2. CaseTypeOK'
      <4>1. Rung(job[s]) \in Nat /\ due[job[s].on] \in Int
        BY <3>1, RungAhead, Constants DEF WorkTypeOK, Jobs, PromiseRowsTypeOK, Never
      <4>2. nextAt' \in Nat
        BY <2>13, <4>1 DEF RestoreSilence, Floored, CaseTypeOK
      <4> QED
        BY <2>13, <4>2 DEF RestoreSilence, CaseTypeOK
    <3>3. PromiseRowsTypeOK'
      BY <2>13, <3>1 DEF RestoreSilence, Stamp, PromiseRowsTypeOK
    <3>4. WorkTypeOK'
      BY <2>13, WorkTyped DEF RestoreSilence, Stamp
    <3>5. HandOnPage'
      BY <2>13, NoJobFits DEF RestoreSilence, Stamp, NextOf, Goto, HandOnPage,
         WorkTypeOK, InHand
    <3> QED
      BY <2>0, <2>13, <3>2, <3>3, <3>4, <3>5, AttemptsKept, BankKept DEF RestoreSilence
  <2> QED
    BY <1>1, <2>1, <2>2, <2>3, <2>4, <2>5, <2>6, <2>7, <2>8, <2>9, <2>11, <2>12, <2>13
    DEF SweepStep, TakeDebit, TakeNotice
<1>2. ASSUME NEW s \in Schedulers, SchedulerDies(s) PROVE TypeInv'
  <2>1. WorkTypeOK'
    BY <1>2, WorkTyped DEF SchedulerDies, Places
  <2>2. HandOnPage' /\ RequestsAhead'
    BY <1>2, NoJobFits DEF SchedulerDies, Load, Goto, HandOnPage, RequestsAhead,
       WorkTypeOK, InHand
  <2>3. EnvironmentTypeOK' /\ SessionTypeOK' /\ SlotLeft'
    BY <1>2, Constants, SessionsKept DEF SchedulerDies, EnvironmentTypeOK
  <2> QED
    BY <1>2, <2>1, <2>2, <2>3, CaseKept, RowsKept, AttemptsKept, BankKept DEF SchedulerDies
<1>3. ASSUME NEW s \in Schedulers, TickEnds(s) PROVE TypeInv'
  <2>1. HandOnPage' /\ RequestsAhead'
    BY <1>3 DEF TickEnds, Stay, Goto, HandOnPage, RequestsAhead, WorkTypeOK, InHand
  <2> QED
    BY <1>3, <2>1, WorkTyped, CaseKept, RowsKept, AttemptsKept, BankKept, EnvironmentKept, SessionsKept
    DEF TickEnds, Places
<1>4. ASSUME NEW f \in Surfaces, NEW d \in 0 .. LastDue, AskToPromise(f, d) PROVE TypeInv'
  <2>1. EnvironmentTypeOK' /\ SessionTypeOK' /\ SlotLeft'
    <3>1. EnvironmentTypeOK' /\ UNCHANGED <<chase, overtaken>>
      BY <1>4, EnvironmentKept DEF AskToPromise
    <3>2. [due |-> d, next |-> nextAt, chased |-> ChasesInHand # {}]
            \in [due: Never .. LastDue, next: {Never} \cup Nat, chased: BOOLEAN]
      BY Constants DEF CaseTypeOK, Never
    <3> QED
      BY <1>4, <3>1, <3>2 DEF AskToPromise, SessionTypeOK, SlotLeft
  <2>2. HandOnPage'
    BY <1>4 DEF AskToPromise, HandOnPage
  <2>3. RequestsAhead'
    BY <1>4, Constants DEF AskToPromise, Acceptable, InHorizon, RequestsAhead,
       EnvironmentTypeOK, SessionTypeOK, CaseTypeOK
  <2> QED
    BY <1>4, <2>1, <2>2, <2>3, CaseKept, RowsKept, AttemptsKept, BankKept, WorkKept
    DEF AskToPromise
<1>5. ASSUME NEW f \in Surfaces, NEW auto \in BOOLEAN, RecordPromise(f, auto) PROVE TypeInv'
  <2>1. CaseTypeOK'
    <3>1. asking[f].due \in Nat /\ asking[f].next \in Nat
      <4>1. asking[f].due \in Int /\ asking[f].due > clock /\ asking[f].next \in Nat
        BY <1>5, Constants DEF RecordPromise, RequestsAhead, SessionTypeOK, Never
      <4> QED
        BY <4>1 DEF EnvironmentTypeOK
    <3> QED
      BY <1>5, <3>1 DEF RecordPromise, CaseTypeOK
  <2>2. PromiseRowsTypeOK'
    <3>1. asking[f].due \in Never .. LastDue
      BY DEF SessionTypeOK
    <3> QED
      BY <1>5, <3>1, PromiseAssumption
      DEF RecordPromise, PromiseRowsTypeOK, Statuses, Mandates
  <2>3. EnvironmentTypeOK'
    BY <1>5, EnvironmentKept DEF RecordPromise
  <2>5. RequestsAhead' /\ SessionTypeOK' /\ SlotLeft'
    <3>1. /\ asking' = [asking EXCEPT ![f] = NoRequest] /\ UNCHANGED <<chase, clock>>
          /\ overtaken' \in BOOLEAN
      BY <1>5 DEF RecordPromise, SessionTypeOK
    <3> QED
      BY <3>1, NoRequestFits DEF SessionTypeOK, SlotLeft, RequestsAhead
  <2>4. HandOnPage'
    BY <1>5 DEF RecordPromise, HandOnPage
  <2> QED
    BY <1>5, <2>1, <2>2, <2>3, <2>4, <2>5, AttemptsKept, BankKept, WorkKept DEF RecordPromise
<1>6. ASSUME NEW p \in Promises, Authorise(p) PROVE TypeInv'
  <2>1. PromiseRowsTypeOK'
    BY <1>6 DEF Authorise, PromiseRowsTypeOK, Mandates
  <2>2. HandOnPage' /\ RequestsAhead'
    BY <1>6 DEF Authorise, HandOnPage, RequestsAhead
  <2> QED
    BY <1>6, <2>1, <2>2, CaseKept, AttemptsKept, BankKept, WorkKept, EnvironmentKept, SessionsKept
    DEF Authorise
<1>7. ASSUME NEW full \in BOOLEAN, Attributed(full), CaseTypeOK, PromiseRowsTypeOK,
             AttemptRowsTypeOK,
             UNCHANGED <<used, level, nextAt, due, channel, mandate, chargedAt, reminded, lastNudge>>
      PROVE  CaseTypeOK' /\ PromiseRowsTypeOK' /\ AttemptRowsTypeOK'
  BY <1>7 DEF Attributed, Resolved, Superseded, Pending, CaseTypeOK, CaseStates, PromiseRowsTypeOK,
     AttemptRowsTypeOK, Statuses, RowStates
<1>8. ASSUME NEW p \in Promises, DebitLands(p) PROVE TypeInv'
  <2>1. BankTypeOK'
    BY <1>8 DEF DebitLands, BankTypeOK
  <2>2. CaseTypeOK' /\ PromiseRowsTypeOK' /\ AttemptRowsTypeOK'
    BY <1>7, <1>8, CaseKept, RowsKept, AttemptsKept DEF DebitLands
  <2>3. HandOnPage' /\ RequestsAhead'
    BY <1>8 DEF DebitLands, HandOnPage, RequestsAhead
  <2> QED
    BY <1>8, <2>1, <2>2, <2>3, WorkKept, EnvironmentKept, SessionsKept DEF DebitLands
<1>9. ASSUME NEW full \in BOOLEAN, CustomerPays(full) PROVE TypeInv'
  <2>1. CaseTypeOK' /\ PromiseRowsTypeOK' /\ AttemptRowsTypeOK'
    BY <1>7, <1>9 DEF CustomerPays
  <2>2. HandOnPage' /\ RequestsAhead'
    BY <1>9 DEF CustomerPays, HandOnPage, RequestsAhead
  <2> QED
    BY <1>9, <2>1, <2>2, BankKept, WorkKept, EnvironmentKept, SessionsKept DEF CustomerPays
<1>10. CASE FailStale
  <2>1. AttemptRowsTypeOK'
    BY <1>10 DEF FailStale, AttemptRowsTypeOK, RowStates
  <2>2. HandOnPage' /\ RequestsAhead'
    BY <1>10 DEF FailStale, HandOnPage, RequestsAhead
  <2> QED
    BY <1>10, <2>1, <2>2, CaseKept, RowsKept, BankKept, WorkKept, EnvironmentKept, SessionsKept DEF FailStale
<1>11. CASE OptOut
  <2>1. CaseTypeOK' /\ PromiseRowsTypeOK'
    BY <1>11 DEF OptOut, Resolved, Pending, CaseTypeOK, CaseStates, PromiseRowsTypeOK, Statuses
  <2>2. HandOnPage' /\ RequestsAhead'
    BY <1>11 DEF OptOut, HandOnPage, RequestsAhead
  <2> QED
    BY <1>11, <2>1, <2>2, AttemptsKept, BankKept, WorkKept, EnvironmentKept, SessionsKept DEF OptOut
<1>12. CASE HalfDay
  <2>1. EnvironmentTypeOK' /\ RequestsAhead'
    BY <1>12, Constants DEF HalfDay, EnvironmentTypeOK, RequestsAhead
  <2>2. HandOnPage'
    BY <1>12 DEF HalfDay, HandOnPage
  <2> QED
    BY <1>12, <2>1, <2>2, CaseKept, RowsKept, AttemptsKept, BankKept, WorkKept, SessionsKept
    DEF HalfDay
<1>13. ASSUME NEW c \in Chasers, ChaseLoads(c) \/ ChaseAsks(c) \/ ChaseStep(c) PROVE TypeInv'
  BY <1>13, ChaseTyped
<1>14. CASE UNCHANGED promiseVars
  <2>1. HandOnPage' /\ RequestsAhead'
    BY <1>14 DEF HandOnPage, RequestsAhead
  <2> QED
    BY <1>14, <2>1, CaseKept, RowsKept, AttemptsKept, BankKept, WorkKept, EnvironmentKept, SessionsKept
<1> QED
  BY <1>1, <1>2, <1>3, <1>4, <1>5, <1>6, <1>8, <1>9, <1>10, <1>11, <1>12, <1>13, <1>14
  DEF PromiseNext, LedgerStep

LEMMA Typed == PromiseSpec => []TypeInv
  BY TypeInvStarts, TypeInvInductive, PTL DEF PromiseSpec

\* Every reachable state is well typed: no copy of the case drives its counters past
\* the budget, no surface dates a promise out of range.
THEOREM TypeCorrect == PromiseSpec => []PromiseTypeOK
  BY Typed, PTL DEF TypeInv

-----------------------------------------------------------------------------
(* The refinement of DebitContract                                          *)

\* Where a scheduler owns the debit's row it has written ahead, and where it works
\* through the page of due debits.
Holding == {"order", "present", "book"}
Debiting == Holding \cup {"charge", "claimDebit"}
NoConsent == {"none", "asked", "pending"}

\* An id without a row is untouched.
BlankRows == \A p \in Promises : status[p] = "none" => due[p] = Never /\ mandate[p] = "none"

\* The key of the debit comes after consent, and before the bank.
KeyAfterConsent == \A p \in Promises : mandate[p] \in NoConsent => debit[p] = "none"
KeyBeforeBank ==
  \A p \in Promises : /\ asked[p] \in {0, 1}
                      /\ debit[p] = "none" => asked[p] = 0 /\ p \notin taken

\* A promise on a page of due debits was consented to and is due, whatever another
\* scheduler did to it since; and who has no row yet can still be charged.
PagesAreDue ==
  \A s \in Schedulers : pc[s] \in Debiting => \A p \in page[s] :
    /\ status[p] # "none" /\ due[p] <= clock /\ mandate[p] \notin NoConsent
    /\ debit[p] = "none" => mandate[p] = "active"

\* The one session that wrote the row ahead is the only one to go to the bank.
HolderKnows ==
  \A s \in Schedulers : pc[s] \in Holding =>
    /\ debit[job[s].on] # "none"
    /\ pc[s] \in {"order", "present"} =>
         asked[job[s].on] = 0 /\ job[s].on \notin taken /\ mandate[job[s].on] = "active"
    /\ pc[s] = "book" => asked[job[s].on] = 1
OneHolder ==
  \A s, t \in Schedulers :
    pc[s] \in Holding /\ pc[t] \in Holding /\ s # t => job[s].on # job[t].on

DebitInv == /\ BlankRows /\ KeyAfterConsent /\ KeyBeforeBank
            /\ PagesAreDue /\ HolderKnows /\ OneHolder

\* The gateway's answer moves mandates that waited for it, of promises on record.
LEMMA OnlyPendingConfirmed ==
  ASSUME NEW s \in Schedulers, ConfirmMandates(s)
  PROVE  \A p \in Promises : mandate'[p] # mandate[p] => mandate[p] = "pending" /\ status[p] # "none"
<1>1. PICK answer : mandate' = [p \in Promises |-> IF p \in AwaitingConfirmation
                                                  THEN answer[p] ELSE mandate[p]]
  BY DEF ConfirmMandates
<1>2. \A p \in AwaitingConfirmation : mandate[p] = "pending" /\ status[p] # "none"
  BY DEF AwaitingConfirmation, Pending
<1>3. ASSUME NEW p \in Promises, p \notin AwaitingConfirmation PROVE mandate'[p] = mandate[p]
  BY <1>1, <1>3
<1> QED
  BY <1>2, <1>3

LEMMA DebitInvInductive == TypeInv /\ DebitInv /\ [PromiseNext]_promiseVars => DebitInv'
<1> SUFFICES ASSUME TypeInv, DebitInv, [PromiseNext]_promiseVars PROVE DebitInv'
  OBVIOUS
<1> USE DEF TypeInv, PromiseTypeOK, DebitInv, BlankRows, KeyAfterConsent, KeyBeforeBank, PagesAreDue,
        HolderKnows, OneHolder, Holding, Debiting, NoConsent, HandOnPage, InHand, WorkTypeOK,
        PromiseRowsTypeOK, AttemptRowsTypeOK, BankTypeOK, EnvironmentTypeOK, Goto
<1>1. ASSUME NEW s \in Schedulers, SweepStep(s) PROVE DebitInv'
  <2> USE <1>1 DEF SweepStep
  <2>1. CASE TickBegins(s)
    BY <2>1 DEF TickBegins, Stay
  <2>2. CASE ConfirmMandates(s)
    <3>1. \A p \in Promises : mandate'[p] # mandate[p] => mandate[p] = "pending" /\ status[p] # "none"
      BY <2>2, OnlyPendingConfirmed
    <3>2. /\ page' = [page EXCEPT ![s] = DueForDebit(mandate')]
          /\ job' = [job EXCEPT ![s] = NoJob] /\ pc' = [pc EXCEPT ![s] = "charge"]
          /\ UNCHANGED <<status, due, attemptRows, bankVars>>
      BY <2>2 DEF ConfirmMandates, Load
    <3>3. \A p \in DueForDebit(mandate') :
            mandate'[p] = "active" /\ status[p] # "none" /\ due[p] <= clock
      BY DEF DueForDebit, Pending
    <3> QED
      BY <3>1, <3>2, <3>3
  <2>3. CASE TakeDebit(s)
    BY <2>3 DEF TakeDebit, Take, Soonest, CopyFor
  <2>4. CASE ClaimDebit(s)
    <3>1. job[s].on \in page[s] /\ job[s].on \in Promises
      BY <2>4 DEF ClaimDebit
    <3>2. CASE NextOf(s, "charge") /\ (debit' = debit \/ debit' = [debit EXCEPT ![job[s].on] = "rejected"])
      BY <2>4, <3>1, <3>2 DEF ClaimDebit, NextOf
    <3>3. CASE /\ DebitKeyFree(job[s].on) /\ Stay(s, "order")
               /\ debit' = [debit EXCEPT ![job[s].on] = "write_ahead"]
      <4>1. /\ asked[job[s].on] = 0 /\ job[s].on \notin taken
            /\ mandate[job[s].on] = "active"
        BY <2>4, <3>1, <3>3 DEF ClaimDebit, DebitKeyFree
      <4>2. \A t \in Schedulers : pc[t] \in Holding => job[t].on # job[s].on
        BY <3>3 DEF DebitKeyFree
      <4> QED
        BY <2>4, <3>1, <3>3, <4>1, <4>2 DEF ClaimDebit, Stay
    <3> QED
      BY <2>4, <3>2, <3>3 DEF ClaimDebit
  <2>5. CASE CreateOrder(s)
    <3>1. CASE debit' = [debit EXCEPT ![job[s].on] = "charging"] /\ mandate' = mandate
               /\ Stay(s, "present")
      BY <2>5, <3>1 DEF CreateOrder, Stay
    <3>2. CASE debit' = [debit EXCEPT ![job[s].on] = "failed"]
               /\ mandate' = [mandate EXCEPT ![job[s].on] = "failed"] /\ NextOf(s, "charge")
      BY <2>5, <3>2 DEF CreateOrder, NextOf
    <3> QED
      BY <2>5, <3>1, <3>2 DEF CreateOrder
  <2>6. CASE PresentDebit(s)
    BY <2>6 DEF PresentDebit
  <2>7. CASE BookDebit(s)
    BY <2>7 DEF BookDebit, NextOf
  <2>8. CASE SelectExpired(s)
    BY <2>8 DEF SelectExpired, Load
  <2>9. CASE BreakExpired(s)
    BY <2>9 DEF BreakExpired, Load
  <2>10. CASE TakeNotice(s)
    BY <2>10 DEF TakeNotice, Take, Soonest, CopyFor
  <2>11. CASE ClaimNotice(s)
    <3>1. pc' \in {[pc EXCEPT ![s] = "send"], [pc EXCEPT ![s] = "remind"]}
      BY <2>11 DEF ClaimNotice, Stay, Stamp, NextOf
    <3>2. /\ UNCHANGED <<status, due, mandate, debit, bankVars>>
          /\ \A t \in Schedulers : t # s => page'[t] = page[t] /\ job'[t] = job[t]
      BY <2>11 DEF ClaimNotice, Stay, Stamp, NextOf
    <3> QED
      BY <3>1, <3>2
  <2>12. CASE SendNotice(s)
    BY <2>12 DEF SendNotice, Stay
  <2>13. CASE RestoreSilence(s)
    BY <2>13 DEF RestoreSilence, Stamp, NextOf
  <2> QED
    BY <2>1, <2>2, <2>3, <2>4, <2>5, <2>6, <2>7, <2>8, <2>9, <2>10, <2>11, <2>12, <2>13
<1>2. ASSUME NEW s \in Schedulers, SchedulerDies(s) PROVE DebitInv'
  BY <1>2 DEF SchedulerDies, Load
<1>3. ASSUME NEW s \in Schedulers, TickEnds(s) PROVE DebitInv'
  BY <1>3 DEF TickEnds, Stay
<1>4. ASSUME NEW f \in Surfaces, NEW d \in 0 .. LastDue, AskToPromise(f, d) PROVE DebitInv'
  BY <1>4 DEF AskToPromise
<1>5. ASSUME NEW f \in Surfaces, NEW auto \in BOOLEAN, RecordPromise(f, auto) PROVE DebitInv'
  BY <1>5 DEF RecordPromise, Rows
<1>6. ASSUME NEW p \in Promises, Authorise(p) PROVE DebitInv'
  BY <1>6 DEF Authorise
<1>7. ASSUME NEW p \in Promises, DebitLands(p) PROVE DebitInv'
  BY <1>7 DEF DebitLands, Attributed, Resolved, Superseded, Pending, InDoubt
<1>8. ASSUME NEW full \in BOOLEAN, CustomerPays(full) PROVE DebitInv'
  BY <1>8 DEF CustomerPays, Attributed, Resolved, Superseded, Pending, InDoubt
<1>9. CASE FailStale
  BY <1>9 DEF FailStale, InDoubt
<1>10. CASE OptOut
  BY <1>10 DEF OptOut, Resolved, Pending
<1>11. CASE HalfDay
  BY <1>11 DEF HalfDay
<1>12. ASSUME NEW c \in Chasers, ChaseLoads(c) \/ ChaseAsks(c) \/ ChaseStep(c) PROVE DebitInv'
  <2>1. UNCHANGED <<clock, status, due, mandate, debit, asked, taken, workVars>>
    BY <1>12, ChaseBounds DEF RestOfLedger
  <2> QED
    BY <2>1
<1>13. CASE UNCHANGED promiseVars
  BY <1>13
<1> HIDE DEF TypeInv, DebitInv
<1> QED
  BY <1>1, <1>2, <1>3, <1>4, <1>5, <1>6, <1>7, <1>8, <1>9, <1>10, <1>11, <1>12, <1>13 DEF PromiseNext, LedgerStep

\* What changes neither a mandate nor what the bank knows changes no stage.
LEMMA StagesKept ==
  UNCHANGED <<mandate, asked, taken>> =>
    [p \in Promises |-> Stage(p)]' = [p \in Promises |-> Stage(p)]
  BY DEF Stage

\* However the sweeps of any number of schedulers interleave and wherever they die,
\* the bank is asked to debit a promise at most once, only after the customer's
\* confirmed consent and not before the date they named.
THEOREM HonoursContract == PromiseSpec => DebitsHonourContract
<1> DEFINE stages == [p \in Promises |-> Stage(p)]
<1>1. PromiseInit => Contract!Init
  BY DEF PromiseInit, Contract!Init, Stage, Never
<1>2. TypeInv /\ DebitInv /\ DebitInv' /\ [PromiseNext]_promiseVars
        => [Contract!Next]_(Contract!vars)
  <2> SUFFICES ASSUME TypeInv, DebitInv, DebitInv', [PromiseNext]_promiseVars
               PROVE  Contract!Next \/ UNCHANGED <<clock, due, stages>>
    BY DEF Contract!vars
  <2> HIDE DEF stages
  <2>0. UNCHANGED <<mandate, asked, taken>> => UNCHANGED stages
    BY StagesKept DEF stages
  <2>1. ASSUME NEW s \in Schedulers, SweepStep(s)
        PROVE  Contract!Next \/ UNCHANGED <<clock, due, stages>>
    <3>1. UNCHANGED clock
      BY <2>1 DEF SweepStep
    <3>2. CASE ConfirmMandates(s)
      <4>1. ASSUME NEW p \in Promises
            PROVE  \/ Stage(p)' = Stage(p)
                   \/ /\ Stage(p) = "idle" /\ due[p] > clock
                      /\ Stage(p)' \in {"consented", "over"}
        <5>1. CASE p \in AwaitingConfirmation
          <6>1. mandate[p] = "pending" /\ due[p] > clock /\ asked[p] = 0 /\ p \notin taken
            BY <5>1 DEF AwaitingConfirmation, DebitInv, KeyAfterConsent, KeyBeforeBank, NoConsent
          <6>2. mandate'[p] \in {"pending", "active", "failed"} /\ UNCHANGED <<asked, taken>>
            BY <3>2, <5>1 DEF ConfirmMandates
          <6> QED
            BY <6>1, <6>2 DEF Stage
        <5>2. CASE p \notin AwaitingConfirmation
          BY <3>2, <5>2 DEF ConfirmMandates, Stage
        <5> QED
          BY <5>1, <5>2
      <4>2. \A p \in Promises : Stage(p)' \in {"idle", "consented", "over", "asked", "taken"}
        BY DEF DebitInv, KeyBeforeBank, Stage
      <4>3. UNCHANGED <<clock, due>>
        BY <3>1, <3>2 DEF ConfirmMandates
      <4> QED
        BY <4>1, <4>2, <4>3 DEF stages, Contract!Next, Contract!Verdicts
    <3>3. CASE CreateOrder(s)
      <4>0. PICK p \in Promises : p = job[s].on
        BY <3>3, OnItsPage DEF CreateOrder, TypeInv, PromiseTypeOK, HandOnPage, InHand
      <4>1. asked[p] = 0 /\ p \notin taken /\ mandate[p] = "active"
        BY <3>3, <4>0
        DEF CreateOrder, TypeInv, PromiseTypeOK, HandOnPage, InHand, DebitInv, HolderKnows, Holding
      <4>2. UNCHANGED <<due, asked, taken>>
        BY <3>3 DEF CreateOrder
      <4>3. mandate' = mandate \/ mandate' = [mandate EXCEPT ![p] = "failed"]
        BY <3>3, <4>0 DEF CreateOrder
      <4>4. CASE mandate' = [mandate EXCEPT ![p] = "failed"]
        <5>1. Stage(p) = "consented" /\ stages' = [stages EXCEPT ![p] = "over"]
          <6>1. Stage(p) = "consented" /\ Stage(p)' = "over"
            BY <4>1, <4>2, <4>4 DEF Stage, TypeInv, PromiseTypeOK, PromiseRowsTypeOK
          <6>2. \A q \in Promises \ {p} : Stage(q)' = Stage(q)
            BY <4>2, <4>4 DEF Stage, TypeInv, PromiseTypeOK, PromiseRowsTypeOK
          <6> QED
            BY <6>1, <6>2 DEF stages
        <5> QED
          BY <3>1, <4>1, <4>2, <5>1 DEF stages, Contract!Next, Contract!GiveUp, Contract!Move
      <4> QED
        BY <2>0, <3>1, <4>2, <4>3, <4>4
    <3>4. CASE PresentDebit(s)
      <4>0. PICK p \in Promises : p = job[s].on
        BY <3>4, OnItsPage DEF PresentDebit, TypeInv, PromiseTypeOK, HandOnPage, InHand
      <4>1. /\ asked[p] = 0 /\ p \notin taken /\ mandate[p] = "active"
            /\ due[p] <= clock
        BY <3>4, <4>0
        DEF PresentDebit, TypeInv, PromiseTypeOK, HandOnPage, InHand, DebitInv, HolderKnows,
            Holding, PagesAreDue, Debiting
      <4>2. /\ UNCHANGED <<due, mandate>> /\ asked' = [asked EXCEPT ![p] = 1]
            /\ taken' = taken \/ taken' = taken \cup {p}
        BY <3>4, <4>0, <4>1 DEF PresentDebit, TypeInv, PromiseTypeOK, BankTypeOK
      <4>3. Stage(p) = "consented"
        BY <4>1 DEF Stage
      <4>4. \E outcome \in {"asked", "taken"} : stages' = [stages EXCEPT ![p] = outcome]
        <5>1. Stage(p)' \in {"asked", "taken"}
          BY <4>1, <4>2 DEF Stage, TypeInv, PromiseTypeOK, BankTypeOK
        <5>2. \A q \in Promises \ {p} : Stage(q)' = Stage(q)
          BY <4>2 DEF Stage, TypeInv, PromiseTypeOK, BankTypeOK
        <5> QED
          BY <5>1, <5>2 DEF stages
      <4> QED
        BY <3>1, <4>1, <4>2, <4>3, <4>4 DEF stages, Contract!Next, Contract!Ask, Contract!Move
    <3>5. CASE BookDebit(s)
      <4>1. job[s].on \in Promises /\ asked[job[s].on] = 1
        BY <3>5, OnItsPage
        DEF BookDebit, TypeInv, PromiseTypeOK, HandOnPage, InHand, DebitInv, HolderKnows, Holding
      <4>2. UNCHANGED <<due, stages>>
        BY <3>5, <4>1 DEF BookDebit, stages, Stage, TypeInv, PromiseTypeOK, PromiseRowsTypeOK
      <4> QED
        BY <3>1, <4>2
    <3>6. CASE UNCHANGED <<due, mandate, asked, taken>>
      BY <2>0, <3>1, <3>6
    <3> QED
      BY <2>1, <3>2, <3>3, <3>4, <3>5, <3>6
      DEF SweepStep, TickBegins, TakeDebit, TakeNotice, Take, ClaimDebit, SelectExpired,
          BreakExpired, ClaimNotice, SendNotice, RestoreSilence
  <2>2. ASSUME NEW f \in Surfaces, NEW auto \in BOOLEAN, RecordPromise(f, auto)
        PROVE  Contract!Next \/ UNCHANGED <<clock, due, stages>>
    <3>1. PICK p \in Promises \ Rows :
            /\ due' = [due EXCEPT ![p] = asking[f].due]
            /\ mandate' = [mandate EXCEPT ![p] = IF auto /\ f = "page" THEN "asked" ELSE "none"]
      BY <2>2 DEF RecordPromise
    <3>2. due[p] = -1 /\ mandate[p] = "none" /\ asked[p] = 0 /\ p \notin taken
      BY <3>1 DEF Rows, DebitInv, BlankRows, KeyAfterConsent, KeyBeforeBank, NoConsent, Never
    <3>3. due'[p] > clock /\ due' = [due EXCEPT ![p] = due'[p]]
      BY <2>2, <3>1 DEF RecordPromise, TypeInv, RequestsAhead, PromiseTypeOK, PromiseRowsTypeOK
    <3>4. UNCHANGED <<clock, stages>>
      BY <2>2, <3>1, <3>2 DEF RecordPromise, stages, Stage, TypeInv, PromiseTypeOK, PromiseRowsTypeOK
    <3> QED
      BY <3>2, <3>3, <3>4 DEF stages, Contract!Next, Contract!Dates
  <2>3. ASSUME NEW p \in Promises, Authorise(p)
        PROVE  UNCHANGED <<clock, due, stages>>
    <3>1. asked[p] = 0 /\ p \notin taken
      BY <2>3 DEF Authorise, DebitInv, KeyAfterConsent, KeyBeforeBank, NoConsent
    <3> QED
      BY <2>3, <3>1 DEF Authorise, stages, Stage, TypeInv, PromiseTypeOK, PromiseRowsTypeOK
  <2>4. CASE HalfDay
    <3>1. clock' > clock /\ UNCHANGED <<due, stages>>
      BY <2>0, <2>4 DEF HalfDay, TypeInv, PromiseTypeOK, EnvironmentTypeOK
    <3> QED
      BY <3>1 DEF stages, Contract!Next, Contract!TimePasses
  <2>5. CASE UNCHANGED <<clock, due, mandate, asked, taken>>
    BY <2>0, <2>5
  <2>6. ASSUME NEW c \in Chasers, ChaseLoads(c) \/ ChaseAsks(c) \/ ChaseStep(c)
        PROVE  UNCHANGED <<clock, due, mandate, asked, taken>>
    BY <2>6, ChaseBounds DEF RestOfLedger
  <2> QED
    BY <2>1, <2>2, <2>3, <2>4, <2>5, <2>6
    DEF PromiseNext, LedgerStep, SchedulerDies, TickEnds, AskToPromise, DebitLands, CustomerPays,
        FailStale, OptOut
<1>3. PromiseInit => DebitInv
  BY DEF PromiseInit, DebitInv, BlankRows, KeyAfterConsent, KeyBeforeBank, PagesAreDue,
     HolderKnows, OneHolder, Holding, Debiting, NoConsent
<1>4. PromiseSpec => [](TypeInv /\ DebitInv)
  BY <1>3, Typed, DebitInvInductive, PTL DEF PromiseSpec
<1> QED
  BY <1>1, <1>2, <1>4, PTL DEF PromiseSpec, DebitsHonourContract, Contract!Spec

-----------------------------------------------------------------------------
(* The two promises to the customer                                         *)

\* Only the deployment's schedulers work, and they work on promises recorded.
OnlyUpWork == \A s \in Schedulers : pc[s] # "idle" => s \in up
PagesHoldRows == \A s \in Schedulers : \A p \in page[s] : status[p] # "none"

\* The debit's row and the mandate of its promise are booked together.
PaidIsCharged == \A p \in Promises : debit[p] = "success" => mandate[p] = "charged"

\* What a lone scheduler knows of its page: nobody breaks a promise it is about to
\* charge, nobody charges one it is about to break.
Lone == \A s, t \in up \cap Schedulers : s = t
Unbroken ==
  \A s \in Schedulers : pc[s] \in Debiting => \A p \in page[s] : status[p] # "broken"
ChargedLongAgo(p) == debit[p] = "success" => chargedAt[p] + Grace <= clock
BreakingIsUnpaid ==
  \A s \in Schedulers : pc[s] = "breaking" => \A p \in page[s] : ChargedLongAgo(p)
BrokenIsUnpaid == \A p \in Promises : status[p] = "broken" => ChargedLongAgo(p)

PageInv == OnlyUpWork /\ PagesHoldRows /\ PaidIsCharged
LoneInv == Lone => Unbroken /\ BreakingIsUnpaid /\ BrokenIsUnpaid

\* A deployment of one scheduler has no two.
LEMMA OneIsLone == Cardinality(up \cap Schedulers) = 1 => Lone
<1> SUFFICES ASSUME Cardinality(up \cap Schedulers) = 1 PROVE Lone
  OBVIOUS
<1>1. IsFiniteSet(up \cap Schedulers)
  BY PromiseAssumption, FS_Subset
<1>2. PICK s : up \cap Schedulers = {s}
  BY <1>1, FS_Singleton
<1> QED
  BY <1>2 DEF Lone

LEMMA PageInvInductive == TypeInv /\ DebitInv /\ PageInv /\ [PromiseNext]_promiseVars => PageInv'
<1> SUFFICES ASSUME TypeInv, DebitInv, PageInv, [PromiseNext]_promiseVars PROVE PageInv'
  OBVIOUS
<1> USE DEF PageInv, OnlyUpWork, PagesHoldRows, PaidIsCharged, TypeInv, PromiseTypeOK, HandOnPage,
        InHand, WorkTypeOK, PromiseRowsTypeOK, AttemptRowsTypeOK, Goto
<1>0. /\ \A p \in Promises : mandate[p] \in NoConsent => debit[p] # "success"
      /\ \A p \in Promises \ Rows : mandate[p] = "none"
  BY DEF DebitInv, KeyAfterConsent, BlankRows, Rows
<1>1. ASSUME NEW s \in Schedulers, SweepStep(s) PROVE PageInv'
  <2> USE <1>1 DEF SweepStep
  <2>1. CASE TickBegins(s)
    BY <2>1 DEF TickBegins, Stay
  <2>2. CASE ConfirmMandates(s)
    BY <1>0, <2>2 DEF ConfirmMandates, Load, DueForDebit, AwaitingConfirmation, Pending, NoConsent
  <2>3. CASE TakeDebit(s) \/ TakeNotice(s)
    BY <2>3 DEF TakeDebit, TakeNotice, Take
  <2>4. CASE ClaimDebit(s)
    BY <2>4 DEF ClaimDebit, NextOf, Stay
  <2>5. CASE CreateOrder(s)
    BY <2>5 DEF CreateOrder, NextOf, Stay
  <2>6. CASE PresentDebit(s)
    BY <2>6 DEF PresentDebit
  <2>7. CASE BookDebit(s)
    BY <2>7 DEF BookDebit, NextOf
  <2>8. CASE SelectExpired(s)
    BY <2>8 DEF SelectExpired, Load, Pending
  <2>9. CASE BreakExpired(s)
    BY <2>9 DEF BreakExpired, Load, Pending
  <2>10. CASE ClaimNotice(s)
    BY <2>10 DEF ClaimNotice, Stay, Stamp, NextOf
  <2>11. CASE SendNotice(s)
    BY <2>11 DEF SendNotice, Stay
  <2>12. CASE RestoreSilence(s)
    BY <2>12 DEF RestoreSilence, Stamp, NextOf
  <2> QED
    BY <2>1, <2>2, <2>3, <2>4, <2>5, <2>6, <2>7, <2>8, <2>9, <2>10, <2>11, <2>12
<1>2. ASSUME NEW s \in Schedulers, SchedulerDies(s) \/ TickEnds(s) PROVE PageInv'
  BY <1>2 DEF SchedulerDies, TickEnds, Load, Stay
<1>3. ASSUME NEW f \in Surfaces, NEW auto \in BOOLEAN, RecordPromise(f, auto) PROVE PageInv'
  BY <1>0, <1>3 DEF RecordPromise, NoConsent
<1>4. ASSUME NEW p \in Promises, Authorise(p) PROVE PageInv'
  BY <1>0, <1>4 DEF Authorise, NoConsent
<1>5. ASSUME NEW p \in Promises, DebitLands(p) PROVE PageInv'
  BY <1>5 DEF DebitLands, Attributed, Resolved, Superseded, Pending
<1>6. ASSUME NEW full \in BOOLEAN, CustomerPays(full) PROVE PageInv'
  BY <1>6 DEF CustomerPays, Attributed, Resolved, Superseded, Pending
<1>7. CASE FailStale \/ OptOut
  BY <1>7 DEF FailStale, OptOut, Resolved, Pending
<1>8. CASE UNCHANGED <<up, status, debit, mandate, workVars>>
  BY <1>8
<1>9. ASSUME NEW c \in Chasers, ChaseLoads(c) \/ ChaseAsks(c) \/ ChaseStep(c)
      PROVE  UNCHANGED <<up, status, debit, mandate, workVars>>
  BY <1>9, ChaseBounds DEF RestOfLedger
<1> QED
  BY <1>1, <1>2, <1>3, <1>4, <1>5, <1>6, <1>7, <1>8, <1>9
  DEF PromiseNext, LedgerStep, AskToPromise, HalfDay

LEMMA LoneInvInductive ==
  TypeInv /\ PageInv /\ LoneInv /\ [PromiseNext]_promiseVars => LoneInv'
<1> SUFFICES ASSUME TypeInv, PageInv, LoneInv, [PromiseNext]_promiseVars, Lone' PROVE LoneInv'
  BY DEF LoneInv
<1> USE Constants
    DEF LoneInv, Unbroken, BreakingIsUnpaid, BrokenIsUnpaid, ChargedLongAgo, Debiting, Holding,
        TypeInv, PromiseTypeOK, HandOnPage, InHand, WorkTypeOK, PromiseRowsTypeOK,
        AttemptRowsTypeOK, EnvironmentTypeOK, Goto
<1>10. ASSUME NEW c \in Chasers, ChaseLoads(c) \/ ChaseAsks(c) \/ ChaseStep(c)
       PROVE  UNCHANGED <<up, clock, status, debit, chargedAt, workVars>>
  BY <1>10, ChaseBounds DEF RestOfLedger
<1>0. UNCHANGED up
  BY <1>10
  DEF PromiseNext, LedgerStep, SweepStep, SchedulerDies, AskToPromise, RecordPromise, Authorise,
      DebitLands, CustomerPays, FailStale, OptOut, HalfDay, TickEnds
<1>a. Unbroken /\ BreakingIsUnpaid /\ BrokenIsUnpaid
  BY <1>0 DEF Lone
<1>b. \A s, t \in Schedulers : pc[s] # "idle" /\ pc[t] # "idle" => s = t
  BY <1>0 DEF Lone, PageInv, OnlyUpWork
<1> USE <1>a, <1>b
<1>1. ASSUME NEW s \in Schedulers, SweepStep(s) PROVE LoneInv'
  <2> USE <1>1 DEF SweepStep
  <2>1. CASE TickBegins(s)
    BY <2>1 DEF TickBegins, Stay
  <2>2. CASE ConfirmMandates(s)
    BY <2>2 DEF ConfirmMandates, Load, DueForDebit, Pending
  <2>3. CASE TakeDebit(s) \/ TakeNotice(s)
    BY <2>3 DEF TakeDebit, TakeNotice, Take
  <2>4. CASE ClaimDebit(s)
    BY <2>4 DEF ClaimDebit, NextOf, Stay
  <2>5. CASE CreateOrder(s)
    BY <2>5 DEF CreateOrder, NextOf, Stay
  <2>6. CASE PresentDebit(s)
    BY <2>6 DEF PresentDebit
  <2>7. CASE BookDebit(s)
    BY <2>7 DEF BookDebit, NextOf
  <2>8. CASE SelectExpired(s)
    <3>1. \A p \in Promises : Overdue(p) => ChargedLongAgo(p)
      BY DEF Overdue, ChargeInFlight, PageInv, PaidIsCharged
    <3> QED
      BY <2>8, <3>1 DEF SelectExpired, Load, Pending
  <2>9. CASE BreakExpired(s)
    BY <2>9 DEF BreakExpired, Load
  <2>10. CASE ClaimNotice(s)
    BY <2>10 DEF ClaimNotice, Stay, Stamp, NextOf
  <2>11. CASE SendNotice(s)
    BY <2>11 DEF SendNotice, Stay
  <2>12. CASE RestoreSilence(s)
    BY <2>12 DEF RestoreSilence, Stamp, NextOf
  <2> QED
    BY <2>1, <2>2, <2>3, <2>4, <2>5, <2>6, <2>7, <2>8, <2>9, <2>10, <2>11, <2>12
<1>2. ASSUME NEW s \in Schedulers, SchedulerDies(s) \/ TickEnds(s) PROVE LoneInv'
  BY <1>2 DEF SchedulerDies, TickEnds, Load, Stay
<1>3. ASSUME NEW f \in Surfaces, NEW auto \in BOOLEAN, RecordPromise(f, auto) PROVE LoneInv'
  BY <1>3 DEF RecordPromise
<1>5. ASSUME NEW p \in Promises, DebitLands(p) PROVE LoneInv'
  BY <1>5 DEF DebitLands, Attributed, Resolved, Superseded, Pending
<1>6. ASSUME NEW full \in BOOLEAN, CustomerPays(full) PROVE LoneInv'
  BY <1>6 DEF CustomerPays, Attributed, Resolved, Superseded, Pending
<1>7. CASE FailStale \/ OptOut
  BY <1>7 DEF FailStale, OptOut, Resolved, Pending
<1>8. CASE HalfDay
  BY <1>8 DEF HalfDay
<1>9. CASE UNCHANGED <<clock, status, debit, chargedAt, workVars>>
  BY <1>9
<1> QED
  BY <1>1, <1>2, <1>3, <1>5, <1>6, <1>7, <1>8, <1>9, <1>10
  DEF PromiseNext, LedgerStep, AskToPromise, Authorise

\* With one scheduler, a promise whose debit is known to have gone through is not
\* called broken within one grace window of the charge.
THEOREM NotBrokenWhilePaid == PromiseSpec => []BrokenWasUnpaid
<1>1. PromiseInit => DebitInv /\ PageInv /\ LoneInv
  BY DEF PromiseInit, DebitInv, BlankRows, KeyAfterConsent, KeyBeforeBank, PagesAreDue,
     HolderKnows, OneHolder, Holding, Debiting, NoConsent, PageInv, OnlyUpWork, PagesHoldRows,
     PaidIsCharged, LoneInv, Unbroken, BreakingIsUnpaid, BrokenIsUnpaid
<1>2. TypeInv /\ LoneInv => BrokenWasUnpaid
  BY OneIsLone DEF TypeInv, PromiseTypeOK, LoneInv, BrokenIsUnpaid, ChargedLongAgo, BrokenWasUnpaid
<1> QED
  BY <1>1, <1>2, Typed, DebitInvInductive, PageInvInductive, LoneInvInductive, PTL
  DEF PromiseSpec

Sending == {"send", "sent"}

\* The case of one promise that no chase was in hand to overtake, and no reminder of which was
\* refused or lost: SilenceKept is about it, but for the stretch in which a reminder has moved
\* the case and not yet restored it.
Calm(p) ==
  /\ cState = "open" /\ Rows = {p} /\ status[p] = "pending" /\ due[p] > clock
  /\ ~overtaken /\ notice[p] # "rejected" /\ crashes = 0

\* No chase has such a case in hand and none may take it now.  The date is kept between
\* reminders, and by the reminder's own rung where that rung is the later.
Hushed(p) ==
  /\ ChasesInHand = {} /\ nextAt > clock
  /\ \A s \in Schedulers :
       pc[s] \in Sending /\ job[s].on = p /\ due[p] <= Rung(job[s]) => nextAt >= due[p]
  /\ (\A s \in Schedulers : pc[s] \notin Sending) => nextAt >= due[p]

\* A session that sends a reminder holds its key.
NoticeHeld ==
  \A s \in Schedulers : pc[s] \in Sending => notice[job[s].on] \notin {"none", "rejected"}

\* A first request that will leave next_action_at alone found it past its date, and it still is.
RequestsHushed ==
  \A f \in Surfaces :
    (/\ asking[f] # NoRequest /\ Rows = {} /\ ~asking[f].chased
     /\ asking[f].next >= asking[f].due)
    => ChasesInHand = {} /\ nextAt >= asking[f].due

SilenceInv == (\A p \in Promises : Calm(p) => Hushed(p)) /\ NoticeHeld /\ RequestsHushed

LEMMA SilenceStarts == PromiseInit => SilenceInv
  BY DEF PromiseInit, SilenceInv, Calm, NoticeHeld, RequestsHushed, Rows, Sending

LEMMA SilenceFollows == SilenceInv => SilenceKept
  BY DEF SilenceInv, SilenceKept, Calm, Hushed, Sending, Pending

\* The promise of a case that has one is the one any scheduler has in hand.
LEMMA OnlyPage ==
  ASSUME TypeInv, PageInv, NEW p \in Promises, Rows = {p}
  PROVE  \A s \in Schedulers : /\ page[s] \subseteq {p}
                               /\ pc[s] \in InHand => job[s].on = p
  BY DEF TypeInv, PromiseTypeOK, WorkTypeOK, HandOnPage, PageInv, PagesHoldRows, Rows

\* With no promise on record no scheduler has one in hand.
LEMMA NoPage ==
  ASSUME TypeInv, PageInv, Rows = {}
  PROVE  \A s \in Schedulers : page[s] = {} /\ pc[s] \notin InHand
  BY DEF TypeInv, PromiseTypeOK, WorkTypeOK, HandOnPage, PageInv, PagesHoldRows, Rows

LEMMA NoticeHeldInductive ==
  TypeInv /\ PageInv /\ NoticeHeld /\ [PromiseNext]_promiseVars => NoticeHeld'
<1> SUFFICES ASSUME TypeInv, PageInv, NoticeHeld, [PromiseNext]_promiseVars PROVE NoticeHeld'
  OBVIOUS
<1> USE DEF NoticeHeld, Sending, TypeInv, PromiseTypeOK, WorkTypeOK, AttemptRowsTypeOK, Goto
<1>1. ASSUME NEW s \in Schedulers, SweepStep(s) PROVE NoticeHeld'
  <2> USE <1>1 DEF SweepStep
  <2>1. CASE TickBegins(s) \/ ConfirmMandates(s) \/ SelectExpired(s) \/ BreakExpired(s)
    BY <2>1 DEF TickBegins, ConfirmMandates, SelectExpired, BreakExpired, Stay, Load
  <2>2. CASE TakeDebit(s) \/ TakeNotice(s)
    BY <2>2 DEF TakeDebit, TakeNotice, Take
  <2>3. CASE ClaimDebit(s) \/ CreateOrder(s) \/ PresentDebit(s) \/ BookDebit(s)
    BY <2>3 DEF ClaimDebit, CreateOrder, PresentDebit, BookDebit, Stay, NextOf
  <2>4. CASE ClaimNotice(s)
    <3>1. job[s].on \in Promises
      BY <2>4 DEF ClaimNotice, HandOnPage, InHand
    <3>2. CASE UNCHANGED notice /\ NextOf(s, "remind")
      BY <3>2 DEF NextOf
    <3>3. ASSUME NEW verdict \in {"write_ahead", "rejected"}, notice[job[s].on] = "none",
                 notice' = [notice EXCEPT ![job[s].on] = verdict],
                 \/ verdict = "write_ahead" /\ Stay(s, "send")
                 \/ NextOf(s, "remind")
          PROVE  NoticeHeld'
      BY <3>1, <3>3 DEF Stay, NextOf
    <3> QED
      BY <2>4, <3>2, <3>3 DEF ClaimNotice, Stamp
  <2>5. CASE SendNotice(s)
    BY <2>5 DEF SendNotice, Stay, HandOnPage, InHand
  <2>6. CASE RestoreSilence(s)
    BY <2>6 DEF RestoreSilence, Stamp, NextOf
  <2> QED
    BY <2>1, <2>2, <2>3, <2>4, <2>5, <2>6
<1>2. ASSUME NEW s \in Schedulers, SchedulerDies(s) \/ TickEnds(s) PROVE NoticeHeld'
  BY <1>2 DEF SchedulerDies, TickEnds, Load, Stay
<1>3. ASSUME NEW p \in Promises, DebitLands(p) PROVE NoticeHeld'
  BY <1>3 DEF DebitLands, Attributed, Superseded, InDoubt, HandOnPage, InHand
<1>4. ASSUME NEW full \in BOOLEAN, CustomerPays(full) PROVE NoticeHeld'
  BY <1>4 DEF CustomerPays, Attributed, Superseded, InDoubt, HandOnPage, InHand
<1>5. CASE FailStale
  BY <1>5 DEF FailStale, HandOnPage, InHand
<1>6. CASE UNCHANGED <<notice, workVars>>
  BY <1>6
<1>7. ASSUME NEW c \in Chasers, ChaseLoads(c) \/ ChaseAsks(c) \/ ChaseStep(c)
      PROVE  UNCHANGED <<notice, workVars>>
  BY <1>7, ChaseBounds DEF RestOfLedger
<1> QED
  BY <1>1, <1>2, <1>3, <1>4, <1>5, <1>6, <1>7
  DEF PromiseNext, LedgerStep, AskToPromise, RecordPromise, Authorise, OptOut, HalfDay

LEMMA RequestsHushedInductive ==
  TypeInv /\ PageInv /\ RequestsHushed /\ [PromiseNext]_promiseVars => RequestsHushed'
<1> SUFFICES ASSUME TypeInv, PageInv, RequestsHushed, [PromiseNext]_promiseVars,
                    NEW f \in Surfaces, asking'[f] # NoRequest, Rows' = {},
                    ~asking'[f].chased, asking'[f].next >= asking'[f].due
             PROVE  ChasesInHand' = {} /\ nextAt' >= asking'[f].due
  BY DEF RequestsHushed
<1>0. /\ nextAt \in Nat /\ clock \in Nat
      /\ asking \in [Surfaces -> [due: Never .. LastDue, next: {Never} \cup Nat, chased: BOOLEAN]]
      /\ status \in [Promises -> Statuses]
  BY DEF TypeInv, PromiseTypeOK, CaseTypeOK, EnvironmentTypeOK, SessionTypeOK, PromiseRowsTypeOK
<1>1. CASE UNCHANGED <<asking, chase, nextAt>> /\ Rows = {}
  BY <1>1 DEF RequestsHushed, ChasesInHand
<1>2. ASSUME NEW s \in Schedulers, SweepStep(s) PROVE ChasesInHand' = {} /\ nextAt' >= asking'[f].due
  <2>1. Rows = {}
    <3>1. \A p \in Promises : status[p] # "none" => status'[p] # "none"
      BY <1>0, <1>2
      DEF SweepStep, TickBegins, ConfirmMandates, TakeDebit, TakeNotice, Take, ClaimDebit,
          CreateOrder, PresentDebit, BookDebit, SelectExpired, BreakExpired, ClaimNotice,
          SendNotice, RestoreSilence
    <3> QED
      BY <3>1 DEF Rows
  <2>2. page[s] = {} /\ pc[s] \notin InHand
    BY <2>1, NoPage
  <2>3. UNCHANGED <<asking, chase>>
    BY <1>2 DEF SweepStep
  <2>4. UNCHANGED nextAt
    BY <1>2, <2>2
    DEF SweepStep, TickBegins, ConfirmMandates, TakeDebit, TakeNotice, Take, ClaimDebit,
        CreateOrder, PresentDebit, BookDebit, SelectExpired, BreakExpired, ClaimNotice,
        SendNotice, RestoreSilence, InHand
  <2> QED
    BY <1>1, <2>1, <2>3, <2>4
<1>3. ASSUME NEW g \in Surfaces, NEW d \in 0 .. LastDue, AskToPromise(g, d)
      PROVE  ChasesInHand' = {} /\ nextAt' >= asking'[f].due
  <2>1. Rows = {} /\ UNCHANGED <<chase, nextAt>>
    BY <1>3 DEF AskToPromise, Rows
  <2>2. CASE f = g
    BY <1>0, <1>3, <2>1, <2>2 DEF AskToPromise, ChasesInHand
  <2>3. CASE f # g
    BY <1>0, <1>3, <2>1, <2>3 DEF AskToPromise, ChasesInHand, RequestsHushed
  <2> QED
    BY <2>2, <2>3
<1>4. ASSUME NEW g \in Surfaces, NEW auto \in BOOLEAN, RecordPromise(g, auto) PROVE FALSE
  BY <1>0, <1>4 DEF RecordPromise, Rows
<1>5. ASSUME NEW p \in Promises, Authorise(p) \/ DebitLands(p)
      PROVE  UNCHANGED <<asking, chase, nextAt>> /\ Rows = {}
  BY <1>0, <1>5 DEF Authorise, DebitLands, Attributed, Resolved, Rows
<1>6. ASSUME NEW full \in BOOLEAN, CustomerPays(full)
      PROVE  UNCHANGED <<asking, chase, nextAt>> /\ Rows = {}
  BY <1>0, <1>6 DEF CustomerPays, Attributed, Resolved, Rows
<1>7. CASE OptOut
  BY <1>0, <1>1, <1>7 DEF OptOut, Resolved, Rows
<1>8. CASE HalfDay
  BY <1>8 DEF HalfDay
<1>9. ASSUME NEW c \in Chasers, ChaseLoads(c) \/ ChaseAsks(c) \/ ChaseStep(c) PROVE FALSE
  <2>1. UNCHANGED <<asking, status>> /\ Rows = {}
    BY <1>9, ChaseBounds DEF RestOfLedger, Rows
  <2>2. ChasesInHand = {} /\ nextAt > clock
    BY <1>0, <2>1 DEF RequestsHushed, TypeInv, RequestsAhead
  <2> QED
    BY <1>0, <1>9, <2>2, ChaseIsInHand DEF ChaseLoads
<1>10. CASE FailStale
  BY <1>1, <1>10 DEF FailStale, Rows
<1>11. ASSUME NEW s \in Schedulers, SchedulerDies(s) \/ TickEnds(s)
       PROVE  UNCHANGED <<asking, chase, nextAt>> /\ Rows = {}
  BY <1>11 DEF SchedulerDies, TickEnds, Rows
<1>12. CASE UNCHANGED promiseVars
  BY <1>1, <1>12 DEF Rows
<1> QED
  BY <1>1, <1>2, <1>3, <1>4, <1>5, <1>6, <1>7, <1>8, <1>9, <1>10, <1>11, <1>12
  DEF PromiseNext, LedgerStep

\* A step that leaves the schedule, the promises and the chases as they are, starts or ends
\* nobody's sending and unrefuses no reminder keeps the hush.
LEMMA HushKept ==
  ASSUME NEW p \in Promises, Calm(p) => Hushed(p), Calm(p)',
         cState' = "open" => cState = "open",
         UNCHANGED <<clock, status, due, nextAt, crashes, overtaken, chase>>,
         notice[p] = "rejected" => notice'[p] = "rejected",
         \A s \in Schedulers : /\ pc'[s] \in Sending <=> pc[s] \in Sending
                               /\ pc[s] \in Sending => job'[s] = job[s]
  PROVE  Hushed(p)'
<1>1. Calm(p)
  BY DEF Calm, Rows
<1>2. \A s \in Schedulers : pc[s] \in Sending => Rung(job[s])' = Rung(job[s])
  BY DEF Rung
<1>3. ChasesInHand' = {} /\ nextAt' > clock'
  BY <1>1 DEF Hushed, ChasesInHand
<1>4. \A s \in Schedulers :
        pc'[s] \in Sending /\ job'[s].on = p /\ due'[p] <= Rung(job[s])' => nextAt' >= due'[p]
  BY <1>1, <1>2 DEF Hushed
<1>5. (\A s \in Schedulers : pc'[s] \notin Sending) => nextAt' >= due'[p]
  BY <1>1 DEF Hushed
<1> QED
  BY <1>3, <1>4, <1>5 DEF Hushed

LEMMA HushInductive ==
  ASSUME TypeInv, PageInv, SilenceInv, [PromiseNext]_promiseVars, NEW p \in Promises, Calm(p)'
  PROVE  Hushed(p)'
<1>0. /\ nextAt \in Nat /\ due \in [Promises -> Int] /\ clock \in Nat /\ crashes \in Nat
      /\ status \in [Promises -> Statuses] /\ notice \in [Promises -> RowStates]
      /\ pc \in [Schedulers -> Places] /\ job \in [Schedulers -> Jobs]
  BY Constants, PromiseAssumption
  DEF TypeInv, PromiseTypeOK, CaseTypeOK, PromiseRowsTypeOK, AttemptRowsTypeOK, EnvironmentTypeOK,
      WorkTypeOK, Never
<1>a. Calm(p) => Hushed(p)
  BY DEF SilenceInv
<1>b. /\ cState' = "open" /\ Rows' = {p} /\ status'[p] = "pending" /\ due'[p] > clock'
      /\ ~overtaken' /\ notice'[p] # "rejected" /\ crashes' = 0
  BY DEF Calm
<1>1. ASSUME NEW s \in Schedulers, SweepStep(s) PROVE Hushed(p)'
  <2>0. UNCHANGED <<clock, crashes, overtaken, chase, cState>>
    BY <1>1
    DEF SweepStep, TickBegins, ConfirmMandates, TakeDebit, TakeNotice, Take, ClaimDebit,
        CreateOrder, PresentDebit, BookDebit, SelectExpired, BreakExpired, ClaimNotice, SendNotice,
        RestoreSilence
  <2> USE DEF Goto
  <2>1. CASE TickBegins(s) \/ TakeDebit(s) \/ TakeNotice(s) \/ SelectExpired(s) \/ ConfirmMandates(s)
    <3>1. /\ UNCHANGED <<status, due, nextAt, notice>>
          /\ \A t \in Schedulers : /\ pc'[t] \in Sending <=> pc[t] \in Sending
                                   /\ pc[t] \in Sending => job'[t] = job[t]
      BY <1>0, <2>1
      DEF TickBegins, TakeDebit, TakeNotice, Take, SelectExpired, ConfirmMandates, Stay, Load, Sending
    <3> QED
      BY <1>a, <2>0, <3>1, HushKept
  <2>2. CASE ClaimDebit(s) \/ CreateOrder(s) \/ PresentDebit(s) \/ BookDebit(s)
    <3>1. /\ UNCHANGED <<status, due, nextAt, notice>>
          /\ \A t \in Schedulers : /\ pc'[t] \in Sending <=> pc[t] \in Sending
                                   /\ pc[t] \in Sending => job'[t] = job[t]
      BY <1>0, <2>2 DEF ClaimDebit, CreateOrder, PresentDebit, BookDebit, Stay, NextOf, Sending
    <3> QED
      BY <1>a, <2>0, <3>1, HushKept
  <2>3. CASE BreakExpired(s)
    <3>1. Rows = {p}
      BY <1>0, <1>b, <2>3 DEF BreakExpired, Rows
    <3>2. p \notin page[s] /\ page[s] \subseteq {p}
      BY <1>b, <2>3, <3>1, OnlyPage DEF BreakExpired
    <3>3. UNCHANGED <<status, due, nextAt, notice>>
      BY <1>0, <2>3, <3>2 DEF BreakExpired
    <3>4. \A t \in Schedulers : /\ pc'[t] \in Sending <=> pc[t] \in Sending
                                /\ pc[t] \in Sending => job'[t] = job[t]
      BY <1>0, <2>3 DEF BreakExpired, Load, Sending
    <3> QED
      BY <1>a, <2>0, <3>3, <3>4, HushKept
  <2>4. CASE ClaimNotice(s)
    <3>1. UNCHANGED <<status, due>> /\ Rows = {p} /\ job[s].on = p /\ pc[s] \notin Sending
      <4>1. UNCHANGED <<status, due>> /\ pc[s] \in InHand /\ pc[s] \notin Sending
        BY <2>4 DEF ClaimNotice, InHand, Sending
      <4>2. Rows = {p}
        BY <1>b, <4>1 DEF Rows
      <4> QED
        BY <4>1, <4>2, OnlyPage
    <3>2. CASE UNCHANGED <<nextAt, notice>> /\ NextOf(s, "remind")
      <4>1. \A t \in Schedulers : /\ pc'[t] \in Sending <=> pc[t] \in Sending
                                  /\ pc[t] \in Sending => job'[t] = job[t]
        BY <1>0, <3>1, <3>2 DEF NextOf, Sending
      <4> QED
        BY <1>a, <2>0, <3>1, <3>2, <4>1, HushKept
    <3>3. CASE /\ notice[p] = "none" /\ nextAt' = Rung(job[s])
               /\ Stay(s, "send")
      <4>1. \A t \in Schedulers : pc[t] \notin Sending
        BY <3>1, <3>3, OnlyPage DEF SilenceInv, NoticeHeld, Sending, InHand
      <4>2. \A t \in Schedulers : pc'[t] \in Sending => t = s
        BY <1>0, <3>3, <4>1 DEF Stay
      <4>3. pc'[s] \in Sending /\ Rung(job[s])' = nextAt'
        BY <1>0, <2>0, <3>3 DEF Stay, Sending, Rung
      <4>4. nextAt' \in Nat /\ nextAt' > clock'
        BY <1>0, <2>0, <3>3, RungAhead DEF Jobs, TypeInv, PromiseTypeOK
      <4>5. ChasesInHand' = {}
        <5>1. Calm(p)
          BY <1>b, <2>0, <3>1, <3>3 DEF Calm
        <5> QED
          BY <1>a, <2>0, <5>1 DEF Hushed, ChasesInHand
      <4>6. due'[p] \in Int
        BY <1>0, <3>1
      <4>7. \A t \in Schedulers :
              pc'[t] \in Sending /\ job'[t].on = p /\ due'[p] <= Rung(job[t])' => nextAt' >= due'[p]
        BY <4>2, <4>3, <4>4, <4>6
      <4> QED
        BY <4>3, <4>4, <4>5, <4>7 DEF Hushed
    <3>4. CASE notice' = [notice EXCEPT ![job[s].on] = "rejected"]
      BY <1>0, <1>b, <3>1, <3>4
    <3> QED
      BY <2>4, <3>1, <3>2, <3>3, <3>4 DEF ClaimNotice, Stamp
  <2>5. CASE SendNotice(s)
    <3>1. UNCHANGED <<status, due, nextAt>> /\ Rows = {p} /\ job[s].on = p
      <4>1. UNCHANGED <<status, due, nextAt>> /\ pc[s] \in InHand
        BY <2>5 DEF SendNotice, InHand
      <4>2. Rows = {p}
        BY <1>b, <4>1 DEF Rows
      <4> QED
        BY <4>1, <4>2, OnlyPage
    <3>2. notice[p] # "rejected"
      BY <2>5, <3>1 DEF SendNotice, SilenceInv, NoticeHeld, Sending
    <3>3. \A t \in Schedulers : /\ pc'[t] \in Sending <=> pc[t] \in Sending
                                /\ pc[t] \in Sending => job'[t] = job[t]
      BY <1>0, <2>5 DEF SendNotice, Stay, Sending
    <3> QED
      BY <1>a, <2>0, <3>1, <3>2, <3>3, HushKept
  <2>6. CASE RestoreSilence(s)
    <3>1. UNCHANGED <<status, due, notice>> /\ Rows = {p} /\ job[s].on = p
      <4>1. UNCHANGED <<status, due, notice>> /\ pc[s] \in InHand
        BY <2>6 DEF RestoreSilence, InHand
      <4>2. Rows = {p}
        BY <1>b, <4>1 DEF Rows
      <4> QED
        BY <4>1, <4>2, OnlyPage
    <3>2. Calm(p)
      BY <1>b, <2>0, <3>1 DEF Calm
    <3>3. /\ ChasesInHand = {} /\ nextAt > clock
          /\ due[p] <= Rung(job[s]) => nextAt >= due[p]
      BY <1>a, <2>6, <3>1, <3>2 DEF Hushed, RestoreSilence, Sending
    <3>4. Rung(job[s]) \in Nat
      BY <1>0, RungAhead DEF Jobs, TypeInv, PromiseTypeOK
    <3>5. nextAt' > clock' /\ nextAt' >= due'[p]
      BY <1>0, <1>b, <2>0, <2>6, <3>1, <3>3, <3>4 DEF RestoreSilence, Floored
    <3>6. ChasesInHand' = {}
      BY <2>0, <3>3 DEF ChasesInHand
    <3> QED
      BY <3>5, <3>6 DEF Hushed
  <2> QED
    BY <1>1, <2>1, <2>2, <2>3, <2>4, <2>5, <2>6 DEF SweepStep
<1>2. ASSUME NEW s \in Schedulers, SchedulerDies(s) PROVE FALSE
  BY <1>0, <1>2, <1>b DEF SchedulerDies
<1>3. ASSUME NEW s \in Schedulers, TickEnds(s) PROVE Hushed(p)'
  <2>1. /\ UNCHANGED <<clock, cState, status, due, nextAt, notice, crashes, overtaken, chase>>
        /\ \A t \in Schedulers : /\ pc'[t] \in Sending <=> pc[t] \in Sending
                                 /\ pc[t] \in Sending => job'[t] = job[t]
    BY <1>0, <1>3 DEF TickEnds, Stay, Goto, Sending
  <2> QED
    BY <1>a, <2>1, HushKept
<1>4. ASSUME NEW f \in Surfaces, NEW auto \in BOOLEAN, RecordPromise(f, auto) PROVE Hushed(p)'
  <2>1. PICK q \in Promises \ Rows : /\ status' = [status EXCEPT ![q] = "pending"]
                                     /\ due' = [due EXCEPT ![q] = asking[f].due]
    BY <1>4 DEF RecordPromise
  <2>2. p = q /\ Rows = {}
    BY <1>0, <1>b, <2>1 DEF Rows
  <2>3. asking[f].due \in Int /\ asking[f].next \in Int /\ asking[f].due > clock
    BY <1>4, Constants
    DEF RecordPromise, TypeInv, PromiseTypeOK, SessionTypeOK, RequestsAhead, Never
  <2>4. ChasesInHand = {} /\ ~asking[f].chased /\ UNCHANGED <<clock, chase>>
    BY <1>4, <1>b DEF RecordPromise
  <2>5. nextAt' >= asking[f].due /\ nextAt' \in Int
    <3>1. CASE asking[f].due > asking[f].next
      BY <1>4, <2>3, <3>1 DEF RecordPromise
    <3>2. CASE asking[f].due <= asking[f].next
      BY <1>0, <1>4, <2>2, <2>3, <2>4, <3>2 DEF RecordPromise, SilenceInv, RequestsHushed
    <3> QED
      BY <2>3, <3>1, <3>2
  <2>6. nextAt' >= due'[p] /\ nextAt' > clock'
    BY <1>0, <2>1, <2>2, <2>3, <2>4, <2>5
  <2>7. ChasesInHand' = {}
    BY <2>4 DEF ChasesInHand
  <2> QED
    BY <2>6, <2>7 DEF Hushed
<1>5. ASSUME NEW q \in Promises, DebitLands(q) PROVE Hushed(p)'
  BY <1>5, <1>a, <1>b, HushKept DEF DebitLands, Attributed
<1>6. ASSUME NEW full \in BOOLEAN, CustomerPays(full) PROVE FALSE
  BY <1>6, <1>b DEF CustomerPays, Attributed, Resolved, Pending
<1>7. CASE FailStale
  <2>1. notice[p] = "rejected" => notice'[p] = "rejected"
    BY <1>0, <1>7 DEF FailStale, InDoubt
  <2> QED
    BY <1>7, <1>a, <2>1, HushKept DEF FailStale
<1>8. CASE OptOut
  BY <1>8, <1>b DEF OptOut
<1>9. CASE HalfDay
  <2>1. Calm(p) /\ \A s \in Schedulers : pc[s] \notin Sending
    BY <1>0, <1>9, <1>b DEF HalfDay, Calm, Rows, Sending
  <2>2. ChasesInHand = {} /\ nextAt >= due[p]
    BY <1>a, <2>1 DEF Hushed
  <2>3. UNCHANGED <<chase, nextAt, due>> /\ clock' \in Nat
    BY <1>0, <1>9 DEF HalfDay
  <2>4. ChasesInHand' = {} /\ nextAt' >= due'[p] /\ nextAt' > clock'
    BY <1>0, <1>b, <2>2, <2>3 DEF ChasesInHand
  <2> QED
    BY <2>4 DEF Hushed
<1>10. ASSUME NEW c \in Chasers, ChaseLoads(c) \/ ChaseAsks(c) \/ ChaseStep(c) PROVE FALSE
  <2>1. Calm(p)
    BY <1>10, <1>b, ChaseBounds DEF RestOfLedger, Calm, Rows
  <2>2. ChasesInHand = {} /\ nextAt > clock
    BY <1>a, <2>1 DEF Hushed
  <2> QED
    BY <1>0, <1>10, <2>2, ChaseIsInHand DEF ChaseLoads
<1>11. CASE UNCHANGED <<clock, cState, nextAt, status, due, notice, workVars, crashes, overtaken, chase>>
  BY <1>11, <1>a, HushKept
<1> QED
  BY <1>1, <1>2, <1>3, <1>4, <1>5, <1>6, <1>7, <1>8, <1>9, <1>10, <1>11
  DEF PromiseNext, LedgerStep, AskToPromise, Authorise

LEMMA SilenceInductive ==
  TypeInv /\ PageInv /\ SilenceInv /\ [PromiseNext]_promiseVars => SilenceInv'
  BY HushInductive, NoticeHeldInductive, RequestsHushedInductive DEF SilenceInv

\* The case does not fall due before the date of the customer's one promise when no chase was
\* in hand while it was recorded: recording it pushes the case past the date, its reminder
\* restores the silence it spent, and no chase takes the case up in between.
THEOREM SilenceIsKept == PromiseSpec => []SilenceKept
<1>1. PromiseInit => DebitInv /\ PageInv
  BY DEF PromiseInit, DebitInv, BlankRows, KeyAfterConsent, KeyBeforeBank, PagesAreDue,
     HolderKnows, OneHolder, Holding, Debiting, NoConsent, PageInv, OnlyUpWork, PagesHoldRows,
     PaidIsCharged
<1> QED
  BY <1>1, Typed, DebitInvInductive, PageInvInductive, SilenceStarts, SilenceInductive,
     SilenceFollows, PTL DEF PromiseSpec

-----------------------------------------------------------------------------
(* With payment plans, disputes and payments outside the gateway            *)

\* A step of Commitments is one of PromiseLedger, or an agreement's.
Agreement ==
  \/ \E s \in Schedulers : ReconcilePlans(s)
  \/ \E d1, d2 \in 0 .. LastDue : CreatePlan(d1, d2)
  \/ \E v \in {"upheld", "rejected"} : ResolveDispute(v)
  \/ \E full \in BOOLEAN : PayOutside(full)

LEMMA CommitSteps ==
  ASSUME [CommitNext]_commitVars
  PROVE  Agreement \/ ([PromiseNext]_promiseVars /\ UNCHANGED <<plan, instalments>>)
<1>1. CASE CommitNext
  <2>1. CASE LedgerStep /\ UNCHANGED agreementVars
    BY <2>1 DEF PromiseNext, agreementVars
  <2>2. CASE OpenDispute
    BY <2>2 DEF OpenDispute
  <2>3. CASE AskUndisputed
    BY <2>3 DEF AskUndisputed, PromiseNext, agreementVars
  <2> QED
    BY <1>1, <2>1, <2>2, <2>3 DEF CommitNext, RequestPlan, Agreement
<1>2. CASE UNCHANGED commitVars
  BY <1>2 DEF commitVars, agreementVars
<1> QED
  BY <1>1, <1>2

\* What a new plan does to the promises: two of them, undated before, now pending.
LEMMA PlanRows ==
  ASSUME TypeInv, NEW d1 \in 0 .. LastDue, NEW d2 \in 0 .. LastDue, CreatePlan(d1, d2)
  PROVE  \E p, q \in Promises \ Rows :
           /\ p # q /\ instalments' = {p, q}
           /\ status' = [status EXCEPT ![p] = "pending", ![q] = "pending"]
           /\ due' = [due EXCEPT ![p] = d1, ![q] = d2]
           /\ channel' = [channel EXCEPT ![p] = "payment_plan", ![q] = "payment_plan"]
           /\ PromiseRowsTypeOK'
<1>1. PICK p, q \in Promises \ Rows :
        /\ p < q /\ instalments' = {p, q}
        /\ status' = [status EXCEPT ![p] = "pending", ![q] = "pending"]
        /\ due' = [due EXCEPT ![p] = d1, ![q] = d2]
        /\ channel' = [channel EXCEPT ![p] = "payment_plan", ![q] = "payment_plan"]
  BY DEF CreatePlan
<1>2. p # q /\ p \in Promises /\ q \in Promises
  BY <1>1, PromisesArePositive
<1>3. d1 \in Never .. LastDue /\ d2 \in Never .. LastDue
  BY Constants DEF Never
<1>4. UNCHANGED <<mandate, chargedAt, reminded>>
  BY DEF CreatePlan
<1>5. PromiseRowsTypeOK'
  BY <1>1, <1>2, <1>3, <1>4 DEF TypeInv, PromiseTypeOK, PromiseRowsTypeOK, Statuses
<1> QED
  BY <1>1, <1>2, <1>5

LEMMA AgreementTyped == ASSUME TypeInv, Agreement PROVE TypeInv'
<1> USE DEF TypeInv, PromiseTypeOK
<1>1. ASSUME NEW s \in Schedulers, ReconcilePlans(s) PROVE TypeInv'
  <2>1. status' \in [Promises -> Statuses]
    BY <1>1 DEF ReconcilePlans, AfterDefault, Resolved, PromiseRowsTypeOK, Statuses
  <2>2. PromiseRowsTypeOK'
    BY <1>1, <2>1 DEF ReconcilePlans, PromiseRowsTypeOK
  <2>3. WorkTypeOK' /\ HandOnPage'
    BY <1>1 DEF ReconcilePlans, Stay, Goto, WorkTypeOK, Places, HandOnPage, InHand
  <2>4. RequestsAhead'
    BY <1>1 DEF ReconcilePlans, RequestsAhead
  <2> QED
    BY <1>1, <2>2, <2>3, <2>4, CaseKept, AttemptsKept, BankKept, EnvironmentKept, SessionsKept
    DEF ReconcilePlans
<1>2. ASSUME NEW d1 \in 0 .. LastDue, NEW d2 \in 0 .. LastDue, CreatePlan(d1, d2) PROVE TypeInv'
  <2>1. PromiseRowsTypeOK'
    BY <1>2, PlanRows
  <2>2. UNCHANGED <<up, clock, cState, used, level, booked, attemptRows, bankVars, workVars,
                    sessionVars, crashes>>
    BY <1>2 DEF CreatePlan
  <2>3. nextAt' \in Nat
    BY <1>2, Constants DEF CreatePlan, Later, CaseTypeOK
  <2>4. CaseTypeOK'
    BY <2>2, <2>3 DEF CaseTypeOK
  <2>5. HandOnPage' /\ RequestsAhead'
    BY <2>2 DEF HandOnPage, RequestsAhead
  <2> QED
    BY <2>1, <2>2, <2>4, <2>5, AttemptsKept, BankKept, WorkKept, EnvironmentKept, SessionsKept
<1>3. ASSUME \/ \E v \in {"upheld", "rejected"} : ResolveDispute(v)
             \/ \E full \in BOOLEAN : PayOutside(full)
      PROVE  TypeInv'
  <2>1. CaseTypeOK' /\ UNCHANGED <<used, level>>
    BY <1>3 DEF ResolveDispute, PayOutside, CaseTypeOK, CaseStates
  <2>2. UNCHANGED <<up, clock, promiseRows, attemptRows, bankVars, workVars, sessionVars, crashes>>
    BY <1>3 DEF ResolveDispute, PayOutside
  <2>3. HandOnPage' /\ RequestsAhead'
    BY <2>1, <2>2 DEF HandOnPage, RequestsAhead
  <2> QED
    BY <2>1, <2>2, <2>3, RowsKept, AttemptsKept, BankKept, WorkKept, EnvironmentKept, SessionsKept
<1> QED
  BY <1>1, <1>2, <1>3 DEF Agreement

\* No agreement touches a mandate, a debit or a page of promises: the debits' invariants
\* need only that no row disappears and none is broken.
LEMMA AgreementRows ==
  ASSUME TypeInv, Agreement
  PROVE  /\ UNCHANGED <<up, clock, mandate, chargedAt, debit, notice, asked, taken, page, job>>
         /\ \A s \in Schedulers : pc'[s] = pc[s] \/ (pc[s] = "remind" /\ pc'[s] = "idle")
         /\ \A p \in Promises : /\ status[p] # "none" => status'[p] # "none" /\ due'[p] = due[p]
                                /\ status'[p] = "none" => due'[p] = due[p]
                                /\ status'[p] = "broken" => status[p] = "broken"
<1> USE DEF TypeInv, PromiseTypeOK, PromiseRowsTypeOK, WorkTypeOK
<1>1. ASSUME NEW s \in Schedulers, ReconcilePlans(s)
      PROVE  /\ UNCHANGED <<up, clock, due, mandate, chargedAt, debit, notice, asked, taken, page, job>>
             /\ pc[s] = "remind" /\ pc' = [pc EXCEPT ![s] = "idle"]
             /\ status' \in {status, Resolved("cancelled")}
    BY <1>1 DEF ReconcilePlans, Stay, Goto, AfterDefault
<1>2. CASE \E s \in Schedulers : ReconcilePlans(s)
  BY <1>1, <1>2 DEF Resolved, Pending
<1>3. ASSUME NEW d1 \in 0 .. LastDue, NEW d2 \in 0 .. LastDue, CreatePlan(d1, d2)
      PROVE  /\ UNCHANGED <<up, clock, mandate, chargedAt, debit, notice, asked, taken, page, job, pc>>
             /\ \A p \in Promises : /\ status[p] # "none" => status'[p] # "none" /\ due'[p] = due[p]
                                    /\ status'[p] = "none" => due'[p] = due[p]
                                    /\ status'[p] = "broken" => status[p] = "broken"
  <2>1. UNCHANGED <<up, clock, mandate, chargedAt, debit, notice, asked, taken, page, job, pc>>
    BY <1>3 DEF CreatePlan
  <2>2. PICK p, q \in Promises \ Rows :
          /\ p # q /\ status' = [status EXCEPT ![p] = "pending", ![q] = "pending"]
          /\ due' = [due EXCEPT ![p] = d1, ![q] = d2]
    BY <1>3, PlanRows
  <2> QED
    BY <2>1, <2>2 DEF Rows
<1>4. CASE \/ \E v \in {"upheld", "rejected"} : ResolveDispute(v)
           \/ \E full \in BOOLEAN : PayOutside(full)
  BY <1>4 DEF ResolveDispute, PayOutside
<1> QED
  BY <1>2, <1>3, <1>4 DEF Agreement

LEMMA AgreementKeepsDebits ==
  ASSUME TypeInv, DebitInv, PageInv, Agreement
  PROVE  DebitInv' /\ PageInv'
<1> USE AgreementRows DEF TypeInv, PromiseTypeOK, WorkTypeOK, Holding, Debiting
<1>1. BlankRows' /\ KeyAfterConsent' /\ KeyBeforeBank'
  BY DEF DebitInv, BlankRows, KeyAfterConsent, KeyBeforeBank
<1>2. PagesAreDue'
  BY DEF DebitInv, PagesAreDue
<1>3. HolderKnows' /\ OneHolder'
  BY DEF DebitInv, HolderKnows, OneHolder
<1>4. PageInv'
  BY DEF PageInv, OnlyUpWork, PagesHoldRows, PaidIsCharged
<1> QED
  BY <1>1, <1>2, <1>3, <1>4 DEF DebitInv

LEMMA AgreementKeepsLone ==
  ASSUME TypeInv, LoneInv, Agreement
  PROVE  LoneInv'
<1> SUFFICES ASSUME Lone' PROVE (Unbroken /\ BreakingIsUnpaid /\ BrokenIsUnpaid)'
  BY DEF LoneInv
<1> USE AgreementRows DEF TypeInv, PromiseTypeOK, WorkTypeOK, Holding, Debiting
<1>1. Unbroken /\ BreakingIsUnpaid /\ BrokenIsUnpaid
  BY DEF LoneInv, Lone
<1>2. Unbroken'
  BY <1>1 DEF Unbroken
<1>3. BreakingIsUnpaid' /\ BrokenIsUnpaid'
  BY <1>1 DEF BreakingIsUnpaid, BrokenIsUnpaid, ChargedLongAgo
<1> QED
  BY <1>2, <1>3

LEMMA AgreementKeepsSilence ==
  ASSUME TypeInv, SilenceInv, Agreement
  PROVE  SilenceInv'
<1> USE DEF TypeInv, PromiseTypeOK, PromiseRowsTypeOK, WorkTypeOK
<1>1. NoticeHeld'
  BY AgreementRows DEF SilenceInv, NoticeHeld, Sending
<1>2. ASSUME NEW s \in Schedulers, ReconcilePlans(s) PROVE SilenceInv'
  <2>1. /\ UNCHANGED <<clock, cState, nextAt, due, notice, crashes, sessionVars, job>>
        /\ status' \in {status, AfterDefault} /\ pc[s] = "remind" /\ pc' = [pc EXCEPT ![s] = "idle"]
    BY <1>2 DEF ReconcilePlans, Stay, Goto
  <2>2. RequestsHushed'
    <3>1. Rows' = {} => Rows = {}
      BY <2>1 DEF AfterDefault, Resolved, Rows, Pending
    <3> QED
      BY <2>1, <3>1 DEF SilenceInv, RequestsHushed, ChasesInHand
  <2>3. ASSUME NEW p \in Promises, Calm(p)' PROVE Hushed(p)'
    <3>1. status' = status
      BY <2>1, <2>3 DEF AfterDefault, Resolved, Pending, Calm
    <3>2. \A t \in Schedulers : pc'[t] \in Sending <=> pc[t] \in Sending
      BY <2>1 DEF Sending
    <3>3. Calm(p) => Hushed(p)
      BY DEF SilenceInv
    <3> QED
      BY <2>1, <2>3, <3>1, <3>2, <3>3, HushKept
  <2> QED
    BY <1>1, <2>2, <2>3 DEF SilenceInv
<1>3. ASSUME NEW d1 \in 0 .. LastDue, NEW d2 \in 0 .. LastDue, CreatePlan(d1, d2) PROVE SilenceInv'
  <2>1. PICK q, r \in Promises \ Rows :
          q # r /\ status' = [status EXCEPT ![q] = "pending", ![r] = "pending"]
    BY <1>3, PlanRows
  <2>2. q \in Rows' /\ r \in Rows'
    BY <2>1 DEF Rows
  <2> QED
    BY <1>1, <2>1, <2>2 DEF SilenceInv, Calm, RequestsHushed
<1>4. ASSUME \/ \E v \in {"upheld", "rejected"} : ResolveDispute(v)
             \/ \E full \in BOOLEAN : PayOutside(full)
      PROVE  SilenceInv'
  <2>1. /\ UNCHANGED <<clock, nextAt, status, due, notice, crashes, sessionVars, workVars>>
        /\ cState' = "open" => cState = "open"
    BY <1>4 DEF ResolveDispute, PayOutside
  <2>2. RequestsHushed'
    BY <2>1 DEF SilenceInv, RequestsHushed, ChasesInHand, Rows
  <2>3. ASSUME NEW p \in Promises, Calm(p)' PROVE Hushed(p)'
    <3>1. Calm(p) => Hushed(p)
      BY DEF SilenceInv
    <3> QED
      BY <2>1, <2>3, <3>1, HushKept
  <2> QED
    BY <1>1, <2>2, <2>3 DEF SilenceInv
<1> QED
  BY <1>2, <1>3, <1>4 DEF Agreement

\* The instalments of a plan are promises on record.
PlanInv ==
  /\ plan \in {"none", "active", "defaulted", "completed"} /\ disputed \in BOOLEAN
  /\ \A p \in instalments : p \in Promises /\ status[p] # "none"
  /\ PlanVerdictFits

\* What is broken stays so, what was answered is never asked again, and a closed case
\* stays closed, and its books as they are.
LEMMA VerdictsStand ==
  ASSUME TypeInv, [PromiseNext]_promiseVars
  PROVE  /\ \A p \in Promises : /\ status[p] # "none" => status'[p] # "none"
                                /\ status[p] = "broken" => status'[p] = "broken"
                                /\ status[p] # "none" /\ status'[p] = "pending" => status[p] = "pending"
         /\ cState # "open" => cState' # "open" /\ booked' = booked
<1> USE DEF TypeInv, PromiseTypeOK, PromiseRowsTypeOK
<1> DEFINE Stand == \A p \in Promises :
              /\ status[p] # "none" => status'[p] # "none"
              /\ status[p] = "broken" => status'[p] = "broken"
              /\ status[p] # "none" /\ status'[p] = "pending" => status[p] = "pending"
           CaseStands == cState # "open" => cState' # "open" /\ booked' = booked
<1>1. ASSUME NEW s \in Schedulers, SweepStep(s) PROVE Stand /\ CaseStands
  <2>1. UNCHANGED <<cState, booked>>
    BY <1>1 DEF SweepStep, TickBegins, ConfirmMandates, TakeDebit, TakeNotice, Take, ClaimDebit,
       CreateOrder, PresentDebit, BookDebit, SelectExpired, BreakExpired, ClaimNotice, SendNotice,
       RestoreSilence
  <2>2. \/ UNCHANGED status
        \/ status' = [p \in Promises |-> IF p \in page[s] THEN "broken" ELSE status[p]]
    BY <1>1 DEF SweepStep, TickBegins, ConfirmMandates, TakeDebit, TakeNotice, Take, ClaimDebit,
       CreateOrder, PresentDebit, BookDebit, SelectExpired, BreakExpired, ClaimNotice, SendNotice,
       RestoreSilence
  <2> QED
    BY <2>1, <2>2
<1>2. ASSUME NEW f \in Surfaces, NEW auto \in BOOLEAN, RecordPromise(f, auto)
      PROVE  Stand /\ CaseStands
  BY <1>2 DEF RecordPromise, Rows
<1>3. ASSUME NEW p \in Promises, DebitLands(p) PROVE Stand /\ CaseStands
  BY <1>3 DEF DebitLands, Attributed, Resolved, Pending
<1>4. ASSUME NEW full \in BOOLEAN, CustomerPays(full) PROVE Stand /\ CaseStands
  BY <1>4 DEF CustomerPays, Attributed, Resolved, Pending
<1>5. CASE OptOut
  BY <1>5 DEF OptOut, Resolved, Pending
<1>6. CASE UNCHANGED <<cState, booked, status>>
  BY <1>6
<1>7. ASSUME NEW c \in Chasers, ChaseLoads(c) \/ ChaseAsks(c) \/ ChaseStep(c)
      PROVE  Stand /\ CaseStands
  BY <1>7, ChaseBounds DEF RestOfLedger
<1> QED
  BY <1>1, <1>2, <1>3, <1>4, <1>5, <1>6, <1>7
  DEF PromiseNext, LedgerStep, SchedulerDies, TickEnds, AskToPromise, Authorise, FailStale, HalfDay

LEMMA PlanInvInductive == TypeInv /\ PlanInv /\ [CommitNext]_commitVars => PlanInv'
<1> SUFFICES ASSUME TypeInv, PlanInv, [CommitNext]_commitVars PROVE PlanInv'
  OBVIOUS
<1> USE DEF PlanVerdictFits, Instalment
<1>0. disputed' \in BOOLEAN
  BY DEF PlanInv, CommitNext, OpenDispute, ResolveDispute, ReconcilePlans, RequestPlan, CreatePlan,
     PayOutside, AskUndisputed, commitVars, agreementVars
<1>1. CASE [PromiseNext]_promiseVars /\ UNCHANGED <<plan, instalments>>
  BY <1>0, <1>1, VerdictsStand DEF PlanInv
<1>2. ASSUME NEW s \in Schedulers, ReconcilePlans(s) PROVE PlanInv'
  <2>0. /\ UNCHANGED <<cState, booked, instalments>> /\ status \in [Promises -> Statuses]
        /\ instalments \subseteq Promises
    BY <1>2 DEF ReconcilePlans, TypeInv, PromiseTypeOK, PromiseRowsTypeOK, PlanInv
  <2>1. CASE plan' = "defaulted" /\ status' = AfterDefault /\ Defaulted
    <3>1. \A p \in instalments : status'[p] # "none" /\ (status[p] = "broken" => status'[p] = "broken")
      BY <2>0, <2>1 DEF AfterDefault, Resolved, Pending, PlanInv
    <3>2. cState = "open" => \A p \in instalments : status'[p] # "pending"
      BY <2>0, <2>1 DEF AfterDefault, Resolved, Pending
    <3> QED
      BY <1>0, <2>0, <2>1, <3>1, <3>2 DEF PlanInv, Defaulted
  <2>2. CASE plan' = "completed" /\ status' = status /\ Complete
    BY <1>0, <2>0, <2>2 DEF PlanInv, Complete
  <2>3. CASE UNCHANGED <<plan, status>>
    BY <1>0, <2>0, <2>3 DEF PlanInv
  <2> QED
    BY <1>2, <2>1, <2>2, <2>3 DEF ReconcilePlans
<1>3. ASSUME NEW d1 \in 0 .. LastDue, NEW d2 \in 0 .. LastDue, CreatePlan(d1, d2) PROVE PlanInv'
  <2>1. PICK p, q \in Promises \ Rows :
          instalments' = {p, q} /\ status' = [status EXCEPT ![p] = "pending", ![q] = "pending"]
    BY <1>3, PlanRows
  <2>2. plan' = "active"
    BY <1>3 DEF CreatePlan
  <2>3. \A r \in instalments' : r \in Promises /\ status'[r] # "none"
    BY <2>1 DEF TypeInv, PromiseTypeOK, PromiseRowsTypeOK
  <2> QED
    BY <1>0, <2>2, <2>3 DEF PlanInv
<1>4. CASE \/ \E v \in {"upheld", "rejected"} : ResolveDispute(v)
           \/ \E full \in BOOLEAN : PayOutside(full)
  <2>1. /\ UNCHANGED <<status, plan, instalments>>
        /\ cState # "open" => cState' # "open" /\ booked' = booked
    BY <1>4 DEF ResolveDispute, PayOutside
  <2> QED
    BY <1>0, <2>1 DEF PlanInv
<1> QED
  BY <1>1, <1>2, <1>3, <1>4, CommitSteps DEF Agreement

AgreedInv == TypeInv /\ DebitInv /\ PageInv /\ LoneInv /\ SilenceInv /\ PlanInv

LEMMA AgreedInvHolds == CommitSpec => []AgreedInv
<1>1. CommitInit => AgreedInv
  <2> SUFFICES ASSUME CommitInit PROVE AgreedInv
    OBVIOUS
  <2>1. TypeInv
    BY TypeInvStarts DEF CommitInit
  <2>2. DebitInv /\ PageInv /\ LoneInv
    BY DEF CommitInit, PromiseInit, DebitInv, BlankRows, KeyAfterConsent, KeyBeforeBank,
       PagesAreDue, HolderKnows, OneHolder, Holding, Debiting, NoConsent, PageInv, OnlyUpWork,
       PagesHoldRows, PaidIsCharged, LoneInv, Unbroken, BreakingIsUnpaid, BrokenIsUnpaid
  <2>3. PlanInv
    BY DEF CommitInit, PlanInv, PlanVerdictFits
  <2>4. SilenceInv
    BY SilenceStarts DEF CommitInit
  <2> QED
    BY <2>1, <2>2, <2>3, <2>4 DEF AgreedInv
<1>2. AgreedInv /\ [CommitNext]_commitVars => AgreedInv'
  <2> SUFFICES ASSUME AgreedInv, [CommitNext]_commitVars PROVE AgreedInv'
    OBVIOUS
  <2>1. CASE [PromiseNext]_promiseVars
    BY <2>1, TypeInvInductive, DebitInvInductive, PageInvInductive, LoneInvInductive,
       SilenceInductive, PlanInvInductive DEF AgreedInv
  <2>2. CASE Agreement
    BY <2>2, AgreementTyped, AgreementKeepsDebits, AgreementKeepsLone, AgreementKeepsSilence,
       PlanInvInductive DEF AgreedInv
  <2> QED
    BY <2>1, <2>2, CommitSteps
<1> QED
  BY <1>1, <1>2, PTL DEF CommitSpec

\* Every state of the composition has the declared types.
THEOREM AgreementsTypeCorrect == CommitSpec => []CommitTypeOK
<1>1. AgreedInv => CommitTypeOK
  BY DEF AgreedInv, TypeInv, PlanInv, CommitTypeOK, Rows
<1> QED
  BY <1>1, AgreedInvHolds, PTL

\* PlanVerdictFits: a plan that defaulted has a broken instalment and none left to collect
\* from an open case, one that completed has all of them answered and its case closed, paid in full,
\* whatever the promise sweeps, captures and disputes do afterwards.
THEOREM PlanVerdictStands == CommitSpec => []PlanVerdictFits
  BY AgreedInvHolds, PTL DEF AgreedInv, PlanInv

\* Both promises to the customer hold with plans, disputes and payments outside the
\* gateway as well, the second as SilenceIsKept states it: a plan's instalments are
\* promises to these sweeps.
THEOREM AgreementsKeepPromises == CommitSpec => [](BrokenWasUnpaid /\ SilenceKept)
<1>1. AgreedInv => BrokenWasUnpaid /\ SilenceKept
  BY OneIsLone, SilenceFollows
  DEF AgreedInv, LoneInv, BrokenIsUnpaid, ChargedLongAgo, BrokenWasUnpaid
<1> QED
  BY <1>1, AgreedInvHolds, PTL
=============================================================================
