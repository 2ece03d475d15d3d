-------------------------- MODULE CaptureAttribution --------------------------
(****************************************************************************)
(* How money finds its case: cases.attribute_capture for payments that pass *)
(* through the gateway, and receivables.record_external_payment for those   *)
(* that do not (NEFT, cheque, cash).                                        *)
(*                                                                          *)
(* A worker reads the case in its session and writes absolute values back   *)
(* in its commit; between the two, other sessions may commit.  Nothing here *)
(* locks the case.  Only columns the worker has set are written.            *)
(****************************************************************************)
EXTENDS Integers, FiniteSets, FiniteSetsExt

CONSTANTS
  Cases,        \* recovery cases
  Payments,     \* payment ids (a bank reference is one too)
  CaptureWorkers, \* sessions crediting money at the same time
  AtRisk,       \* recovery_cases.amount_at_risk
  OpenedAt,     \* recovery_cases.opened_at, as a rank
  Amount,       \* the amount a capture carries; the sender may put in anything
  BankPayments, \* payments an operator records; the operator names the case
  Ours,         \* the case of the attempt a link id, idempotency key or mandate
                \* order leads to
  OrderCases,   \* the cases whose failed payment has the capture's order id
  Noted,        \* the case the merchant's notes name
  NoCase, NoPayment,
  MaxDeliveries \* bound: times one payment is handed to a worker

CaseOrNone == Cases \cup {NoCase}

ASSUME CaptureAssumption ==
  /\ NoCase \notin Cases /\ NoPayment \notin Payments
  /\ BankPayments \subseteq Payments /\ MaxDeliveries \in Nat
  /\ AtRisk \in [Cases -> Nat \ {0}] /\ OpenedAt \in [Cases -> Nat]
  /\ Amount \in [Payments -> Int]
  /\ Ours \in [Payments -> CaseOrNone] /\ Noted \in [Payments -> CaseOrNone]
  /\ OrderCases \in [Payments -> SUBSET Cases]
  /\ \A p \in Payments : IsFiniteSet(OrderCases[p])

VARIABLES
  state,      \* recovery_cases.state; "closed" is any other terminal state
  recovered,  \* recovery_cases.amount_recovered
  refs,       \* recovery_cases.credited_refs
  lastRef,    \* recovery_cases.recovered_ref
  ours,       \* recovered_via_attempt_id is set
  credited,   \* case_events: payments with an attributed or reconciled event
  overpaid,   \* case_events: overpayment events, per case and payment
  delivered,  \* times each payment was handed to a worker
  job,        \* the payment a worker is on
  found,      \* the case it resolved to
  caseCopy    \* the worker's session copy of that case

caseVars  == <<state, recovered, refs, lastRef, ours>>
trailVars == <<credited, overpaid>>
workVars  == <<job, found, caseCopy>>
captureVars == <<caseVars, trailVars, delivered, workVars>>

States == {"open", "recovered", "closed"}
Copies == [state : States, recovered : Nat, refs : SUBSET Payments,
           lastRef : Payments \cup {NoPayment}, ours : BOOLEAN]

CaptureTypeOK ==
  /\ state \in [Cases -> States] /\ recovered \in [Cases -> Nat]
  /\ refs \in [Cases -> SUBSET Payments]
  /\ lastRef \in [Cases -> Payments \cup {NoPayment}] /\ ours \in [Cases -> BOOLEAN]
  /\ credited \in [Cases -> SUBSET Payments]
  /\ overpaid \in [Cases -> [Payments -> Nat]]
  /\ delivered \in [Payments -> 0 .. MaxDeliveries]
  /\ job \in [CaptureWorkers -> Payments \cup {NoPayment}]
  /\ found \in [CaptureWorkers -> CaseOrNone] /\ caseCopy \in [CaptureWorkers -> Copies]

-----------------------------------------------------------------------------
(* Resolution: which case a capture belongs to                              *)

OpenOf(cs) == {c \in cs : state[c] = "open"}

\* _find_case_by_order: the newest open case among the order's.
NewestOpen(cs) ==
  CHOOSE c \in OpenOf(cs) : \A d \in OpenOf(cs) : OpenedAt[d] <= OpenedAt[c]

\* Most specific first.  An attempt of ours leads to its case in any state; the
\* two self-recovery paths see open cases only.
Resolve(p) ==
  IF Ours[p] # NoCase THEN Ours[p]
  ELSE IF OpenOf(OrderCases[p]) # {} THEN NewestOpen(OrderCases[p])
  ELSE IF Noted[p] \in OpenOf(Cases) THEN Noted[p]
  ELSE NoCase

\* Variant: any integer is an amount.
ValidAmountAnyInt(p) == Amount[p] # 0

ValidAmount(p) == Amount[p] > 0

CaseRow(c) ==
  [state |-> state[c], recovered |-> recovered[c], refs |-> refs[c],
   lastRef |-> lastRef[c], ours |-> ours[c]]

NoCopy ==
  [state |-> "open", recovered |-> 0, refs |-> {}, lastRef |-> NoPayment, ours |-> FALSE]

Done(w) ==
  /\ job' = [job EXCEPT ![w] = NoPayment]
  /\ found' = [found EXCEPT ![w] = NoCase]
  /\ caseCopy' = [caseCopy EXCEPT ![w] = NoCopy]

\* A capture reaches a worker (a redelivery, the reconcile sweep and the
\* background task may each bring the same one), which loads the case.
Load(w, p) ==
  /\ job[w] = NoPayment /\ delivered[p] < MaxDeliveries
  /\ ValidAmount(p) /\ Resolve(p) # NoCase
  /\ delivered' = [delivered EXCEPT ![p] = @ + 1]
  /\ job' = [job EXCEPT ![w] = p]
  /\ found' = [found EXCEPT ![w] = Resolve(p)]
  /\ caseCopy' = [caseCopy EXCEPT ![w] = CaseRow(Resolve(p))]
  /\ UNCHANGED <<caseVars, trailVars>>

\* No positive amount, or no case of ours: nothing happens.
Dismiss(w, p) ==
  /\ job[w] = NoPayment /\ delivered[p] < MaxDeliveries
  /\ ~ValidAmount(p) \/ Resolve(p) = NoCase
  /\ delivered' = [delivered EXCEPT ![p] = @ + 1]
  /\ UNCHANGED <<caseVars, trailVars, workVars>>

-----------------------------------------------------------------------------
(* attribute_capture on the worker's copy                                   *)

\* Variant: only the latest payment id is remembered.
SeenBeforeLatest(w) == job[w] = caseCopy[w].lastRef

SeenBefore(w) == job[w] \in caseCopy[w].refs \/ job[w] = caseCopy[w].lastRef

\* The same payment, credited to this case already.
RefuseReplay(w) ==
  /\ job[w] \in Payments \ BankPayments /\ SeenBefore(w)
  /\ Done(w)
  /\ UNCHANGED <<caseVars, trailVars, delivered>>

\* Money for a case that is over: logged for a manual refund.
LogOverpayment(w) ==
  /\ job[w] \in Payments \ BankPayments /\ ~SeenBefore(w) /\ caseCopy[w].state # "open"
  /\ overpaid' = [overpaid EXCEPT ![found[w]][job[w]] = @ + 1]
  /\ Done(w)
  /\ UNCHANGED <<caseVars, credited, delivered>>

Settles(c, total) == total >= AtRisk[c]

\* An attempt of ours led to the money; the two self-recovery paths drop it.
EarnedByUs(p) == Ours[p] # NoCase

Credit(w) ==
  LET p == job[w]  c == found[w]  total == caseCopy[w].recovered + Amount[p] IN
  /\ p \in Payments \ BankPayments /\ ~SeenBefore(w) /\ caseCopy[w].state = "open"
  /\ recovered' = [recovered EXCEPT ![c] = total]
  /\ lastRef' = [lastRef EXCEPT ![c] = p]
  /\ refs' = [refs EXCEPT ![c] = caseCopy[w].refs \cup {p}]
  /\ \E claims \in BOOLEAN : \* FALSE when the copy names this very attempt already
       /\ claims => EarnedByUs(p)
       /\ EarnedByUs(p) => claims \/ caseCopy[w].ours
       /\ ours' = [ours EXCEPT ![c] = @ \/ claims]
  /\ state' = IF Settles(c, total) THEN [state EXCEPT ![c] = "recovered"] ELSE state
  /\ credited' = [credited EXCEPT ![c] = @ \cup {p}]
  /\ Done(w)
  /\ UNCHANGED <<overpaid, delivered>>

-----------------------------------------------------------------------------
(* record_external_payment on the worker's copy                             *)

\* The reference is on record, or the case is over.
RefuseExternal(w) ==
  /\ job[w] \in BankPayments
  /\ job[w] = caseCopy[w].lastRef \/ caseCopy[w].state # "open"
  /\ Done(w)
  /\ UNCHANGED <<caseVars, trailVars, delivered>>

\* An external payment closes the case, whatever its amount, and its reference
\* does not join credited_refs.  The claim is cleared, if the copy has one.
RecordExternal(w) ==
  LET p == job[w]  c == found[w] IN
  /\ p \in BankPayments /\ p # caseCopy[w].lastRef /\ caseCopy[w].state = "open"
  /\ recovered' = [recovered EXCEPT ![c] = caseCopy[w].recovered + Amount[p]]
  /\ ours' = [ours EXCEPT ![c] = @ /\ ~caseCopy[w].ours]
  /\ lastRef' = [lastRef EXCEPT ![c] = p]
  /\ state' = [state EXCEPT ![c] = "recovered"]
  /\ credited' = [credited EXCEPT ![c] = @ \cup {p}]
  /\ Done(w)
  /\ UNCHANGED <<refs, overpaid, delivered>>

\* Any other end of the case: spent budget, consent window, opt-out.
CloseOtherwise(c) ==
  /\ state[c] = "open"
  /\ state' = [state EXCEPT ![c] = "closed"]
  /\ UNCHANGED <<recovered, refs, lastRef, ours, trailVars, delivered, workVars>>

-----------------------------------------------------------------------------
CaptureInit ==
  /\ state = [c \in Cases |-> "open"] /\ recovered = [c \in Cases |-> 0]
  /\ refs = [c \in Cases |-> {}] /\ lastRef = [c \in Cases |-> NoPayment]
  /\ ours = [c \in Cases |-> FALSE] /\ credited = [c \in Cases |-> {}]
  /\ overpaid = [c \in Cases |-> [p \in Payments |-> 0]]
  /\ delivered = [p \in Payments |-> 0]
  /\ job = [w \in CaptureWorkers |-> NoPayment] /\ found = [w \in CaptureWorkers |-> NoCase]
  /\ caseCopy = [w \in CaptureWorkers |-> NoCopy]

Attribute(w) == RefuseReplay(w) \/ LogOverpayment(w) \/ Credit(w)

External(w) == RefuseExternal(w) \/ RecordExternal(w)

CaptureNext ==
  \/ \E w \in CaptureWorkers :
       \/ \E p \in Payments : Load(w, p) \/ Dismiss(w, p)
       \/ Attribute(w) \/ External(w)
  \/ \E c \in Cases : CloseOtherwise(c)

CaptureSpec == CaptureInit /\ [][CaptureNext]_captureVars

-----------------------------------------------------------------------------
(* Properties                                                               *)

\* The books and the audit trail agree: the amount recovered on a case is the
\* sum of the payments its trail says were credited, each counted once.
BooksMatchTrail ==
  \A c \in Cases :
    recovered[c] = MapThenSumSet(LAMBDA p : Amount[p], credited[c])

\* A case that ended as recovered was paid in full, or an operator said so.
RecoveredMeansPaid ==
  \A c \in Cases :
    state[c] = "recovered" =>
      recovered[c] >= AtRisk[c] \/ credited[c] \cap BankPayments # {}

\* The engine claims the money only if an attempt of its own led to some of it.
ClaimIsEarned ==
  \A c \in Cases : ours[c] => \E p \in credited[c] : Ours[p] = c

\* A manual refund is called for only when the case is over, and never for money
\* the case was credited with: a replay is not an overpayment.
RefundsAreDue ==
  \A c \in Cases, p \in Payments :
    overpaid[c][p] > 0 => state[c] # "open" /\ p \notin credited[c]

\* The books of every case: what is credited is what is on the trail, a case ends as
\* recovered when it is paid, the engine claims what it earned, and a refund is due for
\* money no case was credited with.
BooksInOrder == BooksMatchTrail /\ RecoveredMeansPaid /\ ClaimIsEarned /\ RefundsAreDue
=============================================================================
