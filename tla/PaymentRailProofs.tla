-------------------------- MODULE PaymentRailProofs --------------------------
(****************************************************************************)
(* Proofs about PaymentRail, for any number of failure events, any finite   *)
(* number of presses of the pay button, any budget and page size and any    *)
(* crashes: its types, the budget of the links, and the customer's way to   *)
(* pay while an open case's older links are killed. Then the types of its   *)
(* composition with the agreements of Commitments.                          *)
(****************************************************************************)
EXTENDS MCCommitments, PromiseLedgerProofs, SequenceTheorems

LEMMA RailConstants ==
  /\ RetryLimit \in Nat \ {0} /\ LinkPage \in Nat \ {0} /\ MaxRailRows \in Nat
  /\ MaxDeadSessions \in Nat /\ IsFiniteSet(Taps) /\ Webhooks \cap Taps = {}
  /\ Scheduler \notin Webhooks /\ Scheduler \notin Taps
  /\ Webhooks \subseteq Sessions /\ Taps \subseteq Sessions /\ Scheduler \in Sessions
  BY PaymentAssumption DEF Sessions

-----------------------------------------------------------------------------
(* The rows                                                                 *)

KeyShape == {"retry", "selfserve"} \X (0 .. MaxRailRows)

LEMMA RowsTyped ==
  ASSUME rows \in Seq(RowShape)
  PROVE  /\ Len(rows) \in Nat /\ DOMAIN rows = 1 .. Len(rows)
         /\ \A n \in DOMAIN rows : rows[n] \in RowShape
  BY LenProperties, ElementOfSeq

\* One row is written.
LEMMA RowWritten ==
  ASSUME rows \in Seq(RowShape), NEW n \in DOMAIN rows, NEW new \in RowShape,
         rows' = [rows EXCEPT ![n] = new]
  PROVE  /\ rows' \in Seq(RowShape) /\ Len(rows') = Len(rows) /\ DOMAIN rows' = DOMAIN rows
         /\ rows'[n] = new /\ \A m \in DOMAIN rows : m # n => rows'[m] = rows[m]
<1>1. n \in 1 .. Len(rows)
  BY RowsTyped
<1>2. /\ rows' \in Seq(RowShape) /\ Len(rows') = Len(rows)
      /\ \A j \in 1 .. Len(rows) : rows'[j] = IF j = n THEN new ELSE rows[j]
  BY <1>1, ExceptSeq
<1>3. DOMAIN rows' = 1 .. Len(rows') /\ DOMAIN rows = 1 .. Len(rows)
  BY <1>2, LenProperties
<1> QED
  BY <1>1, <1>2, <1>3

\* A row is added.
LEMMA RowAdded ==
  ASSUME rows \in Seq(RowShape), NEW new \in RowShape, rows' = Append(rows, new)
  PROVE  /\ rows' \in Seq(RowShape) /\ Len(rows') = Len(rows) + 1
         /\ DOMAIN rows' = DOMAIN rows \cup {Len(rows) + 1}
         /\ Len(rows) + 1 \notin DOMAIN rows
         /\ rows'[Len(rows) + 1] = new /\ \A m \in DOMAIN rows : rows'[m] = rows[m]
<1>1. Len(rows) \in Nat /\ DOMAIN rows = 1 .. Len(rows)
  BY RowsTyped
<1>2. rows' \in Seq(RowShape) /\ Len(rows') = Len(rows) + 1
  OBVIOUS
<1>3. DOMAIN rows' = 1 .. (Len(rows) + 1)
  BY <1>2, LenProperties
<1>4. rows'[Len(rows) + 1] = new /\ \A m \in 1 .. Len(rows) : rows'[m] = rows[m]
  BY <1>1
<1> QED
  BY <1>1, <1>2, <1>3, <1>4

\* All of them are written.
LEMMA RowsRewritten ==
  ASSUME rows \in Seq(RowShape), NEW f \in [DOMAIN rows -> RowShape], rows' = f
  PROVE  rows' \in Seq(RowShape) /\ Len(rows') = Len(rows) /\ DOMAIN rows' = DOMAIN rows
<1>1. Len(rows) \in Nat /\ DOMAIN rows = 1 .. Len(rows)
  BY RowsTyped
<1>2. rows' \in [1 .. Len(rows) -> RowShape]
  BY <1>1
<1>3. rows' \in Seq(RowShape)
  BY <1>1, <1>2, SeqDef
<1>4. DOMAIN rows' = 1 .. Len(rows') /\ Len(rows') \in Nat /\ DOMAIN rows' = 1 .. Len(rows)
  BY <1>2, <1>3, LenProperties
<1>5. Len(rows') = Len(rows)
  BY <1>1, <1>4
<1> QED
  BY <1>1, <1>3, <1>4, <1>5

-----------------------------------------------------------------------------
(* The invariant                                                            *)

\* Sessions that have a row in hand, and presses that have had their turn.
Engaged(s) == place[s] \in {"claimed", "calling", "answered"}
Pressed == {t \in Taps : place[t] \in {"calling", "answered", "done"}}
SelfServed == {n \in DOMAIN rows : rows[n].key[1] = "selfserve"}

\* A row that may bear a link: a press made it, or a decision within the budget.
Charged(key) == key[1] = "selfserve" \/ key[2] < RetryLimit

RailShape ==
  PayTypeOK /\ \A s \in Sessions : snap[s].used <= Len(rows)

KeysUnique == \A m, n \in DOMAIN rows : rows[m].key = rows[n].key => m = n
SelfCounted ==
  /\ IsFiniteSet(SelfServed) /\ IsFiniteSet(Pressed)
  /\ Cardinality(SelfServed) <= Cardinality(Pressed)

\* What can still reach the gateway may bear a link.
RowsCharged ==
  \A n \in DOMAIN rows :
    /\ rows[n].result \in {"scheduled"} \cup InFlight \/ rows[n].link # "none"
         => Charged(rows[n].key)
    /\ rows[n].result \in {"scheduled", "claimed"} => ~rows[n].known

\* A session's row is its own, until it is recorded.
BusyRow(s) ==
  /\ on[s] \in DOMAIN rows
  /\ Charged(rows[on[s]].key) /\ rows[on[s]].result # "scheduled" /\ ~rows[on[s]].known
  /\ place[s] = "answered" /\ minted[s] => rows[on[s]].link \in {"live", "paid"}
RowInHand ==
  /\ \A s \in Sessions : Engaged(s) => BusyRow(s)
  /\ \A s, t \in Sessions : Engaged(s) /\ Engaged(t) /\ on[s] = on[t] => s = t

\* The newest link on record can be paid, or is, while the case is open.
Newest(m) == m \in Known /\ \A n \in Known : n <= m
NewestPayable ==
  railState = "open" /\ Known # {} =>
    \E m \in DOMAIN rows : Newest(m) /\ rows[m].link \in {"live", "paid"}

RailInv ==
  /\ RailShape /\ KeysUnique /\ SelfCounted /\ RowsCharged /\ RowInHand /\ NewestPayable

\* The budget follows: the links of decisions are numbered below the limit, those of
\* presses are no more than the presses.
LEMMA BudgetKept == ASSUME RailInv PROVE LinksWithinBudget
<1> DEFINE Linked == {n \in DOMAIN rows : rows[n].link # "none"}
           ByEngine == {n \in Linked : rows[n].key[1] = "retry"}
           number == [n \in ByEngine |-> rows[n].key[2]]
<1>0. /\ \A n \in DOMAIN rows : rows[n] \in RowShape /\ rows[n].key \in KeyShape
      /\ RetryLimit \in Nat /\ IsFiniteSet(Taps)
  BY RowsTyped, RailConstants DEF RailInv, RailShape, PayTypeOK, RowShape, KeyShape
<1>1. Linked = ByEngine \cup (Linked \cap SelfServed)
  BY <1>0 DEF SelfServed, KeyShape
<1>2. number \in Injection(ByEngine, 0 .. (RetryLimit - 1))
  <2>1. ASSUME NEW n \in ByEngine PROVE rows[n].key[2] \in 0 .. (RetryLimit - 1)
    <3>1. rows[n].key \in KeyShape /\ Charged(rows[n].key) /\ rows[n].key[1] = "retry"
      BY <1>0 DEF RailInv, RowsCharged
    <3> QED
      BY <1>0, <3>1, RailConstants DEF KeyShape, Charged
  <2>2. ASSUME NEW m \in ByEngine, NEW n \in ByEngine, rows[m].key[2] = rows[n].key[2]
        PROVE  m = n
    <3>1. rows[m].key \in KeyShape /\ rows[n].key \in KeyShape
      BY <1>0
    <3>2. rows[m].key = rows[n].key
      BY <2>2, <3>1 DEF KeyShape
    <3> QED
      BY <3>2 DEF RailInv, KeysUnique
  <2> QED
    BY <2>1, <2>2 DEF Injection, IsInjective
<1>3. IsFiniteSet(0 .. (RetryLimit - 1)) /\ Cardinality(0 .. (RetryLimit - 1)) = RetryLimit
  BY <1>0, RailConstants, FS_Interval
<1> HIDE DEF number, ByEngine, Linked
<1>4. IsFiniteSet(ByEngine) /\ Cardinality(ByEngine) <= RetryLimit
  BY <1>2, <1>3, FS_Injection
<1>5. IsFiniteSet(SelfServed) /\ Cardinality(SelfServed) <= Cardinality(Taps)
  <2>1. Pressed \subseteq Taps
    BY DEF Pressed
  <2>2. Cardinality(Pressed) <= Cardinality(Taps)
    BY <1>0, <2>1, FS_Subset
  <2>3. IsFiniteSet(SelfServed) /\ IsFiniteSet(Pressed) /\ Cardinality(SelfServed) <= Cardinality(Pressed)
    BY DEF RailInv, SelfCounted
  <2>4. Cardinality(SelfServed) \in Nat /\ Cardinality(Pressed) \in Nat /\ Cardinality(Taps) \in Nat
    BY <1>0, <2>3, FS_CardinalityType
  <2> QED
    BY <2>2, <2>3, <2>4
<1> DEFINE BySelf == Linked \cap SelfServed
<1>6. IsFiniteSet(BySelf) /\ Cardinality(BySelf) <= Cardinality(SelfServed)
  BY <1>5, FS_Subset
<1> HIDE DEF BySelf
<1>7. Cardinality(ByEngine \cup BySelf) <= Cardinality(ByEngine) + Cardinality(BySelf)
  <2>1. /\ Cardinality(ByEngine \cup BySelf) =
             Cardinality(ByEngine) + Cardinality(BySelf) - Cardinality(ByEngine \cap BySelf)
    BY <1>4, <1>6, FS_Union
  <2>2. IsFiniteSet(ByEngine \cap BySelf)
    BY <1>4, FS_Subset
  <2>3. /\ Cardinality(ByEngine) \in Nat /\ Cardinality(BySelf) \in Nat
        /\ Cardinality(ByEngine \cap BySelf) \in Nat
    BY <1>4, <1>6, <2>2, FS_CardinalityType
  <2> QED
    BY <2>1, <2>3
<1>8. /\ Cardinality(ByEngine) \in Nat /\ Cardinality(BySelf) \in Nat
      /\ Cardinality(SelfServed) \in Nat /\ Cardinality(Taps) \in Nat
      /\ Cardinality(ByEngine \cup BySelf) \in Nat
  <2>1. IsFiniteSet(ByEngine \cup BySelf)
    BY <1>4, <1>6, FS_Union
  <2> QED
    BY <1>0, <1>4, <1>5, <1>6, <2>1, FS_CardinalityType
<1>9. Cardinality(Linked) <= RetryLimit + Cardinality(Taps)
  <2>1. Cardinality(Linked) = Cardinality(ByEngine \cup BySelf)
    BY <1>1 DEF BySelf
  <2> QED
    BY <1>0, <1>4, <1>5, <1>6, <1>7, <1>8, <2>1
<1> QED
  BY <1>9 DEF Linked, LinksWithinBudget

-----------------------------------------------------------------------------
(* Sessions that move, rows that stay                                       *)

SessShape ==
  /\ place \in [Sessions -> SessionPlaces] /\ num \in [Sessions -> 0 .. MaxRailRows]
  /\ snap \in [Sessions -> [state : {"open"} \cup Closed, used : 0 .. MaxRailRows]]
  /\ on \in [Sessions -> 0 .. MaxRailRows] /\ minted \in [Sessions -> BOOLEAN]
  /\ \A s \in Sessions : snap[s].used <= Len(rows)

\* Session t is where it was, on the row it was on.
Same(t) == place'[t] = place[t] /\ on'[t] = on[t] /\ minted'[t] = minted[t]

LEMMA ShapeParts ==
  /\ RailShape <=>
       /\ SessShape /\ railState \in {"open"} \cup Closed /\ railUsed \in 0 .. Len(rows)
       /\ waiting \in BOOLEAN /\ optedOut \in BOOLEAN /\ rows \in Seq(RowShape)
       /\ Len(rows) <= MaxRailRows /\ captured \subseteq DOMAIN rows
       /\ deadSessions \in 0 .. MaxDeadSessions
  /\ RailShape' <=>
       /\ SessShape' /\ railState' \in {"open"} \cup Closed /\ railUsed' \in 0 .. Len(rows')
       /\ waiting' \in BOOLEAN /\ optedOut' \in BOOLEAN /\ rows' \in Seq(RowShape)
       /\ Len(rows') <= MaxRailRows /\ captured' \subseteq DOMAIN rows'
       /\ deadSessions' \in 0 .. MaxDeadSessions
  BY DEF RailShape, SessShape, PayTypeOK

LEMMA LeaveMoves ==
  ASSUME SessShape, NEW s \in Sessions, Leave(s), Len(rows') \in Nat, Len(rows) <= Len(rows'),
         Len(rows) \in Nat
  PROVE  /\ SessShape' /\ place'[s] \in {"new", "done"} /\ (s \in Taps => place'[s] = "done")
         /\ \A t \in Sessions : t # s => Same(t)
<1>1. Unset \in [state : {"open"} \cup Closed, used : 0 .. MaxRailRows] /\ Unset.used = 0
  BY RailConstants DEF Unset
<1>2. /\ place' = [place EXCEPT ![s] = IF s = Scheduler THEN "new" ELSE "done"]
      /\ snap' = [snap EXCEPT ![s] = Unset] /\ num' = [num EXCEPT ![s] = 0]
      /\ on' = [on EXCEPT ![s] = 0] /\ minted' = [minted EXCEPT ![s] = FALSE]
  BY DEF Leave, At
<1>3. /\ place' \in [Sessions -> SessionPlaces] /\ num' \in [Sessions -> 0 .. MaxRailRows]
      /\ snap' \in [Sessions -> [state : {"open"} \cup Closed, used : 0 .. MaxRailRows]]
      /\ on' \in [Sessions -> 0 .. MaxRailRows] /\ minted' \in [Sessions -> BOOLEAN]
  BY <1>1, <1>2, RailConstants DEF SessShape, SessionPlaces
<1>4. ASSUME NEW t \in Sessions PROVE snap'[t].used <= Len(rows')
  <2>1. CASE t = s
    BY <1>1, <1>2, <2>1 DEF SessShape
  <2>2. CASE t # s
    <3>1. snap'[t] = snap[t] /\ snap[t].used \in Nat /\ snap[t].used <= Len(rows)
      BY <1>2, <2>2, RailConstants DEF SessShape
    <3> QED
      BY <3>1
  <2> QED
    BY <2>1, <2>2
<1>5. \A t \in Sessions : t # s => Same(t)
  BY <1>2 DEF SessShape, Same
<1>6. place'[s] \in {"new", "done"} /\ (s \in Taps => place'[s] = "done")
  BY <1>2, RailConstants DEF SessShape
<1> QED
  BY <1>3, <1>4, <1>5, <1>6 DEF SessShape

LEMMA QuietSessions ==
  ASSUME RailInv, SessShape', UNCHANGED <<rows, captured, railUsed>>,
         railState' \in {railState} \cup Closed, waiting' \in BOOLEAN, optedOut' \in BOOLEAN,
         deadSessions' \in 0 .. MaxDeadSessions, Pressed' = Pressed \/ Pressed \subseteq Pressed',
         \A t \in Sessions : Engaged(t)' => Same(t)
  PROVE  RailInv'
<1>1. RailShape'
  BY ShapeParts DEF RailInv
<1>2. KeysUnique' /\ RowsCharged'
  BY DEF RailInv, KeysUnique, RowsCharged
<1>3. SelfCounted'
  <2>1. SelfServed' = SelfServed
    BY DEF SelfServed
  <2>2. Pressed \subseteq Pressed' /\ Pressed' \subseteq Taps
    BY DEF Pressed
  <2>3. IsFiniteSet(Pressed') /\ IsFiniteSet(Pressed) /\ Cardinality(Pressed) <= Cardinality(Pressed')
    <3>1. IsFiniteSet(Pressed')
      BY <2>2, RailConstants, FS_Subset
    <3> QED
      BY <2>2, <3>1, FS_Subset
  <2>4. /\ Cardinality(SelfServed) \in Nat /\ Cardinality(Pressed) \in Nat
        /\ Cardinality(Pressed') \in Nat
    BY <2>3, FS_CardinalityType DEF RailInv, SelfCounted
  <2> QED
    BY <2>1, <2>3, <2>4 DEF RailInv, SelfCounted
<1>4. RowInHand'
  <2>1. \A t \in Sessions : Engaged(t)' => Engaged(t) /\ BusyRow(t)'
    BY DEF Engaged, Same, RailInv, RowInHand, BusyRow
  <2>2. \A s, t \in Sessions : Engaged(s)' /\ Engaged(t)' /\ on'[s] = on'[t] => s = t
    BY DEF Engaged, Same, RailInv, RowInHand
  <2> QED
    BY <2>1, <2>2 DEF RowInHand
<1>5. NewestPayable'
  <2>1. railState' = "open" => railState = "open"
    BY DEF Closed
  <2>2. Known' = Known /\ \A m : Newest(m)' <=> Newest(m)
    BY DEF Known, Newest
  <2> QED
    BY <2>1, <2>2 DEF RailInv, NewestPayable
<1> QED
  BY <1>1, <1>2, <1>3, <1>4, <1>5 DEF RailInv

\* A session that looks, waits, gives up or dies.
LEMMA TalkKeeps ==
  ASSUME RailInv, NEW s \in Sessions,
         \/ s \in Webhooks /\ (\/ HardDecline(s) \/ PaymentStopped(s) \/ AskAgent(s) \/ BuildKey(s)
                              \/ AlreadyExecuted(s) \/ Revalidate(s) \/ StoppedUnderLock(s)
                              \/ LostRace(s))
         \/ s \in Taps /\ (PageRefuses(s) \/ PageOpens(s) \/ PageRefusesLate(s))
         \/ Dies(s)
  PROVE  RailInv'
<1>0. /\ RailShape /\ SessShape /\ Len(rows) \in Nat /\ Len(rows) <= MaxRailRows
      /\ railUsed \in 0 .. Len(rows) /\ waiting \in BOOLEAN /\ optedOut \in BOOLEAN
      /\ railState \in {"open"} \cup Closed /\ deadSessions \in 0 .. MaxDeadSessions
  BY ShapeParts, RowsTyped DEF RailInv
<1>1. UNCHANGED <<rows, captured, railUsed, waiting, optedOut>>
  BY DEF HardDecline, PaymentStopped, AskAgent, BuildKey, AlreadyExecuted, Revalidate,
     StoppedUnderLock, LostRace, PageRefuses, PageOpens, PageRefusesLate, Dies, railVars
<1>2. /\ railState' \in {railState} \cup Closed /\ deadSessions' \in 0 .. MaxDeadSessions
  BY <1>0, RailConstants DEF HardDecline, PaymentStopped, AskAgent, BuildKey, AlreadyExecuted,
     Revalidate, StoppedUnderLock, LostRace, PageRefuses, PageOpens, PageRefusesLate, Dies,
     railVars, Closed
<1>3. CASE Leave(s)
  <2>1. /\ SessShape' /\ place'[s] \in {"new", "done"} /\ (s \in Taps => place'[s] = "done")
        /\ \A t \in Sessions : t # s => Same(t)
    BY <1>0, <1>1, <1>3, LeaveMoves
  <2>2. Pressed \subseteq Pressed'
    BY <2>1, RailConstants DEF Pressed, Same
  <2>3. \A t \in Sessions : Engaged(t)' => Same(t)
    BY <2>1 DEF Engaged
  <2> QED
    BY <1>0, <1>1, <1>2, <2>1, <2>2, <2>3, QuietSessions
<1>4. CASE /\ \E where \in {"agent", "keyed", "lock", "new", "look"} : At(s, where)
           /\ on' = on /\ minted' = minted
           /\ num' \in {num, [num EXCEPT ![s] = Len(rows)], [num EXCEPT ![s] = 0]}
           /\ snap' \in {snap, [snap EXCEPT ![s] = CaseCopy], [snap EXCEPT ![s] = Unset]}
           /\ (s \in Taps => place[s] = "new")
  <2>1. /\ place' \in [Sessions -> SessionPlaces] /\ ~Engaged(s)'
        /\ \A t \in Sessions : t # s => Same(t)
    BY <1>0, <1>4 DEF At, SessShape, SessionPlaces, Engaged, Same
  <2>2. num' \in [Sessions -> 0 .. MaxRailRows]
    <3>1. /\ num' \in {num, [num EXCEPT ![s] = Len(rows)], [num EXCEPT ![s] = 0]}
          /\ num \in [Sessions -> 0 .. MaxRailRows]
          /\ Len(rows) \in 0 .. MaxRailRows /\ 0 \in 0 .. MaxRailRows
      BY <1>0, <1>4, RailConstants DEF SessShape
    <3> QED
      BY <3>1
  <2>3. /\ snap' \in [Sessions -> [state : {"open"} \cup Closed, used : 0 .. MaxRailRows]]
        /\ \A t \in Sessions : snap'[t].used <= Len(rows)
    <3>1. /\ CaseCopy \in [state : {"open"} \cup Closed, used : 0 .. MaxRailRows]
          /\ CaseCopy.used <= Len(rows)
          /\ Unset \in [state : {"open"} \cup Closed, used : 0 .. MaxRailRows]
          /\ Unset.used <= Len(rows)
      BY <1>0, RailConstants DEF CaseCopy, Unset
    <3>2. snap' \in {snap, [snap EXCEPT ![s] = CaseCopy], [snap EXCEPT ![s] = Unset]}
      BY <1>4
    <3>3. /\ snap \in [Sessions -> [state : {"open"} \cup Closed, used : 0 .. MaxRailRows]]
          /\ \A t \in Sessions : snap[t].used <= Len(rows)
      BY <1>0 DEF SessShape
    <3>4. /\ snap' \in [Sessions -> [state : {"open"} \cup Closed, used : 0 .. MaxRailRows]]
      BY <3>1, <3>2, <3>3
    <3>5. ASSUME NEW t \in Sessions PROVE snap'[t].used <= Len(rows)
      <4>1. snap'[t] \in {snap[t], CaseCopy, Unset}
        BY <3>2, <3>3
      <4> QED
        BY <3>1, <3>3, <4>1
    <3> QED
      BY <3>4, <3>5
  <2>4. SessShape'
    BY <1>0, <1>1, <1>4, <2>1, <2>2, <2>3 DEF SessShape
  <2>5. Pressed \subseteq Pressed'
    BY <1>4, <2>1, RailConstants DEF Pressed, Same
  <2>6. \A t \in Sessions : Engaged(t)' => Same(t)
    BY <2>1
  <2> QED
    BY <1>0, <1>1, <1>2, <2>4, <2>5, <2>6, QuietSessions
<1>5. CASE s \in Webhooks /\ (AskAgent(s) \/ BuildKey(s) \/ Revalidate(s) \/ LostRace(s))
  <2>1. s \notin Taps
    BY <1>5, RailConstants
  <2> QED
    BY <1>4, <1>5, <2>1 DEF AskAgent, BuildKey, Revalidate, LostRace, AttemptCount
<1>6. CASE PageOpens(s)
  BY <1>4, <1>6 DEF PageOpens
<1> QED
  BY <1>3, <1>5, <1>6 DEF HardDecline, PaymentStopped, AlreadyExecuted, StoppedUnderLock,
     PageRefuses, PageRefusesLate, Dies
-----------------------------------------------------------------------------
(* Rows that are written                                                    *)

\* Keys stay, and presses stay pressed: so the count of the page's rows holds.
LEMMA KeysStay ==
  ASSUME RailInv, DOMAIN rows' = DOMAIN rows,
         \A m \in DOMAIN rows : rows'[m].key = rows[m].key, Pressed \subseteq Pressed'
  PROVE  KeysUnique' /\ SelfCounted'
<1>1. KeysUnique'
  BY DEF RailInv, KeysUnique
<1>2. SelfServed' = SelfServed
  BY DEF SelfServed
<1>3. Pressed' \subseteq Taps
  BY DEF Pressed
<1>4. IsFiniteSet(Pressed')
  BY <1>3, RailConstants, FS_Subset
<1>5. IsFiniteSet(Pressed) /\ Cardinality(Pressed) <= Cardinality(Pressed')
  BY <1>4, FS_Subset
<1>6. Cardinality(SelfServed) \in Nat /\ Cardinality(Pressed) \in Nat /\ Cardinality(Pressed') \in Nat
  BY <1>4, <1>5, FS_CardinalityType DEF RailInv, SelfCounted
<1> QED
  BY <1>1, <1>2, <1>4, <1>5, <1>6 DEF RailInv, SelfCounted

Payables == {"live", "paid"}

\* One session writes one row, of which its key stays and what another session may be
\* counting on.
Writes(s, n, new) ==
  /\ rows' = [rows EXCEPT ![n] = new] /\ new.key = rows[n].key
  /\ new.result \in {"scheduled"} \cup InFlight \/ new.link # "none" => Charged(new.key)
  /\ new.result \in {"scheduled", "claimed"} => ~new.known
  /\ UNCHANGED <<railVars, captured, deadSessions>>
  /\ SessShape' /\ Pressed \subseteq Pressed' /\ NewestPayable'
  /\ Engaged(s)' => BusyRow(s)' /\ \A t \in Sessions : t # s /\ Engaged(t) => on[t] # on'[s]
  /\ \A t \in Sessions : t # s =>
       /\ Same(t)
       /\ Engaged(t) /\ on[t] = n =>
            /\ new.result # "scheduled" /\ ~new.known
            /\ rows[n].link \in Payables => new.link \in Payables

LEMMA OneRow ==
  ASSUME RailInv, NEW s \in Sessions, NEW n \in DOMAIN rows, NEW new \in RowShape,
         Writes(s, n, new)
  PROVE  RailInv'
<1>1. /\ rows \in Seq(RowShape) /\ RailShape /\ SessShape
  BY ShapeParts DEF RailInv
<1>2. /\ rows' \in Seq(RowShape) /\ Len(rows') = Len(rows) /\ DOMAIN rows' = DOMAIN rows
      /\ rows'[n] = new /\ \A m \in DOMAIN rows : m # n => rows'[m] = rows[m]
  BY <1>1, RowWritten DEF Writes
<1>3. \A m \in DOMAIN rows : rows'[m].key = rows[m].key
  BY <1>2 DEF Writes
<1>4. RailShape'
  BY <1>1, <1>2, ShapeParts DEF railVars, Writes
<1>5. KeysUnique' /\ SelfCounted'
  BY <1>2, <1>3, KeysStay DEF Writes
<1>6. RowsCharged'
  <2>1. ASSUME NEW m \in DOMAIN rows
        PROVE  /\ rows'[m].result \in {"scheduled"} \cup InFlight \/ rows'[m].link # "none"
                    => Charged(rows'[m].key)
               /\ rows'[m].result \in {"scheduled", "claimed"} => ~rows'[m].known
    BY <1>2 DEF RailInv, RowsCharged, Writes
  <2> QED
    BY <1>2, <2>1 DEF RowsCharged, Charged
<1>7. ASSUME NEW t \in Sessions, Engaged(t)' PROVE BusyRow(t)'
  <2>1. CASE t = s
    BY <1>7, <2>1 DEF Writes
  <2>2. CASE t # s
    <3>1. Same(t) /\ Engaged(t) /\ BusyRow(t)
      BY <1>7, <2>2 DEF Same, Engaged, RailInv, RowInHand, Writes
    <3>2. CASE on[t] # n
      BY <1>2, <3>1, <3>2 DEF BusyRow, Same, Charged
    <3>3. CASE on[t] = n
      <4>1. /\ new.result # "scheduled" /\ ~new.known
            /\ rows[n].link \in Payables => new.link \in Payables
        BY <2>2, <3>1, <3>3 DEF Writes
      <4>2. on'[t] = n /\ rows'[n] = new /\ n \in DOMAIN rows'
        BY <1>2, <3>1, <3>3 DEF Same
      <4>3. Charged(new.key) /\ (place[t] = "answered" /\ minted[t] => rows[n].link \in Payables)
        <5>1. new.key = rows[n].key
          BY DEF Writes
        <5> QED
          BY <3>1, <3>3, <5>1 DEF BusyRow, Payables
      <4> QED
        BY <3>1, <4>1, <4>2, <4>3 DEF BusyRow, Same, Payables, Charged
    <3> QED
      BY <3>2, <3>3
  <2> QED
    BY <2>1, <2>2
<1>8. ASSUME NEW t \in Sessions, NEW u \in Sessions, Engaged(t)', Engaged(u)', on'[t] = on'[u]
      PROVE  t = u
  <2>1. \A v \in Sessions : v # s /\ Engaged(v)' => Engaged(v) /\ on'[v] = on[v]
    BY DEF Same, Engaged, Writes
  <2> QED
    BY <1>8, <2>1 DEF RailInv, RowInHand, Writes
<1>9. RowInHand'
  BY <1>7, <1>8 DEF RowInHand
<1> QED
  BY <1>4, <1>5, <1>6, <1>9 DEF RailInv, Writes

\* What is known stays so and what is payable stays payable: the newest with it.
LEMMA NewestStays ==
  ASSUME RailInv, DOMAIN rows' = DOMAIN rows, railState' = "open" => railState = "open",
         \A m \in DOMAIN rows :
           /\ rows'[m].known = rows[m].known
           /\ rows[m].link \in Payables => rows'[m].link \in Payables
  PROVE  NewestPayable'
<1>1. Known' = Known
  BY DEF Known
<1>2. \A m : Newest(m)' <=> Newest(m)
  BY <1>1 DEF Newest
<1> QED
  BY <1>1, <1>2 DEF RailInv, NewestPayable, Payables

\* The scheduler takes a parked row, and what it does with the row it has taken.
LEMMA SchedulerKeeps ==
  ASSUME RailInv, (\E n \in DOMAIN rows : Claim(n)) \/ FireStep
  PROVE  RailInv'
<1> DEFINE s == Scheduler
<1>0. /\ rows \in Seq(RowShape) /\ RailShape /\ SessShape /\ Len(rows) \in Nat
      /\ DOMAIN rows = 1 .. Len(rows) /\ Len(rows) <= MaxRailRows
      /\ \A n \in DOMAIN rows : rows[n] \in RowShape
      /\ s \in Sessions /\ s \notin Taps
  BY ShapeParts, RowsTyped, RailConstants DEF RailInv
<1>1. ASSUME NEW n \in DOMAIN rows, NEW result \in InFlight \cup Verdicts, SetResult(n, result),
             Charged(rows[n].key), result = "claimed" => ~rows[n].known,
             SessShape', UNCHANGED <<railVars, captured, deadSessions>>,
             Engaged(s)' => on'[s] = n /\ ~rows[n].known /\ place'[s] # "answered",
             \A t \in Sessions : t # s => Same(t) /\ (Engaged(t) => on[t] # n)
      PROVE  RailInv'
  <2>1. PICK new : new = [rows[n] EXCEPT !.result = result]
    OBVIOUS
  <2>2. /\ new \in RowShape /\ new.key = rows[n].key /\ new.result = result
        /\ new.link = rows[n].link /\ new.known = rows[n].known
    BY <1>0, <2>1 DEF RowShape, InFlight, Verdicts
  <2>3. rows' = [rows EXCEPT ![n] = new]
    BY <1>0, <1>1, <2>1 DEF SetResult
  <2>4. /\ DOMAIN rows' = DOMAIN rows
        /\ rows'[n] = new /\ \A m \in DOMAIN rows : m # n => rows'[m] = rows[m]
    BY <1>0, <2>2, <2>3, RowWritten
  <2>5. NewestPayable'
    BY <1>1, <2>2, <2>4, NewestStays DEF railVars
  <2>6. Pressed \subseteq Pressed'
    BY <1>0, <1>1, RailConstants DEF Pressed, Same
  <2>7. Engaged(s)' => BusyRow(s)' /\ \A t \in Sessions : t # s /\ Engaged(t) => on[t] # on'[s]
    BY <1>1, <2>2, <2>4 DEF BusyRow, InFlight, Verdicts, Charged
  <2>8. /\ new.result \in {"scheduled"} \cup InFlight \/ new.link # "none" => Charged(new.key)
        /\ new.result \in {"scheduled", "claimed"} => ~new.known
    BY <1>1, <2>2 DEF InFlight, Verdicts, Charged
  <2>9. \A t \in Sessions : t # s =>
          /\ Same(t)
          /\ Engaged(t) /\ on[t] = n =>
               /\ new.result # "scheduled" /\ ~new.known
               /\ rows[n].link \in Payables => new.link \in Payables
    BY <1>1
  <2>10. UNCHANGED <<railVars, captured, deadSessions>> /\ SessShape' /\ s \in Sessions
    BY <1>0, <1>1
  <2>11. Writes(s, n, new)
    BY <2>2, <2>3, <2>5, <2>6, <2>7, <2>8, <2>9, <2>10 DEF Writes
  <2> QED
    BY <2>2, <2>10, <2>11, OneRow
<1>2. ASSUME NEW n \in DOMAIN rows, Claim(n) PROVE RailInv'
  <2>1. /\ rows[n].result = "scheduled" /\ SetResult(n, "claimed")
        /\ on' = [on EXCEPT ![s] = n] /\ place' = [place EXCEPT ![s] = "claimed"]
        /\ UNCHANGED <<railVars, captured, snap, num, minted, deadSessions>>
    BY <1>2 DEF Claim, With, At
  <2>2. Charged(rows[n].key) /\ ~rows[n].known
    BY <2>1 DEF RailInv, RowsCharged
  <2>3. /\ rows' \in Seq(RowShape) /\ Len(rows') = Len(rows)
    <3>1. PICK new : new = [rows[n] EXCEPT !.result = "claimed"]
      OBVIOUS
    <3>2. rows[n] \in RowShape /\ rows' = [rows EXCEPT ![n] = new]
      BY <1>0, <2>1, <3>1, RowsTyped DEF SetResult
    <3>3. new \in RowShape
      BY <3>1, <3>2 DEF RowShape, InFlight
    <3> QED
      BY <1>0, <3>2, <3>3, RowWritten
  <2>4. SessShape'
    BY <1>0, <2>1, <2>3, RailConstants DEF SessShape, SessionPlaces
  <2>5. Engaged(s)' => on'[s] = n /\ ~rows[n].known /\ place'[s] # "answered"
    BY <1>0, <2>1, <2>2 DEF SessShape
  <2>6. \A t \in Sessions : t # s => Same(t) /\ (Engaged(t) => on[t] # n)
    BY <1>0, <2>1 DEF SessShape, Same, RailInv, RowInHand, BusyRow
  <2> QED
    BY <1>1, <2>1, <2>2, <2>4, <2>5, <2>6 DEF InFlight
<1>3. ASSUME FireStep PROVE RailInv'
  <2>1. PICK n : n = on[s]
    OBVIOUS
  <2>2. place[s] = "claimed" /\ UNCHANGED <<railVars, captured, deadSessions>>
    BY <1>3 DEF FireStep, FireCancels, FireRejects, Fires
  <2>3. Engaged(s) /\ n \in DOMAIN rows /\ Charged(rows[n].key) /\ ~rows[n].known
    BY <1>0, <2>1, <2>2 DEF Engaged, RailInv, RowInHand, BusyRow
  <2>4. \A t \in Sessions : t # s /\ Engaged(t) => on[t] # n
    BY <1>0, <2>1, <2>3 DEF RailInv, RowInHand
  <2>5. ASSUME NEW result \in {"cancelled", "rejected", "pending"}, SetResult(n, result)
        PROVE  Len(rows') = Len(rows)
    <3>1. PICK new : new = [rows[n] EXCEPT !.result = result]
      OBVIOUS
    <3>2. rows[n] \in RowShape /\ rows' = [rows EXCEPT ![n] = new]
      BY <1>0, <2>3, <2>5, <3>1, RowsTyped DEF SetResult
    <3>3. new \in RowShape
      BY <2>5, <3>1, <3>2 DEF RowShape, InFlight, Verdicts
    <3> QED
      BY <1>0, <2>3, <3>2, <3>3, RowWritten
  <2>6. CASE FireCancels \/ FireRejects
    <3>1. PICK result \in {"cancelled", "rejected"} : SetResult(n, result) /\ Leave(s)
      BY <2>1, <2>6 DEF FireCancels, FireRejects
    <3>2. Len(rows') = Len(rows)
      BY <2>5, <3>1
    <3>3. /\ SessShape' /\ place'[s] \in {"new", "done"} /\ \A t \in Sessions : t # s => Same(t)
      <4> HIDE DEF s
      <4> QED
        BY <1>0, <3>1, <3>2, LeaveMoves
    <3>4. ~Engaged(s)'
      BY <3>3 DEF Engaged
    <3>5. result \in InFlight \cup Verdicts /\ result # "claimed"
      BY <3>1 DEF Verdicts
    <3> QED
      BY <1>1, <2>2, <2>3, <2>4, <3>1, <3>3, <3>4, <3>5
  <2>7. CASE Fires
    <3>1. /\ SetResult(n, "pending") /\ place' = [place EXCEPT ![s] = "calling"]
          /\ UNCHANGED <<snap, num, on, minted>>
      BY <2>1, <2>7 DEF Fires, At
    <3>2. Len(rows') = Len(rows)
      BY <2>5, <3>1
    <3>3. SessShape'
      BY <1>0, <3>1, <3>2 DEF SessShape, SessionPlaces
    <3>4. Engaged(s)' => on'[s] = n /\ ~rows[n].known /\ place'[s] # "answered"
      BY <1>0, <2>1, <2>3, <3>1 DEF SessShape
    <3>5. \A t \in Sessions : t # s => Same(t)
      BY <1>0, <3>1 DEF SessShape, Same
    <3> QED
      BY <1>1, <2>2, <2>3, <2>4, <3>1, <3>3, <3>4, <3>5 DEF InFlight
  <2> QED
    BY <1>3, <2>6, <2>7 DEF FireStep
<1> QED
  BY <1>2, <1>3

\* The stale sweep, and the customer who pays.
LEMMA RowMoves ==
  ASSUME RailInv, NEW n \in DOMAIN rows, StaleResolves(n) \/ Pay(n)
  PROVE  RailInv'
<1>0. /\ rows \in Seq(RowShape) /\ SessShape /\ Len(rows) \in Nat /\ rows[n] \in RowShape
      /\ Scheduler \in Sessions
  BY ShapeParts, RowsTyped, RailConstants DEF RailInv
<1>1. UNCHANGED <<railVars, captured, sessVars, deadSessions>>
  BY DEF StaleResolves, Pay
<1>2. /\ UNCHANGED <<railVars, captured, deadSessions>> /\ \A t \in Sessions : Same(t)
      /\ Pressed' = Pressed
  BY <1>1 DEF sessVars, Same, Pressed
<1>3. ASSUME NEW new \in RowShape, rows' = [rows EXCEPT ![n] = new], new.key = rows[n].key,
             new.known = rows[n].known, rows[n].link \in Payables => new.link \in Payables,
             new.result \in {"scheduled"} \cup InFlight \/ new.link # "none" => Charged(new.key),
             new.result \in {"scheduled", "claimed"} => ~new.known,
             \A t \in Sessions : Engaged(t) /\ on[t] = n => new.result # "scheduled"
      PROVE  RailInv'
  <2>1. /\ Len(rows') = Len(rows) /\ DOMAIN rows' = DOMAIN rows
        /\ rows'[n] = new /\ \A m \in DOMAIN rows : m # n => rows'[m] = rows[m]
    BY <1>0, <1>3, RowWritten
  <2>2. SessShape'
    BY <1>0, <1>1, <2>1 DEF SessShape, sessVars
  <2>3. NewestPayable'
    BY <1>2, <1>3, <2>1, NewestStays DEF railVars
  <2>4. \A t \in Sessions : Engaged(t) /\ on[t] = n => ~new.known
    BY <1>3 DEF RailInv, RowInHand, BusyRow
  <2>5. Engaged(Scheduler)' =>
          BusyRow(Scheduler)' /\ \A t \in Sessions : t # Scheduler /\ Engaged(t) => on[t] # on'[Scheduler]
    <3>1. SUFFICES ASSUME Engaged(Scheduler)' 
                   PROVE  BusyRow(Scheduler)' /\ \A t \in Sessions : t # Scheduler /\ Engaged(t) => on[t] # on'[Scheduler]
      OBVIOUS
    <3>2. Engaged(Scheduler) /\ Same(Scheduler) /\ BusyRow(Scheduler)
      BY <1>0, <1>2, <3>1 DEF Engaged, Same, RailInv, RowInHand
    <3>3. CASE on[Scheduler] # n
      BY <1>0, <2>1, <3>2, <3>3 DEF BusyRow, Same, Charged, RailInv, RowInHand
    <3>4. CASE on[Scheduler] = n
      <4>1. on'[Scheduler] = n /\ rows'[n] = new /\ n \in DOMAIN rows'
        BY <2>1, <3>2, <3>4 DEF Same
      <4>2. /\ Charged(new.key) /\ new.result # "scheduled" /\ ~new.known
            /\ place[Scheduler] = "answered" /\ minted[Scheduler] => new.link \in Payables
        BY <1>0, <1>3, <2>4, <3>2, <3>4 DEF BusyRow, Payables
      <4>3. BusyRow(Scheduler)'
        BY <3>2, <4>1, <4>2 DEF BusyRow, Same, Payables, Charged
      <4> QED
        BY <1>0, <3>2, <4>3 DEF RailInv, RowInHand, Same
    <3> QED
      BY <3>3, <3>4
  <2>6. \A t \in Sessions : t # Scheduler =>
          /\ Same(t)
          /\ Engaged(t) /\ on[t] = n =>
               /\ new.result # "scheduled" /\ ~new.known
               /\ rows[n].link \in Payables => new.link \in Payables
    BY <1>2, <1>3, <2>4
  <2>7. /\ UNCHANGED <<railVars, captured, deadSessions>> /\ Scheduler \in Sessions
        /\ Pressed \subseteq Pressed'
    BY <1>0, <1>2
  <2>8. Writes(Scheduler, n, new)
    BY <1>3, <2>2, <2>3, <2>5, <2>6, <2>7 DEF Writes
  <2> QED
    BY <1>3, <2>7, <2>8, OneRow
<1>4. CASE StaleResolves(n)
  <2>1. PICK new : new = [rows[n] EXCEPT !.result = ResolvedAs(n)]
    OBVIOUS
  <2>2. /\ rows[n].result \in InFlight /\ \A t \in Sessions : on[t] # n
        /\ ResolvedAs(n) = IF rows[n].result = "claimed" THEN "scheduled" ELSE "failed"
    BY <1>4 DEF StaleResolves, StaleRows, With, ResolvedAs
  <2>3. /\ new \in RowShape /\ new.key = rows[n].key /\ new.result = ResolvedAs(n)
        /\ new.link = rows[n].link /\ new.known = rows[n].known
    BY <1>0, <2>1, <2>2 DEF RowShape, InFlight, Verdicts
  <2>4. Charged(rows[n].key) /\ (rows[n].result = "claimed" => ~rows[n].known)
    BY <2>2 DEF RailInv, RowsCharged
  <2>5. rows' = [rows EXCEPT ![n] = new]
    BY <1>0, <1>4, <2>1 DEF StaleResolves, SetResult
  <2>6. new.result \in {"scheduled", "claimed"} => ~new.known
    BY <2>2, <2>3, <2>4
  <2> QED
    BY <1>3, <2>2, <2>3, <2>4, <2>5, <2>6
<1>5. CASE Pay(n)
  <2>1. PICK new : new = [rows[n] EXCEPT !.link = "paid"]
    OBVIOUS
  <2>2. rows[n].link = "live" /\ rows' = [rows EXCEPT ![n] = new]
    BY <1>0, <1>5, <2>1 DEF Pay, Payable
  <2>3. /\ new \in RowShape /\ new.key = rows[n].key /\ new.result = rows[n].result
        /\ new.link = "paid" /\ new.known = rows[n].known
    BY <1>0, <2>1 DEF RowShape
  <2>4. /\ Charged(rows[n].key) /\ (rows[n].result \in {"scheduled", "claimed"} => ~rows[n].known)
    BY <2>2 DEF RailInv, RowsCharged
  <2>5. \A t \in Sessions : Engaged(t) /\ on[t] = n => new.result # "scheduled"
    BY <2>3 DEF RailInv, RowInHand, BusyRow
  <2> QED
    BY <1>3, <2>2, <2>3, <2>4, <2>5 DEF Payables
<1> QED
  BY <1>4, <1>5

\* The gateway's answer, and its record.
LEMMA ExecuteKeeps ==
  ASSUME RailInv, NEW s \in Sessions, Execute(s)
  PROVE  RailInv'
<1> PICK n : n = on[s]
  OBVIOUS
<1>0. /\ rows \in Seq(RowShape) /\ SessShape /\ Len(rows) \in Nat /\ DOMAIN rows = 1 .. Len(rows)
      /\ \A m \in DOMAIN rows : rows[m] \in RowShape
  BY ShapeParts, RowsTyped DEF RailInv
<1>1. Engaged(s) /\ UNCHANGED <<railVars, captured, deadSessions>>
  BY DEF Execute, Answer, Record, Engaged
<1>2. /\ n \in DOMAIN rows /\ Charged(rows[n].key) /\ rows[n].result # "scheduled" /\ ~rows[n].known
      /\ place[s] = "answered" /\ minted[s] => rows[n].link \in Payables
      /\ \A t \in Sessions : t # s /\ Engaged(t) => on[t] # n
  BY <1>1 DEF RailInv, RowInHand, BusyRow, Payables
<1>3. rows[n] \in RowShape
  BY <1>0, <1>2
<1>4. ASSUME NEW ok \in BOOLEAN, Answer(s, ok) PROVE RailInv'
  <2>1. PICK new : new = IF ok THEN [rows[n] EXCEPT !.link = "live"] ELSE rows[n]
    OBVIOUS
  <2>2. /\ new \in RowShape /\ new.key = rows[n].key /\ new.result = rows[n].result
        /\ new.known = rows[n].known /\ (ok => new.link = "live") /\ (~ok => new = rows[n])
    BY <1>3, <2>1 DEF RowShape
  <2>3. rows' = [rows EXCEPT ![n] = new]
    <3>1. rows' = IF ok THEN [rows EXCEPT ![n].link = "live"] ELSE rows
      BY <1>4 DEF Answer
    <3>2. rows = [m \in DOMAIN rows |-> rows[m]]
      BY <1>0
    <3> QED
      BY <1>0, <1>2, <2>1, <3>1, <3>2
  <2>4. /\ DOMAIN rows' = DOMAIN rows /\ Len(rows') = Len(rows)
        /\ rows'[n] = new /\ \A m \in DOMAIN rows : m # n => rows'[m] = rows[m]
    BY <1>0, <1>2, <2>2, <2>3, RowWritten
  <2>5. /\ place' = [place EXCEPT ![s] = "answered"] /\ minted' = [minted EXCEPT ![s] = ok]
        /\ UNCHANGED <<snap, num, on>>
    BY <1>4 DEF Answer, At
  <2>6. SessShape'
    BY <1>0, <2>4, <2>5 DEF SessShape, SessionPlaces
  <2>7. \A t \in Sessions : t # s => Same(t)
    BY <1>0, <2>5 DEF SessShape, Same
  <2>8. place'[s] = "answered" /\ minted'[s] = ok /\ on'[s] = n
    BY <1>0, <2>5 DEF SessShape
  <2>9. Pressed \subseteq Pressed'
    BY <2>7, <2>8, RailConstants DEF Pressed, Same
  <2>10. BusyRow(s)'
    BY <1>2, <2>2, <2>4, <2>8 DEF BusyRow, Charged
  <2>11. NewestPayable'
    <3>1. \A m \in DOMAIN rows : /\ rows'[m].known = rows[m].known
                                 /\ rows[m].link \in Payables => rows'[m].link \in Payables
      BY <2>2, <2>4 DEF Payables
    <3> QED
      BY <1>1, <2>4, <3>1, NewestStays DEF railVars
  <2>12. /\ new.result \in {"scheduled"} \cup InFlight \/ new.link # "none" => Charged(new.key)
         /\ new.result \in {"scheduled", "claimed"} => ~new.known
    BY <1>2, <2>2
  <2>13. Writes(s, n, new)
    BY <1>1, <1>2, <2>2, <2>3, <2>6, <2>7, <2>8, <2>9, <2>10, <2>11, <2>12 DEF Writes
  <2> QED
    BY <1>2, <2>2, <2>13, OneRow
<1>5. ASSUME Record(s) PROVE RailInv'
  <2>1. PICK new : new = [rows[n] EXCEPT !.result = IF minted[s] THEN "success" ELSE "failed",
                                          !.known = minted[s]]
    OBVIOUS
  <2>2. minted[s] \in BOOLEAN /\ place[s] = "answered" /\ Leave(s)
    BY <1>0, <1>5 DEF SessShape, Record
  <2>3. /\ new \in RowShape /\ new.key = rows[n].key /\ new.result \in {"success", "failed"}
        /\ new.known = minted[s] /\ new.link = rows[n].link
    BY <1>3, <2>1, <2>2 DEF RowShape, Verdicts
  <2>4. rows' = [rows EXCEPT ![n] = new]
    BY <1>0, <1>2, <1>5, <2>1 DEF Record
  <2>5. /\ DOMAIN rows' = DOMAIN rows /\ Len(rows') = Len(rows)
        /\ rows'[n] = new /\ \A m \in DOMAIN rows : m # n => rows'[m] = rows[m]
    BY <1>0, <1>2, <2>3, <2>4, RowWritten
  <2>6. /\ SessShape' /\ place'[s] \in {"new", "done"} /\ (s \in Taps => place'[s] = "done")
        /\ \A t \in Sessions : t # s => Same(t)
    BY <1>0, <2>2, <2>5, LeaveMoves
  <2>7. Pressed \subseteq Pressed' /\ ~Engaged(s)'
    BY <2>6, RailConstants DEF Pressed, Same, Engaged
  <2>8. NewestPayable'
    <3>1. CASE ~minted[s]
      <4>1. \A m \in DOMAIN rows : /\ rows'[m].known = rows[m].known
                                   /\ rows[m].link \in Payables => rows'[m].link \in Payables
        <5>1. minted[s] = FALSE /\ rows[n].known = FALSE
          BY <1>2, <1>3, <2>2, <3>1 DEF RowShape
        <5>2. rows'[n].known = rows[n].known /\ rows'[n].link = rows[n].link
          BY <2>3, <2>5, <5>1
        <5> QED
          BY <2>5, <5>2
      <4> QED
        BY <1>1, <2>5, <4>1, NewestStays DEF railVars
    <3>2. CASE minted[s]
      <4>1. Known' = Known \cup {n} /\ rows'[n].link \in {"live", "paid"} /\ n \in DOMAIN rows'
        BY <1>2, <2>2, <2>3, <2>5, <3>2 DEF Known, Payables
      <4>2. railState' = railState /\ \A m \in DOMAIN rows : m # n => rows'[m] = rows[m]
        BY <1>1, <2>5 DEF railVars
      <4>3. CASE \A m \in Known : m <= n
        <5>1. Newest(n)'
          BY <1>0, <1>2, <4>1, <4>3 DEF Newest
        <5> QED
          BY <4>1, <5>1 DEF NewestPayable
      <4>4. ASSUME railState = "open", NEW k \in Known, ~(k <= n) PROVE NewestPayable'
        <5>1. PICK m \in DOMAIN rows : Newest(m) /\ rows[m].link \in {"live", "paid"}
          BY <4>4 DEF RailInv, NewestPayable
        <5>2. m \in Nat /\ k \in Nat /\ n \in Nat /\ k <= m
          BY <1>0, <1>2, <4>4, <5>1 DEF Known, Newest
        <5>3. m # n /\ n <= m
          BY <4>4, <5>2
        <5>4. Newest(m)' /\ rows'[m].link \in {"live", "paid"} /\ m \in DOMAIN rows'
          BY <2>5, <4>1, <4>2, <5>1, <5>3 DEF Newest
        <5> QED
          BY <5>4 DEF NewestPayable
      <4> QED
        BY <4>2, <4>3, <4>4 DEF NewestPayable
    <3> QED
      BY <2>2, <3>1, <3>2
  <2>9. Writes(s, n, new)
    BY <1>1, <1>2, <2>3, <2>4, <2>6, <2>7, <2>8 DEF Writes, InFlight
  <2> QED
    BY <1>2, <2>3, <2>9, OneRow
<1> QED
  BY <1>4, <1>5 DEF Execute

\* A row is inserted with a new key, by a session that leaves or goes on to the gateway.
Adds(s, key, result) ==
  /\ rows' = Append(rows, [key |-> key, result |-> result, link |-> "none",
                           known |-> FALSE, stamped |-> FALSE])
  /\ Len(rows) < MaxRailRows /\ railUsed' \in 0 .. Len(rows) + 1
  /\ UNCHANGED <<railState, optedOut, captured, deadSessions>> /\ waiting' \in BOOLEAN
  /\ key \in KeyShape /\ key \notin Keys
  /\ result \in {"pending", "scheduled", "rejected", "skipped"}
  /\ result \in {"pending", "scheduled"} => Charged(key)
  /\ SessShape'
  /\ Engaged(s)' => place'[s] = "calling" /\ on'[s] = Len(rows) + 1 /\ result = "pending"
  /\ \A t \in Sessions : t # s => Same(t)
  /\ Pressed \subseteq Pressed'
  /\ key[1] = "selfserve" => Pressed' # Pressed

LEMMA InsertKeeps ==
  ASSUME RailInv, NEW s \in Sessions, NEW key, NEW result, Adds(s, key, result)
  PROVE  RailInv'
<1> PICK n : n = Len(rows) + 1
  OBVIOUS
<1> PICK new : new = [key |-> key, result |-> result, link |-> "none",
                      known |-> FALSE, stamped |-> FALSE]
  OBVIOUS
<1>0. /\ rows \in Seq(RowShape) /\ RailShape /\ SessShape /\ Len(rows) \in Nat
      /\ DOMAIN rows = 1 .. Len(rows) /\ \A m \in DOMAIN rows : rows[m] \in RowShape
  BY ShapeParts, RowsTyped DEF RailInv
<1>1. /\ new \in RowShape /\ new.key = key /\ new.result = result /\ new.link = "none"
      /\ new.known = FALSE /\ rows' = Append(rows, new)
  BY DEF Adds, KeyShape, RowShape, InFlight, Verdicts
<1>2. /\ rows' \in Seq(RowShape) /\ Len(rows') = n /\ DOMAIN rows' = DOMAIN rows \cup {n}
      /\ n \notin DOMAIN rows /\ rows'[n] = new /\ \A m \in DOMAIN rows : rows'[m] = rows[m]
  BY <1>0, <1>1, RowAdded
<1>3. RailShape'
  <2>1. n \in Nat /\ n <= MaxRailRows
    BY <1>0, RailConstants DEF Adds
  <2> QED
    BY <1>0, <1>2, <2>1, ShapeParts DEF Adds
<1>4. KeysUnique'
  <2>1. \A m \in DOMAIN rows : rows[m].key # key
    BY DEF Adds, Keys
  <2> QED
    BY <1>1, <1>2, <2>1 DEF KeysUnique, RailInv
<1>5. SelfCounted'
  <2>1. Pressed' \subseteq Taps /\ Pressed \subseteq Pressed'
    BY DEF Pressed, Adds
  <2>2. IsFiniteSet(Pressed') /\ IsFiniteSet(Pressed) /\ IsFiniteSet(SelfServed)
    BY <2>1, RailConstants, FS_Subset DEF RailInv, SelfCounted
  <2>3. Cardinality(Pressed) <= Cardinality(Pressed')
    BY <2>1, <2>2, FS_Subset
  <2>4. /\ Cardinality(Pressed) \in Nat /\ Cardinality(Pressed') \in Nat
        /\ Cardinality(SelfServed) \in Nat /\ Cardinality(SelfServed) <= Cardinality(Pressed)
    BY <2>2, FS_CardinalityType DEF RailInv, SelfCounted
  <2>5. CASE key[1] # "selfserve"
    <3>1. SelfServed' = SelfServed
      BY <1>1, <1>2, <2>5 DEF SelfServed
    <3> QED
      BY <2>2, <2>3, <2>4, <3>1 DEF SelfCounted
  <2>6. CASE key[1] = "selfserve"
    <3>1. SelfServed' = SelfServed \cup {n} /\ n \notin SelfServed
      BY <1>1, <1>2, <2>6 DEF SelfServed
    <3>2. IsFiniteSet(SelfServed \cup {n}) /\ Cardinality(SelfServed \cup {n}) = Cardinality(SelfServed) + 1
      BY <2>2, <3>1, FS_AddElement
    <3>3. Pressed' # Pressed
      BY <2>6 DEF Adds
    <3>4. Cardinality(Pressed) # Cardinality(Pressed')
      BY <2>1, <2>2, <3>3, FS_Subset
    <3>5. Cardinality(SelfServed) + 1 <= Cardinality(Pressed')
      BY <2>3, <2>4, <3>4
    <3> QED
      BY <2>2, <3>1, <3>2, <3>5 DEF SelfCounted
  <2> QED
    BY <2>5, <2>6
<1>6. RowsCharged'
  <2>1. result \in {"scheduled"} \cup InFlight => Charged(key)
    BY DEF Adds, InFlight
  <2> QED
    BY <1>1, <1>2, <2>1 DEF RailInv, RowsCharged, Charged
<1>7. RowInHand'
  <2>1. ASSUME NEW t \in Sessions, t # s, Engaged(t)'
        PROVE  Engaged(t) /\ on'[t] = on[t] /\ on[t] \in DOMAIN rows /\ BusyRow(t)'
    <3>1. Same(t) /\ Engaged(t) /\ BusyRow(t)
      BY <2>1 DEF Adds, Same, Engaged, RailInv, RowInHand
    <3> QED
      BY <1>2, <3>1 DEF Same, BusyRow, Charged
  <2>2. ASSUME Engaged(s)' PROVE on'[s] = n /\ BusyRow(s)'
    <3>1. place'[s] = "calling" /\ on'[s] = n /\ result = "pending" /\ Charged(key)
      BY <2>2 DEF Adds
    <3> QED
      BY <1>1, <1>2, <3>1 DEF BusyRow, Charged
  <2>3. \A t \in Sessions : Engaged(t)' => BusyRow(t)'
    BY <2>1, <2>2
  <2>4. \A t, u \in Sessions : Engaged(t)' /\ Engaged(u)' /\ on'[t] = on'[u] => t = u
    BY <1>2, <2>1, <2>2 DEF RailInv, RowInHand
  <2> QED
    BY <2>3, <2>4 DEF RowInHand
<1>8. NewestPayable'
  <2>1. Known' = Known /\ railState' = railState
    BY <1>1, <1>2 DEF Known, Adds
  <2>2. \A m : Newest(m)' <=> Newest(m)
    BY <2>1 DEF Newest
  <2> QED
    BY <1>2, <2>1, <2>2 DEF RailInv, NewestPayable
<1> QED
  BY <1>3, <1>4, <1>5, <1>6, <1>7, <1>8 DEF RailInv

LEMMA DecisionKeeps ==
  ASSUME RailInv, NEW s \in Webhooks,
         \/ WriteAhead(s)
         \/ \E result \in {"rejected", "skipped", "scheduled"} : StoreDecision(s, result)
  PROVE  RailInv'
<1> PICK key : key = <<"retry", num[s]>>
  OBVIOUS
<1>0. /\ rows \in Seq(RowShape) /\ SessShape /\ Len(rows) \in Nat /\ Len(rows) <= MaxRailRows
      /\ s \in Sessions /\ s \notin Taps /\ waiting \in BOOLEAN
  BY ShapeParts, RowsTyped, RailConstants DEF RailInv
<1>1. key \in KeyShape /\ key[1] = "retry" /\ key[2] = num[s]
  BY <1>0 DEF SessShape, KeyShape
<1>2. snap[s].used + 1 \in 0 .. Len(rows) + 1
  BY <1>0, RailConstants DEF SessShape
<1>3. key \notin Keys
  BY DEF WriteAhead, StoreDecision, Free
<1>4. ASSUME NEW result \in {"pending", "scheduled", "rejected", "skipped"},
             Insert(s, key, result), result \in {"pending", "scheduled"} => num[s] < RetryLimit,
             UNCHANGED <<railState, optedOut, captured, deadSessions>>, waiting' \in BOOLEAN,
             SessShape', \A t \in Sessions : t # s => Same(t),
             Engaged(s)' => place'[s] = "calling" /\ on'[s] = Len(rows) + 1 /\ result = "pending"
      PROVE  RailInv'
  <2>1. Pressed \subseteq Pressed'
    BY <1>0, <1>4, RailConstants DEF Pressed, Same
  <2>2. key[1] # "selfserve" /\ (result \in {"pending", "scheduled"} => Charged(key))
    BY <1>1, <1>4 DEF Charged
  <2>3. Adds(s, key, result)
    BY <1>1, <1>2, <1>3, <1>4, <2>1, <2>2 DEF Adds, Insert
  <2> QED
    BY <1>0, <2>3, InsertKeeps
<1>5. CASE WriteAhead(s)
  <2>1. /\ Insert(s, key, "pending") /\ num[s] < RetryLimit
        /\ UNCHANGED <<railState, optedOut, captured, snap, num, minted, deadSessions>>
        /\ waiting' \in {waiting, TRUE} /\ on' = [on EXCEPT ![s] = Len(rows) + 1]
        /\ place' = [place EXCEPT ![s] = "calling"]
    BY <1>5 DEF WriteAhead, At
  <2>2. Len(rows) + 1 \in 0 .. MaxRailRows /\ Len(rows') = Len(rows) + 1
    BY <1>0, <2>1, RailConstants DEF Insert
  <2>3. SessShape'
    <3>1. \A t \in Sessions : snap'[t].used <= Len(rows')
      BY <1>0, <2>1, <2>2, RailConstants DEF SessShape
    <3> QED
      BY <1>0, <2>1, <2>2, <3>1 DEF SessShape, SessionPlaces
  <2>4. /\ \A t \in Sessions : t # s => Same(t)
        /\ place'[s] = "calling" /\ on'[s] = Len(rows) + 1
    BY <1>0, <2>1 DEF SessShape, Same
  <2> QED
    BY <1>0, <1>4, <2>1, <2>3, <2>4
<1>6. ASSUME NEW result \in {"rejected", "skipped", "scheduled"}, StoreDecision(s, result)
      PROVE  RailInv'
  <2>1. /\ Insert(s, key, result) /\ (result = "scheduled" => num[s] < RetryLimit)
        /\ UNCHANGED <<railState, optedOut, captured, deadSessions>>
        /\ waiting' \in {waiting, TRUE} /\ Leave(s)
    BY <1>6 DEF StoreDecision
  <2>2. Len(rows') = Len(rows) + 1
    BY <1>0, <2>1 DEF Insert
  <2>3. /\ SessShape' /\ place'[s] \in {"new", "done"} /\ \A t \in Sessions : t # s => Same(t)
    BY <1>0, <2>1, <2>2, LeaveMoves
  <2>4. ~Engaged(s)'
    BY <2>3 DEF Engaged
  <2> QED
    BY <1>0, <1>4, <2>1, <2>3, <2>4
<1> QED
  BY <1>5, <1>6

LEMMA PressKeeps ==
  ASSUME RailInv, NEW t \in Taps, PageMints(t)
  PROVE  RailInv'
<1> PICK key : key = <<"selfserve", snap[t].used>>
  OBVIOUS
<1>0. /\ rows \in Seq(RowShape) /\ SessShape /\ Len(rows) \in Nat /\ Len(rows) <= MaxRailRows
      /\ t \in Sessions /\ waiting \in BOOLEAN
  BY ShapeParts, RowsTyped, RailConstants DEF RailInv
<1>1. key \in KeyShape /\ key[1] = "selfserve" /\ Charged(key)
  BY <1>0 DEF SessShape, KeyShape, Charged
<1>2. snap[t].used + 1 \in 0 .. Len(rows) + 1
  BY <1>0, RailConstants DEF SessShape
<1>3. /\ key \notin Keys /\ Insert(t, key, "pending")
      /\ UNCHANGED <<railState, waiting, optedOut, captured, snap, num, minted, deadSessions>>
      /\ on' = [on EXCEPT ![t] = Len(rows) + 1] /\ place[t] = "look"
      /\ place' = [place EXCEPT ![t] = "calling"]
  BY DEF PageMints, At
<1>4. Len(rows) + 1 \in 0 .. MaxRailRows /\ Len(rows') = Len(rows) + 1
  BY <1>0, <1>3, RailConstants DEF Insert
<1>5. SessShape'
  <2>1. \A u \in Sessions : snap'[u].used <= Len(rows')
    BY <1>0, <1>3, <1>4, RailConstants DEF SessShape
  <2> QED
    BY <1>0, <1>3, <1>4, <2>1 DEF SessShape, SessionPlaces
<1>6. /\ \A u \in Sessions : u # t => Same(u)
      /\ place'[t] = "calling" /\ on'[t] = Len(rows) + 1
  BY <1>0, <1>3 DEF SessShape, Same
<1>7. Pressed \subseteq Pressed' /\ Pressed' # Pressed
  <2>1. t \notin Pressed /\ t \in Pressed'
    BY <1>3, <1>6 DEF Pressed
  <2> QED
    BY <1>6, <2>1, RailConstants DEF Pressed, Same
<1>8. Adds(t, key, "pending")
  BY <1>0, <1>1, <1>2, <1>3, <1>5, <1>6, <1>7 DEF Adds, Insert
<1> QED
  BY <1>0, <1>8, InsertKeeps

-----------------------------------------------------------------------------
(* The link sweeps, captures, opt-outs                                      *)

\* No row is written that a session has in hand, but for what a session counts on.
LEMMA ManyRows ==
  ASSUME RailInv, NEW f \in [DOMAIN rows -> RowShape], rows' = f,
         \A m \in DOMAIN rows :
           /\ f[m].key = rows[m].key /\ f[m].known = rows[m].known
           /\ f[m].result \in {rows[m].result} \cup Verdicts
           /\ f[m].link = "none" <=> rows[m].link = "none"
           /\ ~rows[m].known => f[m].link = rows[m].link,
         captured' \subseteq DOMAIN rows, railState' \in {"open"} \cup Closed,
         UNCHANGED <<railUsed, waiting, optedOut, sessVars, deadSessions>>, NewestPayable'
  PROVE  RailInv'
<1>0. /\ rows \in Seq(RowShape) /\ RailShape /\ SessShape
  BY ShapeParts DEF RailInv
<1>1. rows' \in Seq(RowShape) /\ Len(rows') = Len(rows) /\ DOMAIN rows' = DOMAIN rows
  BY <1>0, RowsRewritten
<1>2. SessShape' /\ Pressed' = Pressed /\ \A t \in Sessions : Same(t)
  BY <1>0, <1>1 DEF sessVars, SessShape, Pressed, Same
<1>3. RailShape'
  BY <1>0, <1>1, <1>2, ShapeParts
<1>4. KeysUnique' /\ SelfCounted'
  BY <1>1, <1>2, KeysStay
<1>5. RowsCharged'
  <2>1. ASSUME NEW m \in DOMAIN rows
        PROVE  /\ f[m].result \in {"scheduled"} \cup InFlight \/ f[m].link # "none"
                    => Charged(f[m].key)
               /\ f[m].result \in {"scheduled", "claimed"} => ~f[m].known
    BY DEF RailInv, RowsCharged, InFlight, Verdicts
  <2> QED
    BY <1>1, <2>1 DEF RowsCharged, Charged
<1>6. RowInHand'
  <2>1. ASSUME NEW t \in Sessions, Engaged(t)' PROVE BusyRow(t)'
    <3>1. Same(t) /\ Engaged(t) /\ BusyRow(t)
      BY <1>2, <2>1 DEF Same, Engaged, RailInv, RowInHand
    <3>2. on[t] \in DOMAIN rows' /\ rows'[on[t]] = f[on[t]]
      BY <1>1, <3>1 DEF BusyRow
    <3> QED
      BY <3>1, <3>2 DEF BusyRow, Same, Charged, Verdicts
  <2>2. \A t, u \in Sessions : Engaged(t)' /\ Engaged(u)' /\ on'[t] = on'[u] => t = u
    BY <1>2 DEF Same, Engaged, RailInv, RowInHand
  <2> QED
    BY <2>1, <2>2 DEF RowInHand
<1> QED
  BY <1>3, <1>4, <1>5, <1>6 DEF RailInv

LEMMA PagesAreKnown ==
  /\ railState = "open" => ClosedPage = {}
  /\ railState # "open" => SupersededPage = {}
  /\ ClosedPage \subseteq Known /\ SupersededPage \subseteq Known
  /\ \A n \in SupersededPage : \E m \in Known : n < m
  BY DEF ClosedPage, SupersededPage, Oldest

LEMMA OlderIsNotNewest ==
  ASSUME rows \in Seq(RowShape), NEW n \in SupersededPage, Newest(n)
  PROVE  FALSE
<1>1. PICK m \in Known : n < m
  BY PagesAreKnown
<1>2. n \in Known /\ m <= n
  BY <1>1 DEF Newest
<1>3. n \in Nat /\ m \in Nat
  BY <1>1, <1>2, RowsTyped DEF Known
<1> QED
  BY <1>1, <1>2, <1>3

\* A sweep spares the newest link of an open case.
LEMMA SweepKeeps ==
  ASSUME RailInv, NEW reached \in SUBSET DOMAIN rows, LinkSweep(reached)
  PROVE  RailInv'
<1> PICK f : f = [n \in DOMAIN rows |->
                    IF n \notin reached THEN rows[n]
                    ELSE [rows[n] EXCEPT !.stamped = TRUE,
                            !.link = IF rows[n].link = "live" THEN "dead" ELSE rows[n].link]]
  OBVIOUS
<1>0. /\ rows \in Seq(RowShape) /\ RailShape /\ DOMAIN rows = 1 .. Len(rows) /\ Len(rows) \in Nat
      /\ \A m \in DOMAIN rows : rows[m] \in RowShape
  BY ShapeParts, RowsTyped DEF RailInv
<1>1. /\ rows' = f /\ UNCHANGED <<railVars, captured, sessVars, deadSessions>> /\ reached # {}
      /\ reached \subseteq ClosedPage \/ reached \subseteq SupersededPage
  BY DEF LinkSweep, CancelLinks
<1>2. ASSUME NEW m \in DOMAIN rows
      PROVE  /\ f[m] \in RowShape /\ f[m].key = rows[m].key /\ f[m].known = rows[m].known
             /\ f[m].result = rows[m].result
             /\ f[m].link = "none" <=> rows[m].link = "none"
             /\ m \notin reached => f[m] = rows[m]
  <2>1. CASE m \notin reached
    BY <1>0, <2>1
  <2>2. CASE m \in reached
    <3>1. PICK link : link = IF rows[m].link = "live" THEN "dead" ELSE rows[m].link
      OBVIOUS
    <3>2. f[m] = [rows[m] EXCEPT !.stamped = TRUE, !.link = link]
      BY <2>2, <3>1
    <3>3. rows[m] \in RowShape /\ link \in {"none", "live", "dead", "paid"}
          /\ (link = "none" <=> rows[m].link = "none")
      BY <1>0, <3>1 DEF RowShape
    <3> QED
      BY <2>2, <3>2, <3>3 DEF RowShape
  <2> QED
    BY <2>1, <2>2
<1>3. f \in [DOMAIN rows -> RowShape]
  BY <1>2
<1>4. \A m \in DOMAIN rows : ~rows[m].known => f[m].link = rows[m].link
  BY <1>1, <1>2, PagesAreKnown DEF Known
<1>5. NewestPayable'
  <2>1. Known' = Known /\ railState' = railState
    <3>1. DOMAIN rows' = DOMAIN rows /\ \A m \in DOMAIN rows : rows'[m].known = rows[m].known
      BY <1>1, <1>2, <1>3
    <3>2. Known' = Known
      BY <3>1 DEF Known
    <3> QED
      BY <1>1, <3>2 DEF railVars
  <2>2. \A m : Newest(m)' <=> Newest(m)
    BY <2>1 DEF Newest
  <2>3. ASSUME railState = "open", Known # {}
        PROVE  \E m \in DOMAIN rows' : Newest(m)' /\ rows'[m].link \in {"live", "paid"}
    <3>1. PICK m \in DOMAIN rows : Newest(m) /\ rows[m].link \in {"live", "paid"}
      BY <2>3 DEF RailInv, NewestPayable
    <3>2. m \notin reached
      <4>1. reached \subseteq SupersededPage
        BY <1>1, <2>3, PagesAreKnown
      <4>2. ASSUME m \in SupersededPage PROVE FALSE
        BY <1>0, <3>1, <4>2, OlderIsNotNewest
      <4> QED
        BY <4>1, <4>2
    <3>3. rows'[m] = rows[m] /\ m \in DOMAIN rows'
      BY <1>1, <1>2, <3>2
    <3> QED
      BY <2>2, <3>1, <3>3
  <2> QED
    BY <2>1, <2>3 DEF NewestPayable
<1>6. /\ captured' \subseteq DOMAIN rows /\ railState' \in {"open"} \cup Closed
      /\ UNCHANGED <<railUsed, waiting, optedOut, sessVars, deadSessions>>
  BY <1>0, <1>1, ShapeParts DEF railVars
<1>7. /\ rows' = f
      /\ \A m \in DOMAIN rows :
           /\ f[m].key = rows[m].key /\ f[m].known = rows[m].known
           /\ f[m].result \in {rows[m].result} \cup Verdicts
           /\ f[m].link = "none" <=> rows[m].link = "none"
           /\ ~rows[m].known => f[m].link = rows[m].link
  BY <1>1, <1>2, <1>4
<1> QED
  BY ONLY RailInv, <1>3, <1>5, <1>6, <1>7, ManyRows

LEMMA CaptureKeeps ==
  ASSUME RailInv, NEW n \in DOMAIN rows, Capture(n)
  PROVE  RailInv'
<1> PICK f : f = [m \in DOMAIN rows |->
                    IF railState = "open" /\ m \in With(InFlight)
                      THEN [rows[m] EXCEPT !.result = "superseded"] ELSE rows[m]]
  OBVIOUS
<1>0. /\ rows \in Seq(RowShape) /\ RailShape /\ railState \in {"open"} \cup Closed
      /\ DOMAIN rows = 1 .. Len(rows)
      /\ captured \subseteq DOMAIN rows /\ \A m \in DOMAIN rows : rows[m] \in RowShape
  BY ShapeParts, RowsTyped DEF RailInv
<1>1. rows = [m \in DOMAIN rows |-> rows[m]]
  BY <1>0
<1>2. rows' = f
  BY <1>1 DEF Capture
<1>3. /\ captured' = captured \cup {n} /\ railState' \in Closed
      /\ UNCHANGED <<railUsed, waiting, optedOut, sessVars, deadSessions>>
  BY <1>0 DEF Capture, Closed
<1>4. ASSUME NEW m \in DOMAIN rows
      PROVE  /\ f[m] \in RowShape /\ f[m].key = rows[m].key /\ f[m].known = rows[m].known
             /\ f[m].link = rows[m].link /\ f[m].result \in {rows[m].result} \cup Verdicts
  BY <1>0 DEF RowShape, Verdicts
<1>5. f \in [DOMAIN rows -> RowShape]
  BY <1>4
<1>6. NewestPayable'
  BY <1>3 DEF NewestPayable, Closed
<1> QED
  BY <1>0, <1>2, <1>3, <1>4, <1>5, <1>6, ManyRows

LEMMA CaseMoves ==
  ASSUME RailInv, RailOptOut \/ WaitOver
  PROVE  RailInv'
<1>1. /\ SessShape /\ waiting \in BOOLEAN /\ optedOut \in BOOLEAN
      /\ deadSessions \in 0 .. MaxDeadSessions
  BY ShapeParts DEF RailInv
<1>2. /\ UNCHANGED <<rows, captured, railUsed, sessVars, deadSessions>>
      /\ railState' \in {railState} \cup Closed /\ waiting' \in BOOLEAN /\ optedOut' \in BOOLEAN
  BY <1>1 DEF RailOptOut, WaitOver, Closed
<1>3. SessShape' /\ Pressed' = Pressed /\ \A t \in Sessions : Same(t)
  BY <1>1, <1>2 DEF sessVars, SessShape, Pressed, Same
<1> QED
  BY <1>1, <1>2, <1>3, QuietSessions

LEMMA RailStarts == PayInit => RailInv
<1> SUFFICES ASSUME PayInit PROVE RailInv
  OBVIOUS
<1>1. rows \in Seq(RowShape) /\ Len(rows) = 0 /\ DOMAIN rows = {}
  BY DEF PayInit
<1>2. \A s \in Sessions : place[s] = "new" /\ snap[s].used = 0
  BY DEF PayInit, Unset
<1>3. RailShape
  <2>1. Unset \in [state : {"open"} \cup Closed, used : 0 .. MaxRailRows]
    BY RailConstants DEF Unset
  <2>2. /\ place \in [Sessions -> SessionPlaces] /\ num \in [Sessions -> 0 .. MaxRailRows]
        /\ snap \in [Sessions -> [state : {"open"} \cup Closed, used : 0 .. MaxRailRows]]
        /\ on \in [Sessions -> 0 .. MaxRailRows] /\ minted \in [Sessions -> BOOLEAN]
    BY <2>1, RailConstants DEF PayInit, SessionPlaces
  <2>3. SessShape
    BY <1>1, <1>2, <2>2 DEF SessShape
  <2>4. /\ railState \in {"open"} \cup Closed /\ railUsed \in 0 .. Len(rows)
        /\ waiting \in BOOLEAN /\ optedOut \in BOOLEAN
        /\ Len(rows) <= MaxRailRows /\ captured \subseteq DOMAIN rows
        /\ deadSessions \in 0 .. MaxDeadSessions
    <3>1. /\ railState = "open" /\ railUsed = 0 /\ waiting = FALSE /\ optedOut = FALSE
          /\ captured = {} /\ deadSessions = 0
      BY DEF PayInit
    <3>2. railUsed \in 0 .. Len(rows) /\ Len(rows) <= MaxRailRows
      BY <1>1, <3>1, RailConstants
    <3>3. deadSessions \in 0 .. MaxDeadSessions
      BY <3>1, RailConstants
    <3>4. waiting \in BOOLEAN /\ optedOut \in BOOLEAN
      BY <3>1
    <3>5. railState \in {"open"} \cup Closed /\ captured \subseteq DOMAIN rows
      BY <3>1
    <3> QED
      BY <3>2, <3>3, <3>4, <3>5
  <2> QED
    BY <1>1, <2>3, <2>4, ShapeParts
<1>4. SelfCounted
  <2>1. SelfServed = {} /\ Pressed = {}
    BY <1>1, <1>2, RailConstants DEF SelfServed, Pressed
  <2> QED
    BY <2>1, FS_EmptySet DEF SelfCounted
<1>5. KeysUnique /\ RowsCharged
  BY <1>1 DEF KeysUnique, RowsCharged
<1>6. RowInHand
  BY <1>2 DEF RowInHand, Engaged
<1>7. NewestPayable
  BY <1>1 DEF NewestPayable, Known
<1> QED
  BY <1>3, <1>4, <1>5, <1>6, <1>7 DEF RailInv

LEMMA RailStep == RailInv /\ [PayNext]_payVars => RailInv'
<1> SUFFICES ASSUME RailInv, [PayNext]_payVars PROVE RailInv'
  OBVIOUS
<1>1. CASE \E w \in Webhooks : HandlerStep(w)
  BY <1>1, TalkKeeps, DecisionKeeps, RailConstants DEF HandlerStep
<1>2. CASE \E t \in Taps : PageStep(t)
  BY <1>2, TalkKeeps, PressKeeps, RailConstants DEF PageStep
<1>3. CASE \E s \in Sessions : Execute(s) \/ Dies(s)
  BY <1>3, TalkKeeps, ExecuteKeeps
<1>4. CASE FireStep
  BY <1>4, SchedulerKeeps
<1>5. CASE \E n \in DOMAIN rows : RowStep(n) \/ Pay(n) \/ Capture(n)
  BY <1>5, SchedulerKeeps, RowMoves, CaptureKeeps DEF RowStep
<1>6. CASE \E reached \in SUBSET DOMAIN rows : LinkSweep(reached)
  BY <1>6, SweepKeeps
<1>7. CASE RailOptOut \/ WaitOver
  BY <1>7, CaseMoves
<1>8. CASE UNCHANGED payVars
  <2>1. /\ SessShape /\ waiting \in BOOLEAN /\ optedOut \in BOOLEAN
        /\ deadSessions \in 0 .. MaxDeadSessions
    BY ShapeParts DEF RailInv
  <2>2. UNCHANGED <<railVars, rows, captured, sessVars, deadSessions>>
    BY <1>8 DEF payVars
  <2>3. SessShape' /\ Pressed' = Pressed /\ \A t \in Sessions : Same(t)
    BY <2>1, <2>2 DEF sessVars, SessShape, Pressed, Same
  <2> QED
    BY <2>1, <2>2, <2>3, QuietSessions DEF railVars
<1> QED
  BY <1>1, <1>2, <1>3, <1>4, <1>5, <1>6, <1>7, <1>8 DEF PayNext

-----------------------------------------------------------------------------
(* Theorems                                                                 *)

\* Every state has the declared types, whichever sessions die and overlap.
THEOREM RailTypeCorrect == PaySpec => []PayTypeOK
<1>1. PayInit => RailInv
  BY RailStarts
<1>2. RailInv /\ [PayNext]_payVars => RailInv'
  BY RailStep
<1>3. RailInv => PayTypeOK
  BY DEF RailInv, RailShape
<1> QED
  BY <1>1, <1>2, <1>3, PTL DEF PaySpec

\* LinksWithinBudget: however many failure events arrive and whoever dies, the links of
\* a payment are at most its retry budget and one for each press of the pay button.
THEOREM LinksStayWithinBudget == PaySpec => []LinksWithinBudget
<1>1. PayInit => RailInv
  BY RailStarts
<1>2. RailInv /\ [PayNext]_payVars => RailInv'
  BY RailStep
<1>3. RailInv => LinksWithinBudget
  BY BudgetKept
<1> QED
  BY <1>1, <1>2, <1>3, PTL DEF PaySpec

\* Of all steps only a sweep kills a link.
LEMMA OnlySweepsKill ==
  ASSUME RailInv, [PayNext]_payVars, NEW n \in DOMAIN rows,
         rows[n].link = "live", rows'[n].link = "dead"
  PROVE  \E reached \in SUBSET DOMAIN rows : LinkSweep(reached)
<1>0. /\ rows \in Seq(RowShape) /\ Len(rows) \in Nat /\ DOMAIN rows = 1 .. Len(rows)
      /\ \A m \in DOMAIN rows : rows[m] \in RowShape
  BY ShapeParts, RowsTyped DEF RailInv
<1>1. ASSUME rows' = rows PROVE FALSE
  BY <1>1
<1>2. ASSUME NEW s, NEW key, NEW result, Insert(s, key, result) PROVE FALSE
  <2>1. PICK new : /\ new = [key |-> key, result |-> result, link |-> "none",
                             known |-> FALSE, stamped |-> FALSE]
                   /\ rows' = Append(rows, new)
    BY <1>2 DEF Insert
  <2>2. rows'[n] = rows[n]
    BY <1>0, <2>1
  <2> QED
    BY <2>2
<1>3. ASSUME NEW m, NEW result, SetResult(m, result) PROVE FALSE
  <2>1. rows'[n].link = rows[n].link
    BY <1>0, <1>3 DEF SetResult, RowShape
  <2> QED
    BY <2>1
<1>4. ASSUME NEW w \in Webhooks, HandlerStep(w) PROVE FALSE
  BY <1>1, <1>2, <1>4 DEF HandlerStep, HardDecline, PaymentStopped, AskAgent, BuildKey,
     AlreadyExecuted, Revalidate, StoppedUnderLock, LostRace, WriteAhead, StoreDecision
<1>5. ASSUME NEW t \in Taps, PageStep(t) PROVE FALSE
  BY <1>1, <1>2, <1>5 DEF PageStep, PageRefuses, PageOpens, PageMints, PageRefusesLate
<1>6. ASSUME NEW s \in Sessions, Execute(s) PROVE FALSE
  <2>1. CASE Record(s)
    <3>1. rows'[n].link = rows[n].link
      BY <1>0, <2>1 DEF Record, RowShape
    <3> QED
      BY <3>1
  <2>2. ASSUME NEW ok \in BOOLEAN, Answer(s, ok) PROVE FALSE
    <3>1. rows'[n].link \in {rows[n].link, "live"}
      BY <1>0, <2>2 DEF Answer, RowShape
    <3> QED
      BY <3>1
  <2> QED
    BY <1>6, <2>1, <2>2 DEF Execute
<1>7. ASSUME NEW s \in Sessions, Dies(s) PROVE FALSE
  BY <1>1, <1>7 DEF Dies
<1>8. ASSUME FireStep PROVE FALSE
  BY <1>3, <1>8 DEF FireStep, FireCancels, FireRejects, Fires
<1>9. ASSUME NEW m \in DOMAIN rows, RowStep(m) PROVE FALSE
  BY <1>3, <1>9 DEF RowStep, Claim, StaleResolves
<1>10. ASSUME NEW m \in DOMAIN rows, Pay(m) PROVE FALSE
  <2>1. rows'[n].link \in {rows[n].link, "paid"}
    BY <1>0, <1>10 DEF Pay, RowShape
  <2> QED
    BY <2>1
<1>11. ASSUME NEW m \in DOMAIN rows, Capture(m) PROVE FALSE
  <2>1. rows'[n].link = rows[n].link
    <3>1. rows[n] \in RowShape
      BY <1>0
    <3>2. rows'[n] \in {rows[n], [rows[n] EXCEPT !.result = "superseded"]}
      BY <1>11 DEF Capture
    <3> QED
      BY <3>1, <3>2 DEF RowShape
  <2> QED
    BY <2>1
<1>12. ASSUME RailOptOut \/ WaitOver \/ UNCHANGED payVars PROVE FALSE
  BY <1>1, <1>12 DEF RailOptOut, WaitOver, payVars
<1> QED
  BY <1>4, <1>5, <1>6, <1>7, <1>8, <1>9, <1>10, <1>11, <1>12 DEF PayNext

LEMMA SparesOne ==
  ASSUME RailInv, [PayNext]_payVars, NEW n \in DOMAIN rows,
         railState = "open", rows[n].link = "live", rows'[n].link = "dead"
  PROVE  \E m \in Known : n < m /\ rows'[m].link \in {"live", "paid"}
<1>0. /\ rows \in Seq(RowShape) /\ Len(rows) \in Nat /\ DOMAIN rows = 1 .. Len(rows)
  BY ShapeParts, RowsTyped DEF RailInv
<1>1. PICK reached \in SUBSET DOMAIN rows : LinkSweep(reached)
  BY OnlySweepsKill
<1>2. reached # {} /\ reached \subseteq SupersededPage
  BY <1>1, PagesAreKnown DEF LinkSweep, CancelLinks
<1>3. \A m \in DOMAIN rows : m \notin reached => rows'[m] = rows[m]
  BY <1>1 DEF LinkSweep, CancelLinks
<1>4. n \in SupersededPage /\ n \in Known
  BY <1>2, <1>3, PagesAreKnown
<1>5. PICK m \in DOMAIN rows : Newest(m) /\ rows[m].link \in {"live", "paid"}
  BY <1>4 DEF RailInv, NewestPayable
<1>6. m \notin SupersededPage
  BY <1>0, <1>5, OlderIsNotNewest
<1>7. rows'[m] = rows[m] /\ m \in Known /\ n <= m /\ n # m
  BY <1>2, <1>3, <1>4, <1>5, <1>6 DEF Newest
<1>8. n < m
  BY <1>0, <1>7 DEF Known
<1> QED
  BY <1>5, <1>7, <1>8

\* OnePayableLeft: while the case is open, cancel_superseded_links kills no link unless a
\* newer one on record is payable or paid; no other step kills one.
THEOREM NewestIsSpared == PaySpec => OnePayableLeft
<1> DEFINE Spared == \A n \in DOMAIN rows :
                       railState = "open" /\ rows[n].link = "live" /\ rows'[n].link = "dead"
                         => \E m \in Known : n < m /\ rows'[m].link \in {"live", "paid"}
<1>1. PayInit => RailInv
  BY RailStarts
<1>2. RailInv /\ [PayNext]_payVars => RailInv'
  BY RailStep
<1>3. RailInv /\ [PayNext]_payVars => [Spared]_payVars
  BY SparesOne
<1>4. PaySpec => [][Spared]_payVars
  <2> HIDE DEF Spared
  <2> QED
    BY <1>1, <1>2, <1>3, PTL DEF PaySpec
<1> QED
  BY <1>4 DEF OnePayableLeft

-----------------------------------------------------------------------------
(* The agreements and the links side by side                                *)

\* Each step of the composition is one of its part, and leaves the other alone.
LEMMA BothSteps == [Next]_bothVars => [CommitNext]_commitVars /\ [PayNext]_payVars
<1>1. CASE UNCHANGED bothVars
  BY <1>1 DEF bothVars
<1>2. CASE Next
  BY <1>2 DEF Next
<1> QED
  BY <1>1, <1>2

\* A behaviour of the two is a behaviour of each: what is proved of a part holds of it there.
THEOREM BothAreThemselves == Spec => CommitSpec /\ PaySpec
<1>1. Init => CommitInit /\ PayInit
  BY DEF Init
<1> QED
  BY <1>1, BothSteps, PTL DEF Spec, CommitSpec, PaySpec

\* The types of both.
THEOREM BothTypeCorrect == Spec => []BothTypeOK
<1>1. CommitTypeOK /\ PayTypeOK => BothTypeOK
  BY DEF BothTypeOK
<1> QED
  BY <1>1, BothAreThemselves, AgreementsTypeCorrect, RailTypeCorrect, PTL

=============================================================================
