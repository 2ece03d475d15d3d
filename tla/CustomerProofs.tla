--------------------------- MODULE CustomerProofs ---------------------------
(****************************************************************************)
(* Proofs about what a customer meets: the pages (CustomerPages), for any   *)
(* cases, owners, accounts and links; the tally of contacts                 *)
(* (ContactLedger), for any number of sessions, contacts and crashes; and   *)
(* the rules of contact (ContactRules), for any blackout, policy table,     *)
(* backoff and notice. The two rails together lose bumps of the tally, for  *)
(* chase_case writes back the copy it read first: what holds of it is       *)
(* proved for the payment rail alone.                                       *)
(****************************************************************************)
EXTENDS ContactLedger, CustomerPages, ContactRules, FiniteLemmas

\* The case whose button a page bears is one of the cases it is about.
LEMMA ChosenIsOne ==
  ASSUME NEW S \in SUBSET PageCases, S # {}
  PROVE  Newest(S) \in S /\ First(S) \in S
<1>1. IsFiniteSet(S)
  BY PagesAssumption, FS_Subset
<1>2. \E c \in S : \A d \in S : Newer[d] <= Newer[c]
  <2>1. [c \in S |-> Newer[c]] \in [S -> Int]
    BY PagesAssumption
  <2> QED
    BY <1>1, <2>1, GreatestExists
<1>3. \E c \in S : \A d \in S : Newer[c] <= Newer[d]
  <2> DEFINE down == [c \in S |-> 0 - Newer[c]]
  <2>1. \A c \in S : Newer[c] \in Int
    BY PagesAssumption
  <2>2. down \in [S -> Int] /\ \A c \in S : down[c] = 0 - Newer[c]
    BY <2>1
  <2> HIDE DEF down
  <2>3. PICK c \in S : \A d \in S : down[d] <= down[c]
    BY <1>1, <2>2, GreatestExists
  <2> QED
    BY <2>1, <2>2, <2>3
<1> QED
  BY <1>2, <1>3 DEF Newest, First
-----------------------------------------------------------------------------
(* Types                                                                    *)

LEMMA PagesConstants ==
  /\ LinkHours \in Nat /\ ConsoleHours \in Nat /\ PageClock \in Nat /\ Consent \in Nat
  /\ Anyone \notin Buyers /\ NoBook \notin Books
  BY PagesAssumption

\* A person's cases are cases.
LEMMA OwnCases ==
  \A c \in PageCases : Belongings(c) \subseteq PageCases
  BY DEF Belongings

\* A copy of a link handed out now keeps the wallet within its bound.
LEMMA MintedInBounds ==
  ASSUME PagesTypeOK, NEW links, NEW hours \in {LinkHours, ConsoleHours}, Mint(links, hours)
  PROVE  wallet' \in [Links -> 0..(PageClock + LinkHours + ConsoleHours)]
<1>1. hour + hours \in 0..(PageClock + LinkHours + ConsoleHours)
  BY PagesConstants DEF PagesTypeOK
<1>2. \A link \in Links :
        LaterHour(wallet[link], hour + hours) \in 0..(PageClock + LinkHours + ConsoleHours)
  BY <1>1 DEF LaterHour, PagesTypeOK
<1> QED
  BY <1>2 DEF Mint, PagesTypeOK

\* Every reachable state is well typed: in particular no copy of a link outlives what
\* the engine mints, however often it is renewed.
THEOREM PagesTypeCorrect == PagesSpec => []PagesTypeOK
<1>1. PagesInit => PagesTypeOK
  BY PagesConstants DEF PagesInit, PagesTypeOK
<1>2. PagesTypeOK /\ [PagesNext]_pagesVars => PagesTypeOK'
  <2> SUFFICES ASSUME PagesTypeOK, [PagesNext]_pagesVars PROVE PagesTypeOK'
    OBVIOUS
  <2> USE PagesConstants DEF PagesTypeOK
  <2>1. ASSUME NEW c \in PageCases, OpenPage(c) \/ OpenHome(c) \/ SendCaseLink(c) \/ ConsoleOpens(c)
        PROVE  PagesTypeOK'
    <3>1. wallet' \in [Links -> 0..(PageClock + LinkHours + ConsoleHours)]
      BY <2>1, MintedInBounds DEF OpenPage, OpenHome, SendCaseLink, ConsoleOpens
    <3> QED
      BY <2>1, <3>1 DEF OpenPage, OpenHome, SendCaseLink, ConsoleOpens
  <2>2. ASSUME NEW b \in Books, OpenStatement(b) \/ SendStatement(b) PROVE PagesTypeOK'
    <3>1. wallet' \in [Links -> 0..(PageClock + LinkHours + ConsoleHours)]
      BY <2>2, MintedInBounds DEF OpenStatement, SendStatement
    <3> QED
      BY <2>2, <3>1 DEF OpenStatement, SendStatement
  <2>3. ASSUME NEW c \in PageCases, StopFrom(c) PROVE PagesTypeOK'
    BY <2>3, OwnCases DEF StopFrom, OpenCases
  <2>4. ASSUME NEW c \in PageCases, OptOutOn(c) \/ HomeStop(c) PROVE PagesTypeOK'
    <3>1. Belongings(c) # {} => Newest(Belongings(c)) \in PageCases
      BY OwnCases, ChosenIsOne
    <3> QED
      BY <2>3, <2>4, <3>1 DEF OptOutOn, HomeStop
  <2>5. ASSUME NEW b \in Books, StatementStop(b) PROVE PagesTypeOK'
    <3>1. StatementRows(b) \subseteq PageCases
      BY DEF StatementRows, OpenCases
    <3> QED
      BY <2>3, <2>5, <3>1, ChosenIsOne DEF StatementStop
  <2>6. ASSUME NEW c \in PageCases,
               PressPay(c) \/ PayResolves(c) \/ EngineTries(c) \/ CloseAs(c) \/ Captured(c)
        PROVE  PagesTypeOK'
    BY <2>6 DEF PressPay, PayResolves, EngineTries, CloseAs, Captured, Closings
  <2>7. CASE HourPasses
    BY <2>7 DEF HourPasses
  <2>8. CASE UNCHANGED pagesVars
    BY <2>8 DEF pagesVars
  <2> QED
    BY <2>1, <2>2, <2>4, <2>5, <2>6, <2>7, <2>8 DEF PagesNext
<1> QED
  BY <1>1, <1>2, PTL DEF PagesSpec

-----------------------------------------------------------------------------
(* A stop is final                                                          *)

\* What a stop was about is closed, and stays closed: only open cases are tried, closed
\* or captured into another state, and no page pays for a case that is not open.
StoppedAreClosed == \A c \in stopped : standing[c] # "open"

\* The stop closes everything it was about.
LEMMA StopReaches ==
  ASSUME NEW c \in PageCases
  PROVE  OpenCases({c} \cup Belongings(c)) \subseteq Stops(c) /\ Stops(c) \subseteq PageCases
  BY DEF OpenCases, Stops, Belongings

LEMMA StopFinal ==
  ASSUME PagesTypeOK, StoppedAreClosed, [PagesNext]_pagesVars
  PROVE  StoppedAreClosed'
<1>0. standing \in [PageCases -> {"open", "recovered", "opted_out"} \cup Closings]
      /\ stopped \subseteq PageCases
  BY DEF PagesTypeOK
<1> USE <1>0 DEF StoppedAreClosed
<1>1. ASSUME NEW c \in PageCases, StopFrom(c) PROVE StoppedAreClosed'
  BY <1>1, StopReaches DEF StopFrom
<1>2. ASSUME NEW c \in PageCases, OptOutOn(c) \/ HomeStop(c) PROVE StoppedAreClosed'
  <2>1. Belongings(c) # {} => Newest(Belongings(c)) \in PageCases
    BY OwnCases, ChosenIsOne
  <2> QED
    BY <1>1, <1>2, <2>1 DEF OptOutOn, HomeStop
<1>3. ASSUME NEW b \in Books, StatementStop(b) PROVE StoppedAreClosed'
  <2>1. StatementRows(b) \subseteq PageCases
    BY DEF StatementRows, OpenCases
  <2> QED
    BY <1>1, <1>3, <2>1, ChosenIsOne DEF StatementStop
<1>4. ASSUME NEW c \in PageCases, EngineTries(c) \/ CloseAs(c) \/ Captured(c)
      PROVE  StoppedAreClosed'
  BY <1>4 DEF EngineTries, CloseAs, Captured
<1>5. ASSUME NEW c \in PageCases,
             OpenPage(c) \/ OpenHome(c) \/ PressPay(c) \/ PayResolves(c) \/ SendCaseLink(c)
             \/ ConsoleOpens(c)
      PROVE  StoppedAreClosed'
  BY <1>5 DEF OpenPage, OpenHome, PressPay, PayResolves, SendCaseLink, ConsoleOpens
<1>6. ASSUME NEW b \in Books, OpenStatement(b) \/ SendStatement(b) PROVE StoppedAreClosed'
  BY <1>6 DEF OpenStatement, SendStatement
<1>7. CASE HourPasses \/ UNCHANGED pagesVars
  BY <1>7 DEF HourPasses, pagesVars
<1> QED
  BY <1>2, <1>3, <1>4, <1>5, <1>6, <1>7 DEF PagesNext

\* A case that can be paid is open, not paid in full, and nothing is in flight on it.
LEMMA PayableIsOpen ==
  ASSUME PagesTypeOK, NEW c \in PageCases, View(c) = "payable"
  PROVE  standing[c] = "open" /\ paid[c] # "all"
<1>1. standing[c] \in {"open", "recovered", "opted_out"} \cup Closings
  BY DEF PagesTypeOK
<1> QED
  BY <1>1 DEF View

\* Whatever pages a person opens, in whatever order: what they can pay is where the lists
\* say it is, and once they pressed stop on any page no page offers them payment again
\* (customer_home and statement_page against _view_state; record_opt_out).
THEOREM PagesTellOneStory == PagesSpec => []PagesAgree
<1>1. PagesInit => StoppedAreClosed
  BY DEF PagesInit, StoppedAreClosed
<1>2. PagesTypeOK /\ StoppedAreClosed => PagesAgree
  <2> SUFFICES ASSUME PagesTypeOK, StoppedAreClosed PROVE PagesAgree
    OBVIOUS
  <2>1. StopHolds
    BY PayableIsOpen DEF StopHolds, StoppedAreClosed, PagesTypeOK
  <2>2. ASSUME NEW c \in PageCases, View(c) = "payable", tie.owner[c] # Anyone
        PROVE  c \in OpenRows(c)
    BY <2>2, PayableIsOpen DEF OpenRows, Belongings, Settled
  <2>3. ASSUME NEW c \in PageCases, View(c) = "payable"
        PROVE  c \in StatementRows(tie.book[c])
    BY <2>3, PayableIsOpen DEF StatementRows, OpenCases
  <2> QED
    BY <2>1, <2>2, <2>3 DEF PagesAgree, NothingPayableIsHidden
<1> QED
  BY <1>1, <1>2, StopFinal, PagesTypeCorrect, PTL DEF PagesSpec

-----------------------------------------------------------------------------
(* The tally                                                                *)

LEMMA LedgerConstants ==
  /\ Limit \in Nat \ {0} /\ MaxContacts \in Nat /\ MaxCrashes \in Nat
  /\ IsFiniteSet(TallyWorkers) /\ NoWorker \notin TallyWorkers /\ NoRow \notin Tallies
  BY LedgerAssumption, NoRowAssumption

\* What a tally counts, and what a bump makes of it.
LEMMA EffectiveCounts ==
  ASSUME NEW t \in Tallies \cup {NoRow}
  PROVE  /\ Effective(t) \in Nat
         /\ Bumped(t) \in Tallies /\ Bumped(t) # NoRow
         /\ Bumped(t).count = Effective(t) + 1 /\ ~Bumped(t).rolled
<1>1. Effective(t) \in Nat
  <2>1. CASE t = NoRow
    BY <2>1 DEF Effective
  <2>2. CASE t # NoRow
    BY <2>2 DEF Effective, Tallies
  <2> QED
    BY <2>1, <2>2
<1>2. Bumped(t) \in Tallies
  BY <1>1 DEF Bumped, Tallies
<1> QED
  BY <1>1, <1>2, LedgerConstants DEF Bumped

LEMMA BookedCounts == ASSUME TallyTypeOK PROVE BookedNext \in Nat
  BY LedgerConstants DEF TallyTypeOK, BookedNext, Effective, Tallies

\* Every reachable state is well typed: in particular only a session with a validated
\* message in hand holds the customer's row.
THEOREM TallyTypeCorrect == TallySpec => []TallyTypeOK
<1> USE LedgerConstants
<1>1. TallyInit => TallyTypeOK
  BY DEF TallyInit, TallyTypeOK, Places
<1>2. TallyTypeOK /\ [TallyNext]_tallyVars => TallyTypeOK'
  <2> SUFFICES ASSUME TallyTypeOK, [TallyNext]_tallyVars PROVE TallyTypeOK'
    OBVIOUS
  <2>1. ASSUME NEW w \in TallyWorkers, ContactStep(w) PROVE TallyTypeOK'
    <3> USE DEF TallyTypeOK, Places, Goto, Rest, Release
    <3>0. Seen(w) \in Tallies \cup {NoRow}
      BY DEF Seen
    <3>1. CASE BeginContact(w)
      BY <3>1 DEF BeginContact
    <3>2. CASE Refuse(w)
      BY <3>2 DEF Refuse
    <3>3. CASE Abandon(w)
      BY <3>3 DEF Abandon, Tallies
    <3>4. CASE Park(w)
      BY <3>0, <3>4, EffectiveCounts, BookedCounts DEF Park, Store
    <3>5. CASE Arm(w)
      BY <3>5 DEF Arm, LockFree
    <3>6. CASE WriteAhead(w)
      BY <3>6 DEF WriteAhead
    <3>7. CASE Contact(w) \/ AddRow(w)
      BY <3>7 DEF Contact, AddRow
    <3>8. CASE Bump(w)
      BY <3>0, <3>8, EffectiveCounts, BookedCounts DEF Bump, Store
    <3>9. CASE InsertRow(w)
      BY <3>0, <3>9, EffectiveCounts, BookedCounts DEF InsertRow, Store
    <3>10. CASE InsertLost(w)
      BY <3>10 DEF InsertLost
    <3>11. CASE Crash(w)
      BY <3>11 DEF Crash
    <3> QED
      BY <2>1, <3>1, <3>2, <3>3, <3>4, <3>5, <3>6, <3>7, <3>8, <3>9, <3>10, <3>11
      DEF ContactStep
  <2>2. CASE WindowPasses
    BY <2>2 DEF WindowPasses, TallyTypeOK, Tallies
  <2>3. CASE UNCHANGED tallyVars
    BY <2>3 DEF tallyVars, TallyTypeOK
  <2> QED
    BY <2>1, <2>2, <2>3 DEF TallyNext
<1> QED
  BY <1>1, <1>2, PTL DEF TallySpec

-----------------------------------------------------------------------------
(* The payment rail keeps no copy of the row                                *)

KeepsNoCopy ==
  /\ \A w \in TallyWorkers : rowCopy[w] = NoRow
  /\ row = NoRow => booked = 0

\* The sessions on their way to a bump are some of the sessions, and one that has
\* not passed validation is not among them.
LEMMA InFlightBounded ==
  /\ IsFiniteSet(InFlight) /\ Cardinality(InFlight) \in Nat /\ Cardinality(TallyWorkers) \in Nat
  /\ Cardinality(InFlight) <= Cardinality(TallyWorkers)
  /\ \A w \in TallyWorkers \ InFlight : Cardinality(InFlight) <= Cardinality(TallyWorkers) - 1
<1>1. InFlight \subseteq TallyWorkers
  BY DEF InFlight
<1>2. IsFiniteSet(InFlight) /\ Cardinality(InFlight) <= Cardinality(TallyWorkers)
  BY <1>1, LedgerConstants, FS_Subset
<1>3. ASSUME NEW w \in TallyWorkers \ InFlight
      PROVE  Cardinality(InFlight) <= Cardinality(TallyWorkers) - 1
  <2>1. InFlight \subseteq TallyWorkers \ {w}
    BY <1>1
  <2>2. IsFiniteSet(TallyWorkers \ {w})
        /\ Cardinality(TallyWorkers \ {w}) = Cardinality(TallyWorkers) - 1
    BY LedgerConstants, FS_RemoveElement
  <2> QED
    BY <2>1, <2>2, FS_Subset
<1> QED
  BY <1>2, <1>3, LedgerConstants, FS_CardinalityType

LEMMA TallyStep ==
  ASSUME ChaseWorkers = {}, TallyTypeOK, KeepsNoCopy, TallyHolds, [TallyNext]_tallyVars
  PROVE  KeepsNoCopy' /\ TallyHolds'
<1>0. /\ pc \in [TallyWorkers -> Places] /\ rowCopy \in [TallyWorkers -> Tallies \cup {NoRow}]
      /\ row \in Tallies \cup {NoRow} /\ booked \in Nat /\ Effective(row) \in Nat
  BY EffectiveCounts DEF TallyTypeOK
<1>a. /\ IsFiniteSet(InFlight) /\ Cardinality(InFlight) \in Nat
      /\ Cardinality(TallyWorkers) \in Nat /\ Limit \in Nat \ {0}
      /\ Effective(row) + Cardinality(InFlight) <= Limit + Cardinality(TallyWorkers) - 1
      /\ row # NoRow => row.count = booked
  BY InFlightBounded, LedgerConstants DEF TallyHolds, TallyCountsEveryBump, OverrunIsBounded
<1> USE <1>0
\* A session leaves the flight, and the tally grows by what it counted.
<1>c. ASSUME NEW w \in TallyWorkers, pc' = [pc EXCEPT ![w] = "idle"], w \in InFlight,
             Effective(row)' <= Effective(row) + 1, Effective(row)' \in Nat
      PROVE  OverrunIsBounded'
  <2>1. InFlight' = InFlight \ {w}
    BY <1>0, <1>c DEF InFlight
  <2>2. Cardinality(InFlight') = Cardinality(InFlight) - 1
    BY <1>a, <1>c, <2>1, FS_RemoveElement
  <2> QED
    BY <1>a, <1>c, <2>2 DEF OverrunIsBounded
\* The flight is the same, and the tally no larger.
<1>d. ASSUME InFlight' = InFlight, Effective(row)' <= Effective(row), Effective(row)' \in Nat
      PROVE  OverrunIsBounded'
  BY <1>a, <1>d DEF OverrunIsBounded
\* A bump counts from the row itself.
<1>e. ASSUME NEW w \in TallyWorkers, Store(w)
      PROVE  /\ Effective(row)' = Effective(row) + 1 /\ row' # NoRow /\ row'.count = booked'
             /\ Effective(row)' \in Nat
  <2>1. row' = Bumped(row)
    BY <1>e DEF Store, Seen, KeepsNoCopy
  <2>2. BookedNext = Effective(row) + 1
    BY <1>0, <1>a DEF BookedNext, Effective, Tallies
  <2> QED
    BY <1>0, <1>e, <2>1, <2>2, EffectiveCounts DEF Store, Effective
<1>1. ASSUME NEW w \in TallyWorkers, ContactStep(w) PROVE KeepsNoCopy' /\ TallyHolds'
  <2>0. KeepsNoCopy'
    BY <1>1, <1>e DEF ContactStep, BeginContact, Refuse, Abandon, Park, Arm, WriteAhead, Contact, Bump,
       AddRow, InsertRow, InsertLost, Crash, Rest, KeepsCopy, KeepsNoCopy
  <2> USE <2>0 DEF Goto, Rest, TallyHolds, TallyCountsEveryBump
  <2>1. CASE BeginContact(w) \/ Refuse(w) \/ WriteAhead(w) \/ Contact(w) \/ AddRow(w)
    <3>1. UNCHANGED <<row, booked>> /\ InFlight' = InFlight
      BY <2>1 DEF BeginContact, Refuse, WriteAhead, Contact, AddRow, InFlight
    <3> QED
      BY <1>a, <1>d, <3>1
  <2>2. CASE Abandon(w)
    <3>1. InFlight' = InFlight /\ Effective(row)' = Effective(row)
      BY <2>2 DEF Abandon, InFlight, Effective, Tallies
    <3>2. row' # NoRow => row'.count = booked'
      BY <1>a, <2>2 DEF Abandon, KeepsNoCopy
    <3> QED
      BY <1>0, <1>d, <3>1, <3>2
  <2>3. CASE Park(w)
    <3>1. InFlight' = InFlight /\ w \notin InFlight /\ Effective(row) < Limit
      BY <2>3 DEF Park, InFlight, UnderLimit, Seen, KeepsNoCopy
    <3>2. Cardinality(InFlight) <= Cardinality(TallyWorkers) - 1
      BY <3>1, InFlightBounded
    <3> QED
      BY <1>a, <1>e, <2>3, <3>1, <3>2 DEF Park, OverrunIsBounded
  <2>4. CASE Arm(w)
    <3>1. w \notin InFlight /\ InFlight' = InFlight \cup {w} /\ Effective(row) < Limit
      BY <2>4 DEF Arm, InFlight, UnderLimit, Seen, KeepsNoCopy
    <3>2. InFlight' \subseteq TallyWorkers
      BY DEF InFlight
    <3>3. Cardinality(InFlight') <= Cardinality(TallyWorkers) /\ Cardinality(InFlight') \in Nat
      BY <3>2, LedgerConstants, FS_Subset, FS_CardinalityType
    <3> QED
      BY <1>a, <2>4, <3>1, <3>3 DEF Arm, OverrunIsBounded
  <2>5. CASE Bump(w) \/ InsertRow(w)
    BY <1>c, <1>e, <2>5 DEF Bump, InsertRow, InFlight
  <2>6. CASE InsertLost(w)
    <3>1. Effective(row)' <= Effective(row) + 1 /\ Effective(row)' \in Nat
      <4>1. Effective(row)' = Effective(row)
        BY <2>6 DEF InsertLost, Effective
      <4> QED
        BY <4>1
    <3>2. pc' = [pc EXCEPT ![w] = "idle"] /\ w \in InFlight /\ UNCHANGED <<row, booked>>
      BY <2>6 DEF InsertLost, InFlight
    <3>3. OverrunIsBounded'
      BY <1>c, <3>1, <3>2
    <3> QED
      BY <1>a, <3>2, <3>3
  <2>7. CASE Crash(w)
    <3>1. CASE w \in InFlight
      <4>1. Effective(row)' <= Effective(row) + 1 /\ Effective(row)' \in Nat
        <5>1. Effective(row)' = Effective(row)
          BY <2>7 DEF Crash, Effective
        <5> QED
          BY <5>1
      <4>2. pc' = [pc EXCEPT ![w] = "idle"] /\ UNCHANGED <<row, booked>>
        BY <2>7 DEF Crash
      <4>3. OverrunIsBounded'
        BY <1>c, <3>1, <4>1, <4>2
      <4> QED
        BY <1>a, <4>2, <4>3
    <3>2. CASE w \notin InFlight
      BY <1>a, <1>d, <2>7, <3>2 DEF Crash, InFlight
    <3> QED
      BY <3>1, <3>2
  <2> QED
    BY <1>1, <2>1, <2>2, <2>3, <2>4, <2>5, <2>6, <2>7 DEF ContactStep
<1>2. CASE WindowPasses
  <2>1. InFlight' = InFlight /\ Effective(row)' = 0
    BY <1>2 DEF WindowPasses, InFlight, Effective, Tallies
  <2>2. KeepsNoCopy' /\ TallyCountsEveryBump'
    <3>1. rowCopy' = rowCopy /\ booked' = booked
      BY <1>2 DEF WindowPasses, KeepsNoCopy
    <3>2. row # NoRow /\ row' # NoRow /\ row'.count = row.count
      BY <1>2, LedgerConstants DEF WindowPasses, Tallies
    <3> QED
      BY <1>a, <3>1, <3>2 DEF KeepsNoCopy, TallyCountsEveryBump
  <2> QED
    BY <1>d, <2>1, <2>2 DEF TallyHolds
<1>3. CASE UNCHANGED tallyVars
  BY <1>3 DEF tallyVars, KeepsNoCopy, TallyHolds, TallyCountsEveryBump, OverrunIsBounded, InFlight
<1> QED
  BY <1>1, <1>2, <1>3 DEF TallyNext

\* The payment rail's tally, though its lock is given up before the contact is made: no
\* bump is lost, and a window is overrun by the sessions at work at most.
THEOREM TallyKept == ASSUME ChaseWorkers = {} PROVE TallySpec => []TallyHolds
<1>1. TallyInit => KeepsNoCopy /\ TallyHolds
  <2> SUFFICES ASSUME TallyInit PROVE KeepsNoCopy /\ TallyHolds
    OBVIOUS
  <2>1. InFlight = {}
    BY DEF TallyInit, InFlight
  <2> QED
    BY <2>1, LedgerConstants, FS_EmptySet, InFlightBounded
    DEF TallyInit, KeepsNoCopy, TallyHolds, TallyCountsEveryBump, OverrunIsBounded, Effective
<1> QED
  BY <1>1, TallyStep, TallyTypeCorrect, PTL DEF TallySpec

-----------------------------------------------------------------------------
(* The rules of contact                                                     *)

LEMMA RulesConstants ==
  /\ Day \in Nat \ {0} /\ Start \in 0..Day /\ End \in 0..Day
  /\ PayWindow \in Nat /\ PayLimit \in Nat \ {0} /\ NoticeValid \in Nat
  /\ Backoff \in Nat \ {0} /\ LastCall \in Nat /\ Think \in Nat /\ MaxClock \in Nat
  BY RulesAssumption

-----------------------------------------------------------------------------
(* Clocks                                                                   *)

\* What is q whole days and r units past midnight is at r, and every time is so.
LEMMA TimeOfDay ==
  ASSUME NEW d \in Nat \ {0}, NEW q \in Int, NEW r \in 0..(d - 1)
  PROVE  (d * q + r) % d = r
  OBVIOUS

LEMMA Modulo ==
  ASSUME NEW d \in Nat \ {0}, NEW t \in Int
  PROVE  t % d \in 0..(d - 1) /\ t \div d \in Int /\ t = d * (t \div d) + (t % d)
<1>1. t = d * (t \div d) + (t % d)
  OBVIOUS
<1> QED
  BY <1>1

\* Within a day from any time the clock shows any hour.
LEMMA HourComes ==
  ASSUME NEW d \in Nat \ {0}, NEW t \in Int, NEW r \in 0..(d - 1)
  PROVE  \E u \in t..(t + d) : u % d = r
<1>1. t % d \in 0..(d - 1) /\ t \div d \in Int /\ t = d * (t \div d) + (t % d)
  BY Modulo
<1>2. CASE t % d <= r
  <2>1. (d * (t \div d) + r) % d = r
    BY <1>1, TimeOfDay
  <2>2. d * (t \div d) + r = t + (r - (t % d)) /\ t + (r - (t % d)) \in t..(t + d)
    BY <1>1, <1>2
  <2> QED
    BY <2>1, <2>2
<1>3. CASE r < t % d
  <2>1. (d * (t \div d + 1) + r) % d = r
    BY <1>1, TimeOfDay
  <2>2. d * (t \div d + 1) = d * (t \div d) + d
    BY <1>1
  <2>3. d * (t \div d + 1) + r = t + (d + r - (t % d)) /\ t + (d + r - (t % d)) \in t..(t + d)
    BY <1>1, <1>3, <2>2
  <2> QED
    BY <2>1, <2>3
<1> QED
  BY <1>1, <1>2, <1>3

\* A clamped time is at most a day later, and outside the blackout if any time is.
LEMMA ClampLeavesBlackout ==
  ASSUME NEW time \in Nat
  PROVE  /\ Clamp(time) \in Nat /\ time <= Clamp(time) /\ Clamp(time) <= time + Day
         /\ \A u \in Nat : ~InBlackout(u) => ~InBlackout(Clamp(time))
<1>0. Day \in Nat \ {0} /\ Start \in 0..Day /\ End \in 0..Day /\ End % Day \in 0..(Day - 1)
  BY RulesConstants, Modulo
<1>1. CASE ~InBlackout(time)
  BY <1>0, <1>1 DEF Clamp
<1>2. CASE InBlackout(time)
  <2> DEFINE wakes == {u \in time..(time + Day) : u % Day = End % Day}
  <2>1. wakes # {} /\ wakes \in SUBSET Int /\ wakes \subseteq time..(time + Day)
    <3>1. \E u \in time..(time + Day) : u % Day = End % Day
      <4>1. time \in Int /\ Day \in Nat \ {0} /\ End % Day \in 0..(Day - 1)
        BY <1>0
      <4> QED
        BY <4>1, HourComes, Zenon
    <3> QED
      BY <3>1
  <2>2. PICK t \in wakes : \A u \in wakes : t <= u
    <3> HIDE DEF wakes
    <3>1. IsFiniteSet(wakes)
      <4>1. IsFiniteSet(time..(time + Day))
        BY <1>0, FS_Interval
      <4> QED
        BY <2>1, <4>1, FS_Subset
    <3> QED
      BY <2>1, <3>1, LeastNumber
  <2>3. \A u \in time..(t - 1) : u % Day # End % Day
    <3> SUFFICES ASSUME NEW u \in time..(t - 1), u % Day = End % Day PROVE FALSE
      OBVIOUS
    <3>1. u \in wakes
      BY <1>0
    <3> QED
      BY <2>2, <3>1
  <2>4. Clamp(time) \in time..(time + Day) /\ Clamp(time) % Day = End % Day
    BY <1>2, <2>2, <2>3 DEF Clamp
  <2>5. ASSUME NEW u \in Nat, ~InBlackout(u) PROVE ~InBlackout(Clamp(time))
    <3>1. u % Day \in 0..(Day - 1)
      BY <1>0, Modulo
    <3>2. CASE End = Day
      <4>1. End % Day = 0
        <5>1. Day = Day * 1 + 0
          BY <1>0
        <5> QED
          BY <1>0, <3>2, <5>1, TimeOfDay
      <4> QED
        BY <1>0, <2>4, <2>5, <3>1, <3>2, <4>1 DEF InBlackout
    <3>3. CASE End # Day
      <4>1. End % Day = End
        <5>1. End = Day * 0 + End /\ End \in 0..(Day - 1)
          BY <1>0, <3>3
        <5> QED
          BY <1>0, <5>1, TimeOfDay
      <4> QED
        BY <1>0, <2>4, <4>1 DEF InBlackout
    <3> QED
      BY <3>2, <3>3
  <2> QED
    BY <1>0, <2>4, <2>5
<1> QED
  BY <1>1, <1>2

-----------------------------------------------------------------------------
(* The gate                                                                 *)

\* What the gate lets through broke no rule, and a rule it names is broken.
LEMMA GateIsStrict ==
  ASSUME NEW action, NEW time, NEW attempts, NEW full,
         action.action # "abandon", Refusals(action, time, attempts, full) = {}
  PROVE  /\ ~SchemaBreaks(action) /\ case.kind \notin HardDeclines
         /\ ~(case.kind = "risk_check_failed" /\ action.action \in {"retry_now", "retry_at"})
         /\ ~(attempts >= PayLimit) /\ ~case.huge /\ ~(time > WindowEnd)
         /\ ~BeyondWindow(action.at) /\ ~InBlackout(time) /\ ~Unnoticed(action, time)
<1>1. ~SchemaBreaks(action)
  BY DEF Refusals
<1>2. ASSUME case.kind \in HardDeclines PROVE FALSE
  <2>1. "hard_decline" \in Refusals(action, time, attempts, full)
    BY <1>2 DEF Refusals
  <2> QED
    BY <2>1
<1>3. ~(case.kind = "risk_check_failed" /\ action.action \in {"retry_now", "retry_at"})
  BY DEF Refusals
<1>4. ASSUME attempts >= PayLimit PROVE FALSE
  <2>1. "attempts" \in Refusals(action, time, attempts, full)
    BY <1>4 DEF Refusals
  <2> QED
    BY <2>1
<1>7. ASSUME time > WindowEnd PROVE FALSE
  <2>1. "window" \in Refusals(action, time, attempts, full)
    BY <1>7 DEF Refusals
  <2> QED
    BY <2>1
<1>6. ASSUME case.huge PROVE FALSE
  <2>1. "ceiling" \in Refusals(action, time, attempts, full)
    BY <1>6 DEF Refusals
  <2> QED
    BY <2>1
<1>5. ~BeyondWindow(action.at) /\ ~InBlackout(time) /\ ~Unnoticed(action, time)
  BY DEF Refusals
<1> QED
  BY <1>1, <1>2, <1>3, <1>4, <1>5, <1>6, <1>7

LEMMA GateNamesBroken ==
  ASSUME NEW action, NEW time, NEW attempts, NEW full, NEW reasons,
         reasons = Refusals(action, time, attempts, full)
  PROVE  /\ "schema" \in reasons => SchemaBreaks(action)
         /\ "hard_decline" \in reasons => case.kind \in HardDeclines
         /\ "switch_only" \in reasons =>
              case.kind = "risk_check_failed" /\ action.action \in {"retry_now", "retry_at"}
         /\ "attempts" \in reasons => attempts >= PayLimit
         /\ "ceiling" \in reasons => case.huge
         /\ "window" \in reasons => time > WindowEnd
         /\ "retry_at" \in reasons => BeyondWindow(action.at)
         /\ "blackout" \in reasons => InBlackout(time)
         /\ "notice" \in reasons => Unnoticed(action, time)
         /\ "nudges" \in reasons => action.action = "nudge_customer"
         /\ reasons \subseteq {"schema", "hard_decline", "switch_only", "attempts", "customer",
                               "ceiling", "window", "retry_at", "blackout", "value", "notice",
                               "nudges"}
<1>1. /\ "schema" \in reasons => SchemaBreaks(action)
      /\ "hard_decline" \in reasons => case.kind \in HardDeclines
      /\ "switch_only" \in reasons =>
           case.kind = "risk_check_failed" /\ action.action \in {"retry_now", "retry_at"}
      /\ "attempts" \in reasons => attempts >= PayLimit
      /\ "ceiling" \in reasons => case.huge
  BY DEF Refusals
<1>2. /\ "window" \in reasons => time > WindowEnd
      /\ "retry_at" \in reasons => BeyondWindow(action.at)
      /\ "blackout" \in reasons => InBlackout(time)
      /\ "notice" \in reasons => Unnoticed(action, time)
      /\ "nudges" \in reasons => action.action = "nudge_customer"
  BY DEF Refusals
<1>3. reasons \subseteq {"schema", "hard_decline", "switch_only", "attempts", "customer",
                         "ceiling", "window", "retry_at", "blackout", "value", "notice",
                         "nudges"}
  BY DEF Refusals
<1> QED
  BY <1>1, <1>2, <1>3

-----------------------------------------------------------------------------
(* The deciders                                                             *)

Proposals == [action: Actions, rail: Rails \cup {NoRail}, at: Nat \cup {NoTime}, sure: BOOLEAN]
CaseShape == [kind: Chasers \cup PaymentClasses, method: Rails \cup {"unknown"}, huge: BOOLEAN,
              state: {"none", "open", "abandoned", "exhausted", "expired", "recovered"},
              opened: Nat, used: Nat, level: Nat, next: Nat]
Contexts == [at: Nat, tried: BOOLEAN]

LEMMA PolicyTyped ==
  ASSUME case \in CaseShape
  PROVE  /\ Chased => /\ Policy.window \in Nat /\ Policy.first \in Nat
                      /\ Policy.first <= Policy.window
                      /\ Policy.gap \in Nat \ {0} /\ Policy.budget \in Nat \ {0}
                      /\ Policy.rail \in Rails \cup {NoRail}
         /\ Budget \in Nat \ {0} /\ WindowEnd \in Nat
<1>1. Chased => Policy \in [window: Nat, first: Nat, gap: Nat \ {0}, budget: Nat \ {0},
                            rail: Rails \cup {NoRail}] /\ Policy.first <= Policy.window
  BY RulesAssumption DEF Chased, Policy
<1>2. case.opened \in Nat
  BY DEF CaseShape
<1> QED
  BY <1>1, <1>2, RulesConstants DEF Budget, WindowEnd

\* Every decider answers with an action; the baseline's deferrals lie ahead of the
\* context, and it knows the failures that refuse the instrument.
LEMMA DecidersDecide ==
  ASSUME case \in CaseShape, thinking \in Contexts, clock \in Nat,
         NEW by \in DOMAIN Decisions, NEW choice \in Decisions[by]
  PROVE  /\ choice \in Proposals /\ by \in {"llm", "baseline"}
         /\ by = "baseline" =>
              /\ choice.action = "retry_at" => choice.at \in Nat /\ choice.at > thinking.at
              /\ case.kind = "risk_check_failed" => choice.action = "switch_rail"
<1>0. /\ by \in {"llm", "baseline"} /\ Decisions["llm"] = AgentChoices
      /\ Decisions["baseline"] = {Heuristic} \cup (IF Trained THEN ModelChoices ELSE {})
  BY DEF Decisions
<1>1. CASE by = "llm"
  <2>1. FarAway \in Nat
    <3>1. Backoff * (PayLimit + 2) \in Nat
      BY RulesConstants
    <3> QED
      BY <3>1, PolicyTyped, RulesConstants DEF FarAway
  <2> QED
    BY <1>0, <1>1, <2>1, RulesConstants DEF AgentChoices, Proposals, Actions, Rails, NoRail
<1>2. CASE by = "baseline" /\ choice \in ModelChoices /\ Trained
  BY <1>0, <1>2 DEF ModelChoices, Proposals, Contexts, Actions, Rails, OffUpi, Trained, Untrained
<1>3. CASE by = "baseline" /\ choice = Heuristic
  <2>1. thinking.at \in Nat /\ Day \in Nat \ {0}
    BY RulesConstants DEF Contexts
  <2> QED
    BY <1>0, <1>3, <2>1 DEF Heuristic, Proposal, Proposals, Actions, Rails, OffUpi
<1> QED
  BY <1>0, <1>1, <1>2, <1>3

\* A switch never goes back to the rail that just failed.
LEMMA SwitchIsAChange ==
  ASSUME case \in CaseShape, NEW proposed \in Rails \cup {NoRail}, NEW down \in Outages
  PROVE  ResolveRail(proposed, down) \in Rails \ {case.method}
<1>1. ASSUME NEW rails \in SUBSET Rails, rails # {}
      PROVE  Preferred(rails) \in rails
  <2> DEFINE order == IF case.kind = "upi_collect_timeout" THEN <<"card", "upi", "netbanking">>
                      ELSE <<"upi", "card", "netbanking">>
  <2>1. \E k \in {1, 2, 3} : order[k] \in rails /\ \A j \in {1, 2, 3} : j < k => order[j] \notin rails
    <3>1. order[1] \in rails \/ order[2] \in rails \/ order[3] \in rails
      BY <1>1 DEF Rails
    <3> QED
      BY <3>1
  <2>2. \E k \in 1..3 : order[k] \in rails /\ \A j \in 1..(k - 1) : order[j] \notin rails
    BY <2>1
  <2> HIDE DEF order
  <2>3. order[CHOOSE k \in 1..3 : order[k] \in rails /\ \A j \in 1..(k - 1) : order[j] \notin rails] \in rails
    BY <2>2
  <2> QED
    BY <2>3 DEF Preferred, order
<1>2. Rails \ {case.method} # {}
  BY DEF Rails
<1> QED
  BY <1>1, <1>2 DEF ResolveRail, NoRail, Rails

\* What becomes of a choice: no debit without its notice, no switch to the same rail, no
\* deferral into the blackout.
LEMMA CorrectionsHold ==
  ASSUME case \in CaseShape, thinking \in Contexts, NEW choice \in Proposals, NEW down \in Outages,
         NEW action, action = Corrected(choice, down)
  PROVE  /\ action \in Proposals
         /\ action.action \in {"retry_now", "retry_at"} =>
              /\ action.action = choice.action
              /\ case.kind = "mandate_failure" => NoticeStands(thinking.at)
         /\ action.action = "retry_at" =>
              IF choice.at = NoTime THEN action.at = NoTime ELSE action.at = Clamp(choice.at)
         /\ action.action = "switch_rail" => action.rail \in Rails \ {case.method}
<1> DEFINE switched == IF choice.action = "switch_rail"
                       THEN [choice EXCEPT !.rail = ResolveRail(@, down)] ELSE choice
           noticed == IF NeedsNotice(switched)
                      THEN [switched EXCEPT !.action = "nudge_customer", !.at = NoTime]
                      ELSE switched
           clamped == IF noticed.action = "retry_at" /\ noticed.at # NoTime
                      THEN [noticed EXCEPT !.at = Clamp(@)] ELSE noticed
<1>1. /\ switched \in Proposals /\ switched.action = choice.action /\ switched.at = choice.at
      /\ switched.action = "switch_rail" => switched.rail \in Rails \ {case.method}
  BY SwitchIsAChange DEF Proposals
<1> HIDE DEF switched
<1>2. /\ noticed \in Proposals /\ noticed.rail = switched.rail
      /\ noticed.action # "nudge_customer" => noticed = switched
      /\ noticed.action \in {"retry_now", "retry_at"} /\ case.kind = "mandate_failure" =>
           NoticeStands(thinking.at)
  BY <1>1 DEF Proposals, NeedsNotice, Actions
<1> HIDE DEF noticed
<1>3. /\ clamped \in Proposals /\ clamped.rail = noticed.rail /\ clamped.action = noticed.action
      /\ clamped.action = "retry_at" =>
           IF noticed.at = NoTime THEN clamped.at = NoTime ELSE clamped.at = Clamp(noticed.at)
  BY <1>2, ClampLeavesBlackout DEF Proposals
<1> HIDE DEF clamped
<1>4. action = IF Chased /\ clamped.rail = NoRail THEN [clamped EXCEPT !.rail = Policy.rail]
               ELSE clamped
  BY DEF Corrected, clamped, noticed, switched
<1>5. /\ action \in Proposals /\ action.action = clamped.action /\ action.at = clamped.at
      /\ clamped.rail # NoRail => action.rail = clamped.rail
  BY <1>3, <1>4, PolicyTyped DEF Proposals
<1>6. NoRail \notin Rails
  BY DEF NoRail, Rails
<1> QED
  BY <1>1, <1>2, <1>3, <1>5, <1>6

-----------------------------------------------------------------------------
(* The invariant                                                            *)

ParkedRows == [n: Nat, rail: Rails \cup {NoRail}, at: Nat, sure: BOOLEAN]
RulesShape ==
  /\ clock \in 0..MaxClock /\ notified \in -1..MaxClock /\ case \in CaseShape
  /\ case.level <= case.used /\ case.used <= Budget
  /\ thinking \in Contexts \cup {None}
  /\ \A retry \in parked : retry \in ParkedRows /\ retry.n \in 1..case.used
  /\ case.state = "none" => case.used = 0

\* A decision is under way only on a case that has arrived, and its context is no older
\* than an agent call; if the case is still open there is a slot for it.
ContextIsFresh ==
  thinking # None =>
    /\ thinking.at <= clock /\ clock <= thinking.at + Think /\ case.state # "none"
    /\ CaseOpen => case.used < Budget /\ (Chased => thinking.at <= WindowEnd)

\* What was checked when an attempt was parked still holds when it is due.
ParkedCanFire ==
  \A retry \in parked :
    /\ retry.at <= WindowEnd /\ ~InBlackout(retry.at) /\ retry.n <= PayLimit
    /\ ~case.huge /\ case.kind \notin HardDeclines /\ case.kind # "risk_check_failed"

RulesInv == RulesShape /\ ContextIsFresh /\ ParkedCanFire /\ NoCaseLeaks

LEMMA SameCase ==
  ASSUME case'.kind = case.kind, case'.opened = case.opened
  PROVE  /\ Chased' = Chased /\ Policy' = Policy /\ Budget' = Budget /\ WindowEnd' = WindowEnd
         /\ LongestSilence' = LongestSilence
<1>1. Chased' = Chased /\ Policy' = Policy
  BY DEF Chased, Policy
<1>2. Budget' = Budget
  BY <1>1 DEF Budget
<1> QED
  BY <1>1, <1>2 DEF WindowEnd, LongestSilence

\* No rung buys a longer silence than the last.
LEMMA SilenceBounded ==
  ASSUME case \in CaseShape, Chased, NEW rung \in Nat, rung <= Budget
  PROVE  /\ LongestSilence \in Nat /\ Backoff * rung \in Nat
         /\ Backoff * rung <= LongestSilence /\ Policy.gap <= LongestSilence
<1>1. /\ Backoff \in Nat /\ Budget \in Nat /\ Policy.gap \in Nat
  BY PolicyTyped, RulesConstants
<1>2. Backoff * rung \in Nat /\ Backoff * Budget \in Nat
  BY <1>1
<1>3. Backoff * rung <= Backoff * Budget
  <2>1. PICK more \in Nat : Budget = rung + more
    <3>1. Budget - rung \in Nat /\ Budget = rung + (Budget - rung)
      BY <1>1
    <3> QED
      BY <3>1
  <2>2. Backoff * Budget = Backoff * rung + Backoff * more
    BY <1>1, <2>1
  <2>3. Backoff * more \in Nat
    BY <1>1
  <2> QED
    BY <1>2, <2>2, <2>3
<1> QED
  BY <1>1, <1>2, <1>3 DEF LongestSilence

LEMMA HorizonIsAhead ==
  ASSUME case \in CaseShape, clock \in Nat
  PROVE  Horizon \in Nat /\ clock <= Horizon /\ WindowEnd + Think <= Horizon /\ WindowEnd <= Horizon
  BY PolicyTyped, RulesConstants DEF Horizon

-----------------------------------------------------------------------------
(* One step                                                                 *)

LEMMA RulesTyped ==
  ASSUME RulesShape
  PROVE  /\ clock \in Nat /\ MaxClock \in Nat /\ Think \in Nat /\ Day \in Nat \ {0}
         /\ WindowEnd \in Nat /\ Budget \in Nat /\ Horizon \in Nat /\ case \in CaseShape
         /\ case.used \in Nat /\ case.level \in Nat /\ case.next \in Nat
         /\ clock <= Horizon /\ WindowEnd <= Horizon /\ WindowEnd + Think <= Horizon
         /\ Chased => LongestSilence \in Nat
<1>1. case \in CaseShape /\ clock \in Nat /\ MaxClock \in Nat
  BY RulesConstants DEF RulesShape
<1>2. Chased => LongestSilence \in Nat
  BY <1>1, PolicyTyped, SilenceBounded
<1> QED
  BY <1>1, <1>2, HorizonIsAhead, PolicyTyped, RulesConstants DEF CaseShape

\* A step that only closes or puts off the case, or takes something off the table.
LEMMA RestingStep ==
  ASSUME RulesInv, case' \in CaseShape, UNCHANGED <<clock, notified>>,
         case'.kind = case.kind, case'.opened = case.opened, case'.huge = case.huge,
         case'.used = case.used, case'.level = case.level,
         case'.state = "none" => case.state = "none",
         CaseOpen' => CaseOpen, NoCaseLeaks',
         parked' \subseteq parked, thinking' \in {thinking, None}
  PROVE  RulesInv'
<1>1. Chased' = Chased /\ Budget' = Budget /\ WindowEnd' = WindowEnd
  BY SameCase
<1>2. RulesShape'
  BY <1>1 DEF RulesInv, RulesShape
<1>3. ContextIsFresh'
  BY <1>1 DEF RulesInv, ContextIsFresh
<1>4. ParkedCanFire'
  BY <1>1 DEF RulesInv, ParkedCanFire, InBlackout
<1> QED
  BY <1>2, <1>3, <1>4 DEF RulesInv

\* What the ladder may do to a case.
LEMMA LadderMoves ==
  ASSUME case \in CaseShape, NEW c \in CaseShape, c.kind = case.kind, NEW now \in Nat,
         NEW d, d = OnLadder(c, now)
  PROVE  /\ d \in CaseShape /\ d.kind = c.kind /\ d.opened = c.opened /\ d.huge = c.huge
         /\ d.used = c.used /\ d.level = c.level
         /\ d.state \in {c.state, "exhausted"}
         /\ d.next = c.next \/ (Chased /\ d.next = now + Policy.gap)
         /\ d.state = "exhausted" => c.state \in {"open", "exhausted"}
<1>1. CASE d = c
  BY <1>1 DEF CaseShape
<1>2. CASE c.state = "open" /\ d = [c EXCEPT !.state = "exhausted"]
  BY <1>2 DEF CaseShape
<1>3. CASE Chased /\ d = [c EXCEPT !.next = now + Policy.gap]
  <2>1. now + Policy.gap \in Nat
    BY <1>3, PolicyTyped
  <2> QED
    BY <1>3, <2>1 DEF CaseShape
<1> QED
  BY <1>1, <1>2, <1>3 DEF OnLadder

LEMMA QuietRules ==
  ASSUME RulesInv,
         \/ ChaseExpires \/ ChaseDefers \/ StoppedWhileDeciding \/ CaseCloses
         \/ \E retry \in parked : FireCancelled(retry) \/ \E full \in Limits : Fire(retry, full)
  PROVE  RulesInv'
<1>0. RulesShape
  BY DEF RulesInv
<1>1. CASE ChaseExpires \/ CaseCloses
  <2>1. /\ \E state \in {"expired", "recovered"} : case' = [case EXCEPT !.state = state]
        /\ UNCHANGED <<clock, notified, thinking, parked>>
    BY <1>1 DEF ChaseExpires, CaseCloses, Closed
  <2>2. /\ case' \in CaseShape /\ case'.kind = case.kind /\ case'.opened = case.opened
        /\ case'.huge = case.huge /\ case'.used = case.used /\ case'.level = case.level
        /\ case'.state \in {"expired", "recovered"}
    BY <1>0, <2>1, RulesTyped DEF CaseShape
  <2>3. ~CaseOpen'
    BY <2>2 DEF CaseOpen
  <2> QED
    BY <2>1, <2>2, <2>3, RestingStep DEF NoCaseLeaks
<1>2. CASE ChaseDefers
  <2>1. /\ case' = [case EXCEPT !.next = Clamp(clock)] /\ Chased
        /\ UNCHANGED <<clock, notified, thinking, parked>>
    BY <1>2 DEF ChaseDefers, Sweep
  <2>2. Clamp(clock) \in Nat /\ Clamp(clock) <= clock + Day
    BY <1>0, RulesTyped, ClampLeavesBlackout
  <2>3. /\ case' \in CaseShape /\ case'.kind = case.kind /\ case'.opened = case.opened
        /\ case'.huge = case.huge /\ case'.used = case.used /\ case'.level = case.level
        /\ case'.state = case.state /\ case'.next = Clamp(clock)
    BY <1>0, <2>1, <2>2, RulesTyped DEF CaseShape
  <2>4. WindowEnd' = WindowEnd /\ LongestSilence' = LongestSilence
    BY <2>3, SameCase
  <2>5. Horizon' = Horizon
    BY <2>1, <2>4 DEF Horizon
  <2>6. Clamp(clock) <= Horizon + LongestSilence + Day
    BY <1>0, <2>1, <2>2, RulesTyped
  <2>7. NoCaseLeaks'
    BY <2>3, <2>4, <2>5, <2>6 DEF NoCaseLeaks
  <2> QED
    BY <2>1, <2>3, <2>7, RestingStep DEF CaseOpen
<1>3. CASE StoppedWhileDeciding \/ \E retry \in parked : FireCancelled(retry)
  <2>1. UNCHANGED <<clock, notified, case>> /\ parked' \subseteq parked /\ thinking' \in {thinking, None}
    BY <1>3 DEF StoppedWhileDeciding, FireCancelled
  <2>2. NoCaseLeaks'
    BY <2>1 DEF RulesInv, NoCaseLeaks, CaseOpen, Chased, Horizon, WindowEnd, LongestSilence, Policy,
       Budget
  <2> QED
    BY <1>0, <2>1, <2>2, RestingStep, RulesTyped DEF CaseOpen
<1>4. ASSUME NEW retry \in parked, NEW full \in Limits, Fire(retry, full) PROVE RulesInv'
  <2>1. /\ case' = OnLadder(case, clock) /\ CaseOpen /\ thinking' = thinking
        /\ parked' \subseteq parked /\ UNCHANGED <<clock, notified>>
    BY <1>4 DEF Fire
  <2>2. /\ case' \in CaseShape /\ case'.kind = case.kind /\ case'.opened = case.opened
        /\ case'.huge = case.huge /\ case'.used = case.used /\ case'.level = case.level
        /\ case'.state \in {case.state, "exhausted"}
        /\ case'.next = case.next \/ (Chased /\ case'.next = clock + Policy.gap)
    <3> DEFINE d == OnLadder(case, clock)
    <3>1. case \in CaseShape /\ clock \in Nat
      BY <1>0, RulesTyped
    <3>2. /\ d \in CaseShape /\ d.kind = case.kind /\ d.opened = case.opened
          /\ d.huge = case.huge /\ d.used = case.used /\ d.level = case.level
          /\ d.state \in {case.state, "exhausted"}
          /\ d.next = case.next \/ (Chased /\ d.next = clock + Policy.gap)
      BY <3>1, LadderMoves
    <3> QED
      BY <2>1, <3>2
  <2>3. Chased' = Chased /\ WindowEnd' = WindowEnd /\ LongestSilence' = LongestSilence
    BY <2>2, SameCase
  <2>4. Horizon' = Horizon
    BY <2>1, <2>3 DEF Horizon
  <2>5. ASSUME Chased PROVE clock + Policy.gap <= Horizon + LongestSilence + Day
    <3>1. Policy.gap \in Nat /\ Policy.gap <= LongestSilence /\ LongestSilence \in Nat
      BY <1>0, <2>5, RulesTyped, PolicyTyped, SilenceBounded
    <3> QED
      BY <1>0, <3>1, RulesTyped
  <2>6. NoCaseLeaks'
    BY <2>1, <2>2, <2>3, <2>4, <2>5 DEF NoCaseLeaks, RulesInv
  <2> QED
    BY <2>1, <2>2, <2>6, RestingStep DEF CaseOpen
<1> QED
  BY <1>1, <1>2, <1>3, <1>4

LEMMA CaseOpensKeeps == ASSUME RulesInv, CaseOpens PROVE RulesInv'
<1>0. RulesShape
  BY DEF RulesInv
<1>1. /\ case.used = 0 /\ case.level = 0 /\ parked = {} /\ thinking = None
  <2>1. case.used = 0 /\ case.level = 0
    BY <1>0, RulesTyped DEF RulesShape, CaseOpens
  <2>2. ASSUME NEW retry \in parked PROVE FALSE
    BY <1>0, <2>1 DEF RulesShape
  <2>3. thinking = None
    BY DEF RulesInv, ContextIsFresh, CaseOpens
  <2> QED
    BY <2>1, <2>2, <2>3
<1> DEFINE due == clock + (IF Chased THEN Policy.first ELSE 0)
<1>2. due \in Nat /\ (Chased => due <= clock + Policy.window /\ Policy.window \in Nat)
  BY <1>0, RulesTyped, PolicyTyped
<1>3. /\ case' \in CaseShape /\ case'.kind = case.kind /\ case'.opened = clock
      /\ case'.used = 0 /\ case'.level = 0 /\ case'.state # "none" /\ case'.next = due
  <2> HIDE DEF due
  <2>1. /\ case' = [case EXCEPT !.opened = clock,
                     !.state = IF case.kind \in HardDeclines THEN "abandoned" ELSE "open",
                     !.next = due]
        /\ case \in CaseShape /\ clock \in Nat
    BY <1>0, RulesTyped DEF CaseOpens, due
  <2> QED
    BY <1>1, <1>2, <2>1 DEF CaseShape
<1>4. UNCHANGED <<clock, notified, thinking, parked>>
  BY DEF CaseOpens
<1>5. Chased' = Chased /\ Policy' = Policy
  BY <1>3 DEF Chased, Policy
<1>6. Budget' = Budget
  BY <1>5 DEF Budget
<1>7. RulesShape'
  BY <1>0, <1>1, <1>3, <1>4, <1>6, RulesTyped DEF RulesShape
<1>8. NoCaseLeaks'
  <2> SUFFICES ASSUME Chased PROVE case'.next <= Horizon' + LongestSilence' + Day
    BY <1>5 DEF NoCaseLeaks
  <2>1. WindowEnd' = clock + Policy.window
    BY <1>3, <1>5 DEF WindowEnd
  <2>2. Horizon' \in Nat /\ WindowEnd' <= Horizon'
    BY <1>0, <1>2, <1>4, <2>1, RulesTyped DEF Horizon
  <2>3. LongestSilence' = LongestSilence
    BY <1>5, <1>6 DEF LongestSilence
  <2> QED
    BY <1>0, <1>2, <1>3, <2>1, <2>2, <2>3, RulesTyped
<1> QED
  BY <1>1, <1>4, <1>7, <1>8 DEF RulesInv, ContextIsFresh, ParkedCanFire

LEMMA AskingKeeps == ASSUME RulesInv, ChaseAsks \/ PaymentAsks PROVE RulesInv'
<1>0. RulesShape
  BY DEF RulesInv
<1>1. /\ UNCHANGED <<clock, case, notified, parked>> /\ CaseOpen /\ case.used < Budget
      /\ Chased => clock <= WindowEnd
      /\ thinking' = [at |-> clock, tried |-> case.used > 0]
  BY DEF ChaseAsks, PaymentAsks, Sweep, DueNow
<1>2. thinking' \in Contexts /\ thinking'.at = clock
  BY <1>0, <1>1, RulesTyped DEF Contexts
<1>3. Chased' = Chased /\ Budget' = Budget /\ WindowEnd' = WindowEnd
      /\ LongestSilence' = LongestSilence
  BY <1>1, SameCase
<1>4. RulesShape'
  BY <1>0, <1>1, <1>2, <1>3 DEF RulesShape
<1>5. ContextIsFresh'
  BY <1>0, <1>1, <1>2, <1>3, RulesTyped DEF ContextIsFresh, CaseOpen
<1>6. ParkedCanFire' /\ NoCaseLeaks'
  BY <1>1, <1>3 DEF RulesInv, ParkedCanFire, InBlackout, NoCaseLeaks, Horizon, CaseOpen
<1> QED
  BY <1>4, <1>5, <1>6 DEF RulesInv

LEMMA TimeKeeps == ASSUME RulesInv, TimePasses PROVE RulesInv'
<1>0. RulesShape
  BY DEF RulesInv
<1>1. /\ UNCHANGED <<case, notified, thinking, parked>> /\ clock' = clock + 1
      /\ clock < MaxClock /\ (thinking # None => clock < thinking.at + Think)
  BY DEF TimePasses
<1>2. Chased' = Chased /\ Budget' = Budget /\ WindowEnd' = WindowEnd
      /\ LongestSilence' = LongestSilence
  BY <1>1, SameCase
<1>3. RulesShape'
  BY <1>0, <1>1, <1>2, RulesTyped DEF RulesShape
<1>4. ContextIsFresh'
  <2> SUFFICES ASSUME thinking # None PROVE thinking.at <= clock' /\ clock' <= thinking.at + Think
    BY <1>1, <1>2 DEF RulesInv, ContextIsFresh, CaseOpen
  <2>1. thinking.at \in Nat /\ thinking.at <= clock
    BY DEF RulesInv, RulesShape, ContextIsFresh, Contexts
  <2> QED
    BY <1>0, <1>1, <2>1, RulesTyped
<1>5. ParkedCanFire'
  BY <1>1, <1>2 DEF RulesInv, ParkedCanFire, InBlackout
<1>6. NoCaseLeaks'
  <2> SUFFICES ASSUME CaseOpen, Chased PROVE case.next <= Horizon' + LongestSilence + Day
    BY <1>1, <1>2 DEF NoCaseLeaks, CaseOpen
  <2>1. case.next <= Horizon + LongestSilence + Day
    BY DEF RulesInv, NoCaseLeaks
  <2>2. Horizon' \in Nat /\ Horizon <= Horizon'
    BY <1>0, <1>1, <1>2, RulesTyped DEF Horizon
  <2> QED
    BY <1>0, <2>1, <2>2, RulesTyped
<1> QED
  BY <1>3, <1>4, <1>5, <1>6 DEF RulesInv

\* The slot, the rung and the silence an attempt takes.
LEMMA AttachTakesASlot ==
  ASSUME RulesInv, CaseOpen, thinking # None, NEW action \in Proposals,
         NEW d, d = Attached(action)
  PROVE  /\ d \in CaseShape /\ d.kind = case.kind /\ d.opened = case.opened
         /\ d.huge = case.huge /\ d.used = case.used + 1 /\ d.used <= Budget
         /\ d.level <= d.used /\ d.state = "open"
         /\ Chased => d.next <= Horizon + LongestSilence + Day
<1>0. RulesShape
  BY DEF RulesInv
<1>1. /\ case.used < Budget /\ case.level <= case.used /\ case.state = "open"
      /\ (Chased => case.next <= Horizon + LongestSilence + Day)
  BY DEF RulesInv, RulesShape, ContextIsFresh, CaseOpen, NoCaseLeaks
<1>2. CASE action.action # "nudge_customer"
  <2>1. d = [case EXCEPT !.used = @ + 1]
    BY <1>2 DEF Attached
  <2> QED
    BY <1>0, <1>1, <2>1, RulesTyped DEF CaseShape
<1>3. CASE action.action = "nudge_customer"
  <2> DEFINE silence == clock + Backoff * (case.level + 1)
             lastCall == WindowEnd - LastCall
  <2>1. /\ silence \in Nat /\ lastCall \in Int /\ lastCall <= Horizon
        /\ Chased => silence <= Horizon + LongestSilence
    <3>1. Backoff * (case.level + 1) \in Nat
      BY <1>0, RulesTyped, RulesConstants
    <3>2. Chased => Backoff * (case.level + 1) <= LongestSilence
      <4>1. case.level + 1 \in Nat /\ case.level + 1 <= Budget
        BY <1>0, <1>1, RulesTyped
      <4> QED
        BY <1>0, <4>1, RulesTyped, SilenceBounded
    <3> QED
      BY <1>0, <3>1, <3>2, RulesTyped, RulesConstants
  <2> HIDE DEF silence, lastCall
  <2>2. PICK next \in {silence, lastCall} :
          /\ d = [case EXCEPT !.used = @ + 1, !.level = case.level + 1, !.next = next]
          /\ next = lastCall => lastCall > silence \/ lastCall = silence
    BY <1>3 DEF Attached, silence, lastCall
  <2>3. next \in Nat /\ (Chased => next <= Horizon + LongestSilence + Day)
    BY <1>0, <2>1, <2>2, RulesTyped
  <2>4. /\ d \in CaseShape /\ d.kind = case.kind /\ d.opened = case.opened
        /\ d.huge = case.huge /\ d.used = case.used + 1
        /\ d.level = case.level + 1 /\ d.state = "open" /\ d.next = next
    <3> DEFINE used == case.used + 1
               level == case.level + 1
    <3>1. /\ used \in Nat /\ level \in Nat /\ case \in CaseShape
          /\ d = [case EXCEPT !.used = used, !.level = level, !.next = next]
      BY <1>0, <2>2, RulesTyped
    <3> HIDE DEF used, level
    <3>2. /\ d \in CaseShape /\ d.kind = case.kind /\ d.opened = case.opened
          /\ d.huge = case.huge /\ d.used = used
          /\ d.level = level /\ d.state = case.state /\ d.next = next
      BY <2>3, <3>1 DEF CaseShape
    <3> QED
      BY <1>1, <3>2 DEF used, level
  <2> QED
    BY <1>0, <1>1, <2>3, <2>4, RulesTyped
<1> QED
  BY <1>2, <1>3

\* An attempt that is parked can fire when it is due.
LEMMA ParkedIsAllowed ==
  ASSUME RulesInv, CaseOpen, thinking # None, NEW by \in DOMAIN Decisions,
         NEW choice \in Decisions[by], NEW down \in Outages, NEW full,
         NEW action, action = Corrected(choice, down), action.action = "retry_at",
         Refusals(action, thinking.at, case.used, full) = {}
  PROVE  /\ action.at \in Nat /\ action.at >= clock /\ action.at <= WindowEnd
         /\ ~InBlackout(action.at) /\ case.used + 1 <= PayLimit /\ ~case.huge
         /\ case.kind \notin HardDeclines /\ case.kind # "risk_check_failed"
<1>0. RulesShape /\ thinking \in Contexts
  BY DEF RulesInv, RulesShape
<1>1. choice \in Proposals
  BY <1>0, RulesTyped, DecidersDecide
<1>2. /\ ~SchemaBreaks(action) /\ case.kind \notin HardDeclines
      /\ ~(case.kind = "risk_check_failed" /\ action.action \in {"retry_now", "retry_at"})
      /\ ~(case.used >= PayLimit) /\ ~case.huge /\ ~BeyondWindow(action.at)
      /\ ~InBlackout(thinking.at)
  BY GateIsStrict
<1>3. /\ action \in Proposals
      /\ IF choice.at = NoTime THEN action.at = NoTime ELSE action.at = Clamp(choice.at)
  BY <1>0, <1>1, RulesTyped, CorrectionsHold
<1>4. action.at # NoTime /\ action.at \in Nat /\ ~(action.at < clock)
  BY <1>2, <1>3 DEF SchemaBreaks, Proposals
<1>5. action.at <= WindowEnd
  BY <1>0, <1>2, <1>4, RulesTyped DEF BeyondWindow, WindowRule
<1>6. ~InBlackout(action.at)
  <2>1. choice.at \in Nat /\ action.at = Clamp(choice.at) /\ thinking.at \in Nat
    BY <1>0, <1>1, <1>3, <1>4 DEF Proposals, Contexts
  <2> QED
    BY <1>2, <2>1, ClampLeavesBlackout
<1> QED
  BY <1>0, <1>2, <1>4, <1>5, <1>6, RulesTyped, RulesConstants

LEMMA DecidingKeeps == ASSUME RulesInv, Deciding PROVE RulesInv'
<1>0. RulesShape
  BY DEF RulesInv
<1>a. PICK by \in DOMAIN Decisions :
         \E choice \in Decisions[by] : \E down \in Outages, full \in Limits, ok \in BOOLEAN :
           Decide(by, choice, down, full, ok)
  BY DEF Deciding
<1>1. PICK choice \in Decisions[by], down \in Outages, full \in Limits, ok \in BOOLEAN :
        Decide(by, choice, down, full, ok)
  BY <1>a
<1> DEFINE action == Corrected(choice, down)
           parks == /\ Refusals(action, thinking.at, case.used, full) = {}
                    /\ action.action = "retry_at"
           retry == [n |-> case.used + 1, rail |-> action.rail, at |-> action.at,
                   sure |-> action.sure]
           d == Attached(action)
<1>2. /\ thinking # None /\ CaseOpen /\ thinking' = None /\ UNCHANGED clock
      /\ notified' \in {clock, notified}
      /\ parked' = IF parks THEN parked \cup {retry} ELSE parked
      /\ case' = IF ~parks THEN OnLadder(d, thinking.at)
                 ELSE IF Chased THEN [d EXCEPT !.next = action.at] ELSE d
  BY <1>1 DEF Decide, Executed
<1>3. /\ thinking \in Contexts /\ thinking.at \in Nat /\ thinking.at <= clock
  BY <1>2 DEF RulesInv, RulesShape, ContextIsFresh, Contexts
<1>4. action \in Proposals
  <2>1. choice \in Proposals
    BY <1>0, <1>3, RulesTyped, DecidersDecide
  <2> QED
    BY <1>0, <1>3, <2>1, RulesTyped, CorrectionsHold
<1>5. /\ d \in CaseShape /\ d.kind = case.kind /\ d.opened = case.opened
      /\ d.huge = case.huge /\ d.used = case.used + 1 /\ d.used <= Budget
      /\ d.level <= d.used /\ d.state = "open"
      /\ Chased => d.next <= Horizon + LongestSilence + Day
  <2> HIDE DEF action
  <2> QED
    BY <1>2, <1>4, AttachTakesASlot
<1>6. parks =>
        /\ action.at \in Nat /\ action.at >= clock /\ action.at <= WindowEnd
        /\ ~InBlackout(action.at) /\ case.used + 1 <= PayLimit /\ ~case.huge
        /\ case.kind \notin HardDeclines /\ case.kind # "risk_check_failed"
  BY <1>2, ParkedIsAllowed
<1> HIDE DEF action, d, parks, retry
<1>7. /\ case' \in CaseShape /\ case'.kind = case.kind /\ case'.opened = case.opened
      /\ case'.huge = case.huge /\ case'.used = case.used + 1 /\ case'.used <= Budget
      /\ case'.level <= case'.used /\ case'.state \in {"open", "exhausted"}
      /\ Chased => case'.next <= Horizon + LongestSilence + Day
  <2>1. CASE parks
    <3>1. CASE ~Chased
      BY <1>2, <1>5, <2>1, <3>1
    <3>2. CASE Chased
      <4>1. case' = [d EXCEPT !.next = action.at] /\ action.at \in Nat /\ action.at <= WindowEnd
        BY <1>2, <1>6, <2>1, <3>2
      <4>2. /\ case' \in CaseShape /\ case'.kind = d.kind /\ case'.opened = d.opened
            /\ case'.huge = d.huge /\ case'.used = d.used /\ case'.level = d.level
            /\ case'.state = d.state /\ case'.next = action.at
        BY <1>5, <4>1 DEF CaseShape
      <4>3. case'.next <= Horizon + LongestSilence + Day
        BY <1>0, <3>2, <4>1, <4>2, RulesTyped
      <4> QED
        BY <1>5, <4>2, <4>3
    <3> QED
      BY <3>1, <3>2
  <2>2. CASE ~parks
    <3> DEFINE e == OnLadder(d, thinking.at)
    <3>1. /\ e \in CaseShape /\ e.kind = d.kind /\ e.opened = d.opened /\ e.huge = d.huge
          /\ e.used = d.used /\ e.level = d.level /\ e.state \in {d.state, "exhausted"}
          /\ e.next = d.next \/ (Chased /\ e.next = thinking.at + Policy.gap)
      <4>1. case \in CaseShape /\ d \in CaseShape /\ d.kind = case.kind /\ thinking.at \in Nat
        BY <1>0, <1>3, <1>5, RulesTyped
      <4> QED
        BY <4>1, LadderMoves
    <3> HIDE DEF e
    <3>2. Chased => thinking.at + Policy.gap <= Horizon + LongestSilence + Day
      <4> SUFFICES ASSUME Chased PROVE thinking.at + Policy.gap <= Horizon + LongestSilence + Day
        OBVIOUS
      <4>1. Policy.gap \in Nat /\ Policy.gap <= LongestSilence /\ LongestSilence \in Nat
        BY <1>0, RulesTyped, PolicyTyped, SilenceBounded
      <4> QED
        BY <1>0, <1>3, <4>1, RulesTyped
    <3>3. case' = e
      BY <1>2, <2>2 DEF e
    <3> QED
      BY <1>5, <3>1, <3>2, <3>3
  <2> QED
    BY <2>1, <2>2
<1>8. Chased' = Chased /\ Budget' = Budget /\ WindowEnd' = WindowEnd
      /\ LongestSilence' = LongestSilence
  BY <1>7, SameCase
<1>9. parks => retry \in ParkedRows /\ retry.n = case.used + 1 /\ retry.at = action.at
  BY <1>0, <1>4, <1>6, RulesTyped DEF ParkedRows, retry, Proposals
<1>10. RulesShape'
  <2>1. ASSUME NEW r \in parked' PROVE r \in ParkedRows /\ r.n \in 1..case'.used
    <3>1. CASE r \in parked
      <4>1. r \in ParkedRows /\ r.n \in 1..case.used
        BY <1>0, <3>1 DEF RulesShape
      <4> QED
        BY <1>0, <1>7, <4>1, RulesTyped
    <3>2. CASE parks /\ r = retry
      BY <1>0, <1>7, <1>9, <3>2, RulesTyped
    <3> QED
      BY <1>2, <2>1, <3>1, <3>2
  <2>2. notified' \in -1..MaxClock
    BY <1>0, <1>2, RulesTyped DEF RulesShape
  <2> QED
    BY <1>0, <1>2, <1>7, <1>8, <2>1, <2>2 DEF RulesShape
<1>11. ParkedCanFire'
  <2> SUFFICES ASSUME NEW r \in parked'
               PROVE  /\ r.at <= WindowEnd /\ ~InBlackout(r.at) /\ r.n <= PayLimit
                      /\ ~case.huge /\ case.kind \notin HardDeclines
                      /\ case.kind # "risk_check_failed"
    BY <1>7, <1>8 DEF ParkedCanFire, InBlackout
  <2>1. CASE r \in parked
    BY <2>1 DEF RulesInv, ParkedCanFire
  <2>2. CASE parks /\ r = retry
    BY <1>6, <1>9, <2>2
  <2> QED
    BY <1>2, <2>1, <2>2
<1>12. NoCaseLeaks'
  <2>1. Horizon' = Horizon
    BY <1>2, <1>8 DEF Horizon
  <2> QED
    BY <1>7, <1>8, <2>1 DEF NoCaseLeaks
<1> QED
  BY <1>2, <1>10, <1>11, <1>12 DEF RulesInv, ContextIsFresh

LEMMA RulesStep == ASSUME RulesInv, [RulesNext]_rulesVars PROVE RulesInv'
<1>1. CASE UNCHANGED rulesVars
  <2>1. UNCHANGED <<clock, case, notified, thinking, parked>>
    BY <1>1 DEF rulesVars
  <2>2. Chased' = Chased /\ Policy' = Policy /\ Budget' = Budget /\ WindowEnd' = WindowEnd
        /\ LongestSilence' = LongestSilence
    BY <2>1, SameCase
  <2>3. Horizon' = Horizon
    BY <2>1, <2>2 DEF Horizon
  <2>4. RulesShape' /\ ContextIsFresh' /\ ParkedCanFire'
    BY <2>1, <2>2 DEF RulesInv, RulesShape, ContextIsFresh, ParkedCanFire, InBlackout, CaseOpen
  <2>5. NoCaseLeaks'
    BY <2>1, <2>2, <2>3 DEF RulesInv, NoCaseLeaks, CaseOpen
  <2> QED
    BY <2>4, <2>5 DEF RulesInv
<1>2. CASE \/ ChaseExpires \/ ChaseDefers \/ StoppedWhileDeciding \/ CaseCloses
           \/ \E retry \in parked : FireCancelled(retry) \/ \E full \in Limits : Fire(retry, full)
  BY <1>2, QuietRules
<1>3. CASE CaseOpens
  BY <1>3, CaseOpensKeeps
<1>4. CASE ChaseAsks \/ PaymentAsks
  BY <1>4, AskingKeeps
<1>5. CASE Deciding
  BY <1>5, DecidingKeeps
<1>6. CASE TimePasses
  BY <1>6, TimeKeeps
<1> QED
  BY <1>1, <1>2, <1>3, <1>4, <1>5, <1>6 DEF RulesNext

LEMMA RulesStart == ASSUME RulesInit PROVE RulesInv
<1>1. PICK c \in RuleCases : case = Unopened(c)
  BY DEF RulesInit
<1>2. c \in [kind: Chasers \cup PaymentClasses, method: Rails \cup {"unknown"}, huge: BOOLEAN]
  BY RulesAssumption
<1>3. case \in CaseShape /\ case.state = "none" /\ case.used = 0 /\ case.level = 0
  BY <1>1, <1>2 DEF Unopened, CaseShape
<1>4. RulesShape
  BY <1>3, PolicyTyped, RulesConstants DEF RulesInit, RulesShape, Never
<1>5. ContextIsFresh /\ ParkedCanFire /\ NoCaseLeaks
  BY <1>3 DEF RulesInit, ContextIsFresh, ParkedCanFire, NoCaseLeaks, CaseOpen
<1> QED
  BY <1>4, <1>5 DEF RulesInv

LEMMA RulesInvariant == RulesSpec => []RulesInv
<1>1. RulesInit => RulesInv
  BY RulesStart
<1>2. RulesInv /\ [RulesNext]_rulesVars => RulesInv'
  BY RulesStep
<1> QED
  BY <1>1, <1>2, PTL DEF RulesSpec

\* The variables hold values of their types, a case never holds more slots than its
\* budget nor more rungs than slots, and a parked attempt is one of its slots.
THEOREM RulesTypeCorrect == RulesSpec => []RulesTypeOK
<1>1. RulesInv => RulesTypeOK
  <2> SUFFICES ASSUME RulesInv PROVE RulesTypeOK
    OBVIOUS
  <2>0. RulesShape
    BY DEF RulesInv
  <2>1. case.state \in {"none", "open", "abandoned", "exhausted", "expired", "recovered"}
    BY <2>0 DEF RulesShape, CaseShape
  <2>2. case.used \in 0..Budget /\ case.level \in 0..case.used
    BY <2>0, RulesTyped DEF RulesShape
  <2>3. ASSUME NEW retry \in parked PROVE retry.n \in 1..case.used /\ retry.rail \in Rails \cup {NoRail}
    BY <2>0 DEF RulesShape, ParkedRows
  <2> QED
    BY <2>0, <2>1, <2>2, <2>3 DEF RulesTypeOK, RulesShape
<1> QED
  BY <1>1, RulesInvariant, PTL

\* For every blackout, policy table and backoff: no decision puts a case off beyond the
\* longest silence (NoCaseLeaks).
THEOREM CasesDoNotLeak == RulesSpec => []NoCaseLeaks
<1>1. RulesInv => NoCaseLeaks
  BY DEF RulesInv
<1> QED
  BY <1>1, RulesInvariant, PTL

\* For every blackout, policy table and length of a notice: no failed mandate is collected
\* without the notice it must have had (NoticeBeforeDebit).
THEOREM NoDebitUnannounced == RulesSpec => NoticeBeforeDebit
<1>1. ASSUME RulesInv, [RulesNext]_rulesVars, Collected
      PROVE  /\ notified # Never
             /\ notified + Day <= clock /\ clock <= notified + NoticeValid + Think
  <2>0. RulesShape /\ notified \in Int /\ NoticeValid \in Nat /\ clock \in Nat
        /\ Day \in Nat /\ Think \in Nat
    BY <1>1, RulesTyped, RulesConstants DEF RulesInv, RulesShape
  <2>1. \/ Deciding \/ \E retry \in parked : \E full \in Limits : Fire(retry, full)
    BY <1>1 DEF Collected, rulesVars, RulesNext, NoAttempt, CaseOpens, ChaseExpires, ChaseDefers,
       ChaseAsks, PaymentAsks, StoppedWhileDeciding, FireCancelled, CaseCloses, TimePasses
  <2>2. ASSUME Deciding
        PROVE  NoticeStands(thinking.at) /\ thinking.at \in Nat /\ thinking.at <= clock
               /\ clock <= thinking.at + Think
    <3>1. PICK by \in DOMAIN Decisions :
            \E choice \in Decisions[by] : \E down \in Outages, full \in Limits, ok \in BOOLEAN :
              Decide(by, choice, down, full, ok)
      BY <2>2 DEF Deciding
    <3>2. PICK choice \in Decisions[by], down \in Outages, full \in Limits, ok \in BOOLEAN :
            Decide(by, choice, down, full, ok)
      BY <3>1
    <3>3. /\ thinking # None /\ thinking \in Contexts /\ thinking.at \in Nat
          /\ thinking.at <= clock /\ clock <= thinking.at + Think
      BY <1>1, <3>2 DEF Decide, RulesInv, RulesShape, ContextIsFresh, Contexts
    <3> DEFINE action == Corrected(choice, down)
    <3>4. last'.action = action.action /\ case.kind = "mandate_failure"
          /\ action.action \in {"retry_now", "retry_at"}
      BY <1>1, <3>2 DEF Decide, Collected
    <3>5. choice \in Proposals
      BY <2>0, <3>3, RulesTyped, DecidersDecide
    <3> HIDE DEF action
    <3>6. case.kind = "mandate_failure" => NoticeStands(thinking.at)
      <4>1. case \in CaseShape
        BY <2>0, RulesTyped
      <4> QED
        BY <3>3, <3>4, <3>5, <4>1, CorrectionsHold DEF action
    <3> QED
      BY <3>3, <3>4, <3>6
  <2>3. ASSUME NEW retry \in parked, NEW full \in Limits, Fire(retry, full) PROVE NoticeStands(clock)
    <3> DEFINE action == [action |-> Fired(retry), rail |-> retry.rail, at |-> NoTime,
                          sure |-> retry.sure]
    <3>1. Refusals(action, clock, retry.n - 1, full) = {} /\ action.action = "retry_now"
      BY <1>1, <2>3 DEF Fire, Collected, Fired
    <3> HIDE DEF action
    <3>2. ~Unnoticed(action, clock)
      BY <3>1, GateIsStrict
    <3> QED
      BY <1>1, <3>1, <3>2 DEF Unnoticed, Collected
  <2> QED
    BY <2>0, <2>1, <2>2, <2>3 DEF NoticeStands
<1>2. RulesInv /\ [RulesNext]_rulesVars =>
        [Collected => /\ notified # Never
                      /\ notified + Day <= clock /\ clock <= notified + NoticeValid + Think
        ]_rulesVars
  BY <1>1
<1> QED
  BY <1>2, RulesInvariant, PTL DEF RulesSpec, NoticeBeforeDebit

\* A retry that fires when it is due is refused for nothing that was known before.
LEMMA PromptFire ==
  ASSUME RulesInv, NEW retry \in parked, NEW full, Fire(retry, full), retry.at = clock
  PROVE  last'.reasons \subseteq {"customer", "value", "notice"}
<1> DEFINE action == [action |-> Fired(retry), rail |-> retry.rail, at |-> NoTime, sure |-> retry.sure]
           reasons == Refusals(action, clock, retry.n - 1, full)
<1>1. last'.reasons = reasons /\ action.action = "retry_now" /\ action.at = NoTime
  BY DEF Fire, Fired
<1>2. /\ clock <= WindowEnd /\ ~InBlackout(clock) /\ retry.n <= PayLimit
      /\ ~case.huge /\ case.kind \notin HardDeclines /\ case.kind # "risk_check_failed"
  BY DEF RulesInv, ParkedCanFire
<1>3. clock \in Nat /\ WindowEnd \in Nat /\ retry.n \in Nat /\ PayLimit \in Nat
  <2>1. RulesShape /\ retry.n \in Nat
    BY DEF RulesInv, RulesShape, ParkedRows
  <2> QED
    BY <2>1, RulesTyped, RulesConstants
<1> HIDE DEF action
<1>4. ~SchemaBreaks(action) /\ ~BeyondWindow(action.at)
  BY <1>1 DEF SchemaBreaks, BeyondWindow, WindowRule
<1>5. /\ "schema" \in reasons => SchemaBreaks(action)
      /\ "hard_decline" \in reasons => case.kind \in HardDeclines
      /\ "switch_only" \in reasons => case.kind = "risk_check_failed"
      /\ "attempts" \in reasons => retry.n - 1 >= PayLimit
      /\ "ceiling" \in reasons => case.huge
      /\ "window" \in reasons => clock > WindowEnd
      /\ "retry_at" \in reasons => BeyondWindow(action.at)
      /\ "blackout" \in reasons => InBlackout(clock)
      /\ "nudges" \in reasons => action.action = "nudge_customer"
      /\ reasons \subseteq {"schema", "hard_decline", "switch_only", "attempts", "customer",
                            "ceiling", "window", "retry_at", "blackout", "value", "notice",
                            "nudges"}
  BY GateNamesBroken
<1> HIDE DEF reasons
<1>6. "attempts" \notin reasons /\ "window" \notin reasons
  BY <1>2, <1>3, <1>5
<1> QED
  BY <1>1, <1>2, <1>4, <1>5, <1>6

\* No decider spends a slot on what it knows.
LEMMA DecisionIsInformed ==
  ASSUME RulesInv, Deciding, Think <= 1 PROVE NoSlotWasted'
<1>a. PICK by \in DOMAIN Decisions :
        \E choice \in Decisions[by] : \E down \in Outages, full \in Limits, ok \in BOOLEAN :
          Decide(by, choice, down, full, ok)
  BY DEF Deciding
<1>1. PICK choice \in Decisions[by], down \in Outages, full \in Limits, ok \in BOOLEAN :
        Decide(by, choice, down, full, ok)
  BY <1>a
<1>0. /\ RulesShape /\ case \in CaseShape /\ thinking \in Contexts /\ clock \in Nat
      /\ thinking.at \in Nat /\ clock <= thinking.at + 1
  <2>1. RulesShape /\ thinking \in Contexts /\ thinking.at \in Nat /\ clock <= thinking.at + Think
    BY <1>1 DEF Decide, RulesInv, RulesShape, ContextIsFresh, Contexts
  <2> QED
    BY <2>1, RulesTyped
<1> DEFINE action == Corrected(choice, down)
           reasons == Refusals(action, thinking.at, case.used, full)
<1>2. /\ last'.reasons = reasons /\ last'.by = by /\ last'.prompt = FALSE
      /\ last'.stuck = (action.action = "switch_rail" /\ action.rail = case.method)
  BY <1>1 DEF Decide
<1>3. /\ choice \in Proposals /\ by \in {"llm", "baseline"}
      /\ by = "baseline" =>
           /\ choice.action = "retry_at" => choice.at \in Nat /\ choice.at > thinking.at
           /\ case.kind = "risk_check_failed" => choice.action = "switch_rail"
  BY <1>0, DecidersDecide
<1>4. /\ action \in Proposals
      /\ action.action \in {"retry_now", "retry_at"} =>
           /\ action.action = choice.action
           /\ case.kind = "mandate_failure" => NoticeStands(thinking.at)
      /\ action.action = "retry_at" =>
           IF choice.at = NoTime THEN action.at = NoTime ELSE action.at = Clamp(choice.at)
      /\ action.action = "switch_rail" => action.rail \in Rails \ {case.method}
  BY <1>0, <1>3, CorrectionsHold
<1> HIDE DEF action
<1>5. /\ "schema" \in reasons => SchemaBreaks(action)
      /\ "switch_only" \in reasons =>
           case.kind = "risk_check_failed" /\ action.action \in {"retry_now", "retry_at"}
      /\ "notice" \in reasons => Unnoticed(action, thinking.at)
  BY GateNamesBroken
<1> HIDE DEF reasons
<1>6. ~last'.stuck
  BY <1>2, <1>4
<1>7. "notice" \notin reasons
  BY <1>4, <1>5 DEF Unnoticed
<1>8. ASSUME by = "baseline" PROVE reasons \cap {"schema", "switch_only"} = {}
  <2>1. "switch_only" \notin reasons
    <3>1. ASSUME "switch_only" \in reasons PROVE FALSE
      BY <1>3, <1>4, <1>5, <1>8, <3>1
    <3> QED
      BY <3>1
  <2>2. ~(action.action = "switch_rail" /\ action.rail = NoRail)
    BY <1>4 DEF Rails, NoRail
  <2>3. ASSUME action.action = "retry_at" PROVE action.at # NoTime /\ ~(action.at < clock)
    <3>1. choice.at \in Nat /\ choice.at > thinking.at
      BY <1>3, <1>4, <1>8, <2>3
    <3>2. action.at = Clamp(choice.at)
      BY <1>4, <2>3, <3>1 DEF NoTime
    <3>3. action.at \in Nat /\ choice.at <= action.at
      BY <3>1, <3>2, ClampLeavesBlackout
    <3> QED
      BY <1>0, <3>1, <3>3 DEF NoTime
  <2>4. "schema" \notin reasons
    BY <1>5, <2>2, <2>3 DEF SchemaBreaks
  <2> QED
    BY <2>1, <2>4
<1> QED
  BY <1>2, <1>6, <1>7, <1>8 DEF NoSlotWasted, PromptRetryStands, NoSlotOnAKnownWall

\* For every blackout and policy table, where an agent's answer comes before the shortest
\* delay a decider asks for (a unit; settings.llm_timeout_seconds against the quarter of an
\* hour of a bank's downtime): no slot of the budget is spent on a wall the engine knows
\* (NoSlotWasted). With slower answers a baseline's deferral may lie in the past when it is
\* validated, and the schema rule refuses it.
THEOREM SlotsAreNotWasted == ASSUME Think <= 1 PROVE RulesSpec => []NoSlotWasted
<1>1. RulesInit => NoSlotWasted
  BY DEF RulesInit, NoAttempt, NoSlotWasted, PromptRetryStands, NoSlotOnAKnownWall
<1>2. ASSUME RulesInv, NoSlotWasted, [RulesNext]_rulesVars PROVE NoSlotWasted'
  <2>1. CASE last' = last
    BY <1>2, <2>1 DEF NoSlotWasted, PromptRetryStands, NoSlotOnAKnownWall
  <2>2. CASE last' = NoAttempt
    BY <2>2 DEF NoAttempt, NoSlotWasted, PromptRetryStands, NoSlotOnAKnownWall
  <2>3. CASE Deciding
    BY <1>2, <2>3, DecisionIsInformed
  <2>4. ASSUME NEW retry \in parked, NEW full \in Limits, Fire(retry, full) PROVE NoSlotWasted'
    <3>1. ~last'.stuck /\ last'.by = "scheduler" /\ last'.prompt = (retry.at = clock)
      BY <2>4 DEF Fire
    <3>2. last'.prompt => last'.reasons \subseteq {"customer", "value", "notice"}
      BY <1>2, <2>4, <3>1, PromptFire
    <3> QED
      BY <3>1, <3>2 DEF NoSlotWasted, PromptRetryStands, NoSlotOnAKnownWall
  <2>5. \/ last' = last \/ last' = NoAttempt \/ Deciding
        \/ \E retry \in parked : \E full \in Limits : Fire(retry, full)
    BY <1>2 DEF rulesVars, RulesNext, CaseOpens, ChaseExpires, ChaseDefers,
       ChaseAsks, PaymentAsks, StoppedWhileDeciding, FireCancelled, CaseCloses, TimePasses
  <2> QED
    BY <2>1, <2>2, <2>3, <2>4, <2>5
<1> QED
  BY <1>1, <1>2, RulesInvariant, PTL DEF RulesSpec
=============================================================================
