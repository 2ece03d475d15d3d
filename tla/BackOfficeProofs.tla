-------------------------- MODULE BackOfficeProofs --------------------------
(****************************************************************************)
(* Proofs about the parts behind a case that keep no state in common: the   *)
(* account desk, for any ladder, any invoices and any week; the policy      *)
(* agent, for any number of sessions; batch runs, for any cohort; and the   *)
(* attribution of captures, for any cases and payments. Then the types of   *)
(* the joint specification, which takes the steps of one part at a time.    *)
(****************************************************************************)
EXTENDS MCBackOffice, CustomerProofs

-----------------------------------------------------------------------------
(* The account desk: the ladder                                             *)

LEMMA DeskConstants ==
  /\ Top = 4 /\ Rungs \in [0..4 -> Nat] /\ Rungs[0] = 0
  /\ Rungs[0] < Rungs[1] /\ Rungs[1] < Rungs[2] /\ Rungs[2] < Rungs[3] /\ Rungs[3] < Rungs[4]
  /\ Window \in Nat \ {0} /\ ReChase \in Nat \ {0} /\ MaxAttempts \in Nat \ {0}
  /\ Week \in Nat \ {0} /\ WorkingDays \in 1..Week /\ LongestGap \in Nat
  /\ ReChase <= LongestGap /\ Window <= LongestGap
<1>1. Top = 4 /\ \A l \in 1..4 : Rungs[l - 1] < Rungs[l]
  BY DeskAssumption DEF Top
<1>2. 1 \in 1..4 /\ 2 \in 1..4 /\ 3 \in 1..4 /\ 4 \in 1..4
  OBVIOUS
<1> QED
  BY <1>1, <1>2, DeskAssumption DEF LongestGap

\* A rung is demanded at any age, and the next one is at least a day away.
LEMMA RungIsDemanded ==
  ASSUME NEW days \in Nat
  PROVE  StageForAging(days) \in 0..Top
<1> DEFINE reached == {l \in 0..Top : Rungs[l] <= days}
<1>1. 0 \in reached /\ reached \in SUBSET Int /\ reached \subseteq 0..Top /\ Top \in Int
  BY DeskConstants
<1>2. IsFiniteSet(reached)
  <2> HIDE DEF reached
  <2>1. IsFiniteSet(0..Top)
    BY <1>1, FS_Interval
  <2> QED
    BY <1>1, <2>1, FS_Subset
<1>3. \E l \in reached : \A m \in reached : m <= l
  <2> HIDE DEF reached
  <2> QED
    BY <1>1, <1>2, GreatestNumber
<1> QED
  BY <1>3 DEF StageForAging

LEMMA GapIsPositive ==
  ASSUME NEW level \in 0..Top
  PROVE  GapAfter(level) \in Waits /\ GapAfter(level) # 0
<1>1. level \in {0, 1, 2, 3, 4}
  BY DeskConstants
<1> QED
  BY <1>1, DeskConstants DEF GapAfter, Waits

\* The oldest of the invoices that join is one of them.
LEMMA OldestIsAnAge ==
  ASSUME DeskTypeOK, NEW cases \in SUBSET Invoices, cases # {}
  PROVE  Oldest(cases) \in Nat
<1> DEFINE ages == {inv[i].late : i \in cases}
<1>1. ages # {} /\ ages \subseteq 0..Rungs[Top] /\ Rungs[Top] \in Nat
  BY DeskConstants DEF DeskTypeOK, InvoiceRow
<1>4. \E d \in ages : \A e \in ages : e <= d
  <2> HIDE DEF ages
  <2>1. IsFiniteSet(0..Rungs[Top]) /\ ages \in SUBSET Int
    BY <1>1, FS_Interval
  <2> QED
    BY <1>1, <2>1, FS_Subset, GreatestNumber
<1>5. \E d \in ages : \A i \in cases : inv[i].late <= d
  BY <1>4
<1> QED
  BY <1>1, <1>5 DEF Oldest

-----------------------------------------------------------------------------
(* The account desk: one voice per tick                                     *)

\* Who of those the account sweep looked at may still be, or was, contacted in this tick.
Speaks(i) == i \in contacted \/ (inv[i].state = "open" /\ inv[i].wait = 0)
OneSpeaks ==
  /\ phase # "chase" => seen = {}
  /\ \A i \in seen : inv[i].state # "unseen"
  /\ \A i, j \in seen : Speaks(i) /\ Speaks(j) => i = j

LEMMA WaitingTyped ==
  ASSUME DeskTypeOK, NEW cases, NEW days \in Waits
  PROVE  /\ Waiting(cases, days) \in [Invoices -> InvoiceRow]
         /\ \A i \in Invoices : Waiting(cases, days)[i].state = inv[i].state
         /\ \A i \in Invoices : Waiting(cases, days)[i].wait = 0 =>
              (i \in cases => days = 0) /\ (i \notin cases => inv[i].wait = 0)
<1>1. ASSUME NEW i \in Invoices
      PROVE  /\ inv[i] \in InvoiceRow
             /\ [inv[i] EXCEPT !.wait = days] \in InvoiceRow
             /\ [inv[i] EXCEPT !.wait = days].state = inv[i].state
             /\ [inv[i] EXCEPT !.wait = days].wait = days
  BY DEF DeskTypeOK, InvoiceRow
<1> QED
  BY <1>1 DEF Waiting

LEMMA WindowIsAhead ==
  ASSUME DeskTypeOK
  PROVE  NextB2bWindow \in Waits
  BY DeskConstants DEF DeskTypeOK, NextB2bWindow, Waits

\* Behind every sweep at most one of the invoices it looked at is left to speak: the
\* carrier of the rung it fired.
LEMMA SweepLeavesOne ==
  ASSUME DeskTypeOK, OneSpeaks, AccountSweep
  PROVE  DeskTypeOK' /\ OneSpeaks'
<1>0. /\ Joiners \subseteq Invoices /\ Joiners \subseteq Open
      /\ \A i \in Open : inv[i].state = "open"
  BY DEF Joiners, Due, Open
<1>1. CASE DeferToWindow \/ NothingToJoin
  <2>1. inv' \in [Invoices -> InvoiceRow]
    BY <1>1, WaitingTyped, WindowIsAhead DEF DeferToWindow, NothingToJoin, DeskTypeOK
  <2> QED
    BY <1>1, <2>1 DEF DeferToWindow, NothingToJoin, Begin, DeskTypeOK, OneSpeaks
<1>2. CASE RungAlreadyFired
  <2>1. latest \in 0..Top /\ GapAfter(latest) \in Waits /\ GapAfter(latest) # 0
    BY <1>0, <1>2, OldestIsAnAge, RungIsDemanded, GapIsPositive DEF RungAlreadyFired
  <2>2. inv' = Waiting(Joiners, GapAfter(latest)) /\ seen' = Joiners /\ contacted' = {}
        /\ chased' = {} /\ phase' = "chase" /\ UNCHANGED <<weekday, latest>>
    BY <1>2 DEF RungAlreadyFired, Begin
  <2>3. \A i \in Joiners : inv'[i].state = "open" /\ inv'[i].wait # 0
    BY <1>0, <2>1, <2>2, WaitingTyped
  <2> QED
    BY <1>0, <2>1, <2>2, <2>3, WaitingTyped DEF DeskTypeOK, OneSpeaks, Speaks
<1>3. ASSUME NEW carrier \in Invoices, FireRung(carrier) PROVE DeskTypeOK' /\ OneSpeaks'
  <2>1. PICK stage \in 0..Top :
          /\ inv' = Waiting(Joiners \ {carrier}, GapAfter(stage))
          /\ latest' = stage /\ seen' = Joiners /\ contacted' = {} /\ chased' = {}
          /\ phase' = "chase" /\ UNCHANGED weekday
    <3>1. Joiners # {}
      BY <1>3 DEF FireRung, Carriers
    <3>2. StageForAging(Oldest(Joiners)) \in 0..Top
      BY <1>0, <3>1, OldestIsAnAge, RungIsDemanded
    <3> QED
      BY <1>3, <3>2 DEF FireRung, Begin, Deferred
  <2>2. GapAfter(stage) \in Waits /\ GapAfter(stage) # 0
    BY <2>1, GapIsPositive
  <2>3. \A i \in Joiners : inv'[i].state = "open" /\ (inv'[i].wait = 0 => i = carrier)
    BY <1>0, <2>1, <2>2, WaitingTyped
  <2> QED
    BY <1>0, <2>1, <2>2, <2>3, WaitingTyped DEF DeskTypeOK, OneSpeaks, Speaks
<1> QED
  BY <1>1, <1>2, <1>3 DEF AccountSweep
LEMMA CloseTyped ==
  ASSUME DeskTypeOK, NEW i \in Invoices, Close(i)
  PROVE  /\ inv' \in [Invoices -> InvoiceRow] /\ inv'[i].state = "closed"
         /\ \A j \in Invoices \ {i} : inv'[j] = inv[j]
<1>1. inv \in [Invoices -> InvoiceRow] /\ inv[i] \in InvoiceRow
  BY DEF DeskTypeOK
<1>2. inv' = [inv EXCEPT ![i] = [inv[i] EXCEPT !.state = "closed", !.disputed = FALSE]]
  BY <1>1 DEF Close
<1>3. [inv[i] EXCEPT !.state = "closed", !.disputed = FALSE] \in InvoiceRow
  BY <1>1 DEF InvoiceRow
<1> QED
  BY <1>1, <1>2, <1>3

\* The chase only silences: who it contacts could speak already.
LEMMA ChaseKeepsOne ==
  ASSUME DeskTypeOK, OneSpeaks, NEW i \in Invoices, Chase(i)
  PROVE  DeskTypeOK' /\ OneSpeaks'
<1>0. /\ inv[i] \in InvoiceRow /\ inv \in [Invoices -> InvoiceRow]
      /\ ReChase \in Waits /\ ReChase # 0
  BY DeskConstants DEF DeskTypeOK, Waits
<1>1. /\ i \in Invoices \ chased /\ phase = "chase" /\ inv[i].state = "open" /\ inv[i].wait = 0
      /\ chased' = chased \cup {i} /\ UNCHANGED <<weekday, phase, latest, seen>>
  BY DEF Chase, ChaseCloses, ChaseFrozen, ChaseOutsideWindow, ChaseAttempts, ChaseFails, Take,
         Due, Open
<1> USE <1>0, <1>1
<1>2. CASE ChaseCloses(i)
  <2>1. contacted' = contacted /\ Close(i)
    BY <1>2 DEF ChaseCloses
  <2> QED
    BY <2>1, CloseTyped DEF DeskTypeOK, OneSpeaks, Speaks
<1>3. CASE ChaseFrozen(i) \/ ChaseOutsideWindow(i)
  <2>1. PICK days \in Waits : inv' = Waiting({i}, days) /\ contacted' = contacted
    BY <1>3, WindowIsAhead DEF ChaseFrozen, ChaseOutsideWindow
  <2> QED
    BY <2>1, WaitingTyped DEF DeskTypeOK, OneSpeaks, Speaks
<1>4. CASE ChaseAttempts(i)
  <2>1. inv' = [inv EXCEPT ![i] = Attempted(i)] /\ contacted' \in {contacted, contacted \cup {i}}
    BY <1>4 DEF ChaseAttempts
  <2>2. inv[i].used # MaxAttempts
    BY <1>4 DEF ChaseAttempts, Ended
  <2>3. Attempted(i) \in InvoiceRow /\ Attempted(i).state # "unseen"
    <3>1. inv[i].used \in 0..MaxAttempts /\ inv[i].used + 1 \in 0..MaxAttempts
      BY <2>2, DeskConstants DEF InvoiceRow
    <3>2. [inv[i] EXCEPT !.used = @ + 1, !.state = "closed"] \in InvoiceRow
      BY <3>1 DEF InvoiceRow
    <3>3. [inv[i] EXCEPT !.used = @ + 1, !.wait = ReChase] \in InvoiceRow
      BY <3>1 DEF InvoiceRow
    <3>4. Attempted(i).state \in {"open", "closed"}
      BY DEF Attempted, InvoiceRow
    <3> QED
      BY <3>2, <3>3, <3>4 DEF Attempted
  <2> QED
    BY <2>1, <2>3 DEF DeskTypeOK, OneSpeaks, Speaks
<1>5. CASE ChaseFails(i)
  BY <1>5 DEF ChaseFails, DeskTypeOK, OneSpeaks, Speaks
<1> QED
  BY <1>2, <1>3, <1>4, <1>5 DEF Chase

\* Nor does the world make a second one due: a new invoice is none the sweep looked at.
LEMMA WorldKeepsOne ==
  ASSUME DeskTypeOK, OneSpeaks, Customer \/ EndTick \/ DayPasses
  PROVE  DeskTypeOK' /\ OneSpeaks'
<1>0. inv \in [Invoices -> InvoiceRow] /\ weekday \in 0..(Week - 1) /\ Week \in Nat \ {0}
  BY DeskConstants DEF DeskTypeOK
<1>1. ASSUME NEW i \in Invoices, NEW new \in Arrivals, ReceiveInvoice(i, new)
      PROVE  DeskTypeOK' /\ OneSpeaks'
  <2>1. /\ new.dated \in BOOLEAN /\ new.late \in 0..Rungs[Top]
        /\ inv[i].state = "unseen" /\ inv[i] \in InvoiceRow
        /\ ReChase \in Waits /\ NextB2bWindow \in Waits /\ 0 \in Waits
    BY <1>0, <1>1, DeskAssumption, DeskConstants, WindowIsAhead DEF ReceiveInvoice, Waits
  <2>2. PICK used \in {0, 1}, wait \in Waits :
          inv' = [inv EXCEPT ![i].state = "open", ![i].dated = new.dated, ![i].late = new.late,
                             ![i].used = used, ![i].wait = wait]
    BY <1>1, <2>1 DEF ReceiveInvoice
  <2> DEFINE reported == [inv[i] EXCEPT !.state = "open", !.dated = new.dated, !.late = new.late,
                                        !.used = used, !.wait = wait]
  <2>a. used \in 0..MaxAttempts
    BY <2>2, DeskConstants
  <2>b. reported \in InvoiceRow
    BY <2>1, <2>2, <2>a DEF InvoiceRow
  <2>3. inv'[i] \in InvoiceRow
    <3>1. inv' = [inv EXCEPT ![i] = reported]
      BY <1>0, <2>2
    <3> QED
      BY <1>0, <2>b, <3>1
  <2>4. inv' \in [Invoices -> InvoiceRow] /\ \A j \in Invoices \ {i} : inv'[j] = inv[j]
    BY <1>0, <2>2, <2>3
  <2> QED
    BY <1>1, <2>1, <2>4 DEF ReceiveInvoice, DeskTypeOK, OneSpeaks, Speaks
<1>2. ASSUME NEW i \in Invoices, PayInvoice(i) \/ DisputeInvoice(i) \/ AnswerDispute(i)
      PROVE  DeskTypeOK' /\ OneSpeaks'
  <2>1. UNCHANGED <<weekday, phase, latest, seen, chased, contacted>> /\ inv[i].state = "open"
    BY <1>2 DEF PayInvoice, DisputeInvoice, AnswerDispute, Open
  <2>2. CASE Close(i)
    BY <2>1, <2>2, CloseTyped DEF DeskTypeOK, OneSpeaks, Speaks
  <2>3. CASE \E disputed \in BOOLEAN : inv' = [inv EXCEPT ![i].disputed = disputed]
    <3>1. PICK disputed \in BOOLEAN : inv' = [inv EXCEPT ![i].disputed = disputed]
      BY <2>3
    <3>2. /\ inv' \in [Invoices -> InvoiceRow]
          /\ \A j \in Invoices : inv'[j].state = inv[j].state /\ inv'[j].wait = inv[j].wait
      BY <1>0, <3>1 DEF InvoiceRow
    <3> QED
      BY <2>1, <3>2 DEF DeskTypeOK, OneSpeaks, Speaks
  <2> QED
    BY <1>2, <2>2, <2>3 DEF PayInvoice, DisputeInvoice, AnswerDispute
<1>3. CASE EndTick
  BY <1>3 DEF EndTick, DeskTypeOK, OneSpeaks
<1>4. CASE DayPasses
  <2>1. \A i \in Invoices : inv'[i] \in InvoiceRow
    <3> SUFFICES ASSUME NEW i \in Invoices PROVE inv'[i] \in InvoiceRow
      OBVIOUS
    <3>1. inv[i] \in InvoiceRow /\ Rungs[Top] \in Nat /\ Window + 1 \in Nat
      BY <1>0, DeskConstants
    <3>2. /\ Capped(inv[i].late, Rungs[Top]) \in 0..Rungs[Top]
          /\ Capped(inv[i].life, Window + 1) \in 0..(Window + 1)
      BY <3>1 DEF Capped, InvoiceRow
    <3>3. (IF inv[i].wait = 0 THEN 0 ELSE inv[i].wait - 1) \in Waits
      BY <3>1, DeskConstants DEF Waits, InvoiceRow
    <3> QED
      BY <1>4, <3>1, <3>2, <3>3 DEF DayPasses, InvoiceRow
  <2>2. weekday' \in 0..(Week - 1)
    <3>1. weekday + 1 \in Nat
      BY <1>0
    <3>2. weekday' = (weekday + 1) % Week
      BY <1>4, Zenon DEF DayPasses
    <3> QED
      BY <1>0, <3>1, <3>2
  <2> QED
    BY <1>4, <2>1, <2>2 DEF DayPasses, DeskTypeOK, OneSpeaks
<1> QED
  BY <1>1, <1>2, <1>3, <1>4 DEF Customer

LEMMA DeskKeepsOne == DeskSpec => [](DeskTypeOK /\ OneSpeaks)
<1>1. DeskInit => DeskTypeOK /\ OneSpeaks
  BY DeskConstants DEF DeskInit, DeskTypeOK, InvoiceRow, Waits, OneSpeaks
<1>2. DeskTypeOK /\ OneSpeaks /\ UNCHANGED deskVars => DeskTypeOK' /\ OneSpeaks'
  BY DEF deskVars, DeskTypeOK, OneSpeaks, Speaks
<1>3. DeskTypeOK /\ OneSpeaks /\ [DeskNext]_deskVars => DeskTypeOK' /\ OneSpeaks'
  BY <1>2, SweepLeavesOne, ChaseKeepsOne, WorldKeepsOne DEF DeskNext
<1> QED
  BY <1>1, <1>3, PTL DEF DeskSpec

\* Every reachable state is well typed: an invoice never spends more attempts than its
\* budget nor stands on a rung the ladder does not have, however long it is open.
THEOREM DeskTypeCorrect == DeskSpec => []DeskTypeOK
  BY DeskKeepsOne, PTL

\* Of the invoices one account sweep looked at, the customer hears about one at most in
\* its tick, whatever is paid, disputed, answered or reported in between
\* (chase_due_accounts: "four overdue invoices is one account").
THEOREM OneVoice == DeskSpec => []OneVoicePerTick
<1>1. ASSUME OneSpeaks PROVE OneVoicePerTick
  <2>1. CASE contacted \cap seen = {}
    BY <2>1, FS_EmptySet DEF OneVoicePerTick
  <2>2. ASSUME NEW i \in contacted \cap seen PROVE OneVoicePerTick
    <3>1. contacted \cap seen = {i}
      BY <1>1, <2>2 DEF OneSpeaks, Speaks
    <3> QED
      BY <3>1, FS_Singleton DEF OneVoicePerTick
  <2> QED
    BY <2>1, <2>2
<1> QED
  BY <1>1, DeskKeepsOne, PTL

-----------------------------------------------------------------------------
(* The policy agent                                                         *)

Awake == {s \in Sessions : desk[s].at # "idle"}

\* How many calls of the provider a decision has made, by where it is.
CallsMade == [idle |-> {0}, first |-> {1}, second |-> {2}, correction |-> {2, 3}]
AgentPlaces == {"idle", "first", "second", "correction"}
AgentShape ==
  /\ agent \in BOOLEAN /\ fallbacks \in Nat
  /\ desk \in [Sessions -> [at: AgentPlaces, calls: Nat]]
  /\ \A s \in Sessions : desk[s].calls \in CallsMade[desk[s].at]
  /\ before \in [Sessions -> 0..MaxFallbacks]

\* What a session noted before it asked, nobody has taken back since.
CounterOnlyGrows == \A s \in Awake : before[s] <= fallbacks

\* Of the fallbacks to come, each awake session makes one at most.
FallbacksToCome == fallbacks + Cardinality(Awake) <= MaxFallbacks + Cardinality(Sessions)

LEMMA PolicyConstants ==
  /\ HasAgent \subseteq BOOLEAN /\ MaxFallbacks \in Nat /\ IsFiniteSet(Sessions)
  /\ Cardinality(Sessions) \in Nat
  BY PolicyAssumption, FS_CardinalityType

LEMMA AwakeCounted ==
  ASSUME NEW S \in SUBSET Sessions
  PROVE  IsFiniteSet(S) /\ Cardinality(S) \in Nat /\ Cardinality(S) <= Cardinality(Sessions)
  BY PolicyConstants, FS_Subset, FS_CardinalityType

LEMMA PolicyStep ==
  ASSUME AgentShape, CounterOnlyGrows, FallbacksToCome, AuditNamesDecider, [PolicyNext]_policyVars
  PROVE  AgentShape' /\ CounterOnlyGrows' /\ FallbacksToCome' /\ AuditNamesDecider'
<1>0. /\ fallbacks \in Nat /\ MaxFallbacks \in Nat /\ Cardinality(Sessions) \in Nat
      /\ Awake \subseteq Sessions /\ IsFiniteSet(Awake) /\ Cardinality(Awake) \in Nat
      /\ fallbacks + Cardinality(Awake) <= MaxFallbacks + Cardinality(Sessions)
      /\ desk \in [Sessions -> [at: AgentPlaces, calls: Nat]]
      /\ before \in [Sessions -> 0..MaxFallbacks]
  BY PolicyConstants, AwakeCounted DEF AgentShape, FallbacksToCome, Awake
<1>a. Awake' \subseteq Sessions
  BY DEF Awake
<1>1. ASSUME NEW s \in Sessions, DecideAlone(s)
      PROVE  AgentShape' /\ CounterOnlyGrows' /\ FallbacksToCome' /\ AuditNamesDecider'
  BY <1>1 DEF DecideAlone, Record, AgentShape, CounterOnlyGrows, FallbacksToCome, Awake,
     AuditNamesDecider
<1>2. ASSUME NEW s \in Sessions, AskAgent(s)
      PROVE  AgentShape' /\ CounterOnlyGrows' /\ FallbacksToCome' /\ AuditNamesDecider'
  <2>1. desk[s].calls = 0
    BY <1>2 DEF AskAgent, AgentShape, CallsMade
  <2>2. desk' = [desk EXCEPT ![s] = [at |-> "first", calls |-> 1]]
    BY <1>0, <1>2, <2>1 DEF AskAgent, Send
  <2>3. AgentShape'
    BY <1>0, <1>2, <2>2 DEF AskAgent, AgentShape, CallsMade, AgentPlaces
  <2>4. CounterOnlyGrows'
    BY <1>0, <1>2, <2>2 DEF AskAgent, CounterOnlyGrows, Awake
  <2>5. Cardinality(Awake') \in Nat /\ Cardinality(Awake') <= Cardinality(Sessions)
    BY <1>a, PolicyConstants, FS_Subset, FS_CardinalityType
  <2>6. fallbacks' = fallbacks /\ fallbacks < MaxFallbacks
    BY <1>2 DEF AskAgent
  <2> QED
    BY <1>0, <1>2, <2>3, <2>4, <2>5, <2>6 DEF AskAgent, FallbacksToCome, AuditNamesDecider
<1>3. ASSUME NEW s \in Sessions, AskAgain(s)
      PROVE  AgentShape' /\ CounterOnlyGrows' /\ FallbacksToCome' /\ AuditNamesDecider'
  <2>1. PICK place \in {"second", "correction"} :
          /\ desk' = [desk EXCEPT ![s] = [at |-> place, calls |-> desk[s].calls + 1]]
          /\ desk[s].at \in {"first", "second"} /\ (place = "second" => desk[s].at = "first")
    BY <1>0, <1>3 DEF AskAgain, Again, Send
  <2>2. desk[s].calls + 1 \in CallsMade[place]
    BY <2>1 DEF AgentShape, CallsMade
  <2>3. AgentShape'
    BY <1>0, <1>3, <2>1, <2>2 DEF AskAgain, AgentShape, CallsMade, AgentPlaces
  <2>4. Awake' = Awake
    BY <1>0, <2>1 DEF Awake
  <2> QED
    BY <1>3, <2>3, <2>4 DEF AskAgain, CounterOnlyGrows, FallbacksToCome, AuditNamesDecider
<1>4. ASSUME NEW s \in Sessions, AgentAnswers(s) \/ AgentFallsBack(s)
      PROVE  AgentShape' /\ CounterOnlyGrows' /\ FallbacksToCome' /\ AuditNamesDecider'
  <2>1. s \in Awake /\ before[s] <= fallbacks /\ before[s] \in Nat
    BY <1>0, <1>4 DEF AgentAnswers, AgentFallsBack, CounterOnlyGrows, Awake
  <2>2. PICK more \in {0, 1}, from \in {"llm", "heuristic"} :
          Conclude(s, from, fallbacks + more) /\ (from = "llm" <=> more = 0)
    BY <1>0, <1>4 DEF AgentAnswers, AgentFallsBack
  <2>3. /\ fallbacks' = fallbacks + more /\ desk' = [desk EXCEPT ![s] = Asleep]
        /\ UNCHANGED <<agent, before>>
    BY <2>2 DEF Conclude
  <2>4. AuditNamesDecider'
    BY <1>0, <2>1, <2>2 DEF Conclude, Trusted, Record, AuditNamesDecider
  <2>5. Awake' = Awake \ {s}
    BY <1>0, <2>3 DEF Awake, Asleep
  <2>6. Cardinality(Awake') = Cardinality(Awake) - 1
    BY <1>0, <2>1, <2>5, FS_RemoveElement
  <2>7. AgentShape'
    BY <1>0, <2>2, <2>3 DEF AgentShape, CallsMade, AgentPlaces, Asleep
  <2>8. CounterOnlyGrows'
    BY <1>0, <2>2, <2>3, <2>5 DEF CounterOnlyGrows
  <2> QED
    BY <1>0, <2>2, <2>3, <2>4, <2>6, <2>7, <2>8 DEF FallbacksToCome
<1>5. CASE UNCHANGED policyVars
  BY <1>5 DEF policyVars, AgentShape, CounterOnlyGrows, FallbacksToCome, Awake, AuditNamesDecider
<1> QED
  BY <1>1, <1>2, <1>3, <1>4, <1>5 DEF PolicyNext

LEMMA PolicyKept ==
  PolicySpec => [](AgentShape /\ CounterOnlyGrows /\ FallbacksToCome /\ AuditNamesDecider)
<1>1. PolicyInit => AgentShape /\ CounterOnlyGrows /\ FallbacksToCome /\ AuditNamesDecider
  <2> SUFFICES ASSUME PolicyInit
               PROVE  AgentShape /\ CounterOnlyGrows /\ FallbacksToCome /\ AuditNamesDecider
    OBVIOUS
  <2>1. Awake = {} /\ Cardinality({}) = 0
    BY FS_EmptySet DEF PolicyInit, Awake, Asleep
  <2> QED
    BY <2>1, PolicyConstants
    DEF PolicyInit, AgentShape, CallsMade, AgentPlaces, Asleep, CounterOnlyGrows, FallbacksToCome,
        AuditNamesDecider, NoDecision
<1> QED
  BY <1>1, PolicyStep, PTL DEF PolicySpec

\* Every reachable state is well typed: in particular no decision asks the provider more
\* than three times (the retry of a transient error, the correction of a garbled answer).
THEOREM PolicyTypeCorrect == PolicySpec => []PolicyTypeOK
<1>1. ASSUME AgentShape, FallbacksToCome PROVE PolicyTypeOK
  <2>1. fallbacks \in 0..(MaxFallbacks + Cardinality(Sessions))
    <3>1. Cardinality(Awake) \in Nat
      BY AwakeCounted DEF Awake
    <3> QED
      BY <1>1, <3>1, PolicyConstants DEF AgentShape, FallbacksToCome
  <2>2. \A s \in Sessions : desk[s].calls \in 0..3
    BY <1>1 DEF AgentShape, CallsMade, AgentPlaces
  <2> QED
    BY <1>1, <2>1, <2>2 DEF PolicyTypeOK, AgentShape, AgentPlaces
<1> QED
  BY <1>1, PolicyKept, PTL

\* The trail names who decided, however many sessions share the one counter: another
\* session's fallback may discard an answer of the LLM, but never lets a heuristic pass
\* for one (_decide_action).
THEOREM TrailNamesDecider == PolicySpec => []AuditNamesDecider
  BY PolicyKept, PTL

-----------------------------------------------------------------------------
(* Batch recovery                                                           *)

RunKeys == [case: Cohort, slot: 0..(BatchBudget - 1), by: {"batch", "engine"}]
CaseRows == [state: {"open", "recovered", "exhausted"}, used: 0..BatchBudget]
Pending == [case: Cohort, slot: 0..(BatchBudget - 1), row: BOOLEAN, ends: BOOLEAN]
RunShape == [at: {"idle", "running", "loaded", "called"}, todo: SUBSET Cohort,
             on: Cohort \cup {0}, seen: CaseRows, mine: SUBSET Pending,
             flushed: SUBSET Cohort]
BatchShape ==
  /\ account \in [Cohort -> CaseRows] /\ run \in [Runs -> RunShape]
  /\ rows \subseteq RunKeys /\ links \subseteq RunKeys
  /\ IsFiniteSet(rows) /\ \A r \in Runs : IsFiniteSet(run[r].mine)

\* What a run has read of a case, and what it is about to write to it, is no more than
\* the rows the case has; the key of a row it is about to write is nobody else's.
Reads(it) ==
  it.at \in {"loaded", "called"} =>
    /\ it.on \in Cohort /\ it.seen.used < BatchBudget
    /\ it.seen.used <= Cardinality(RowsOf(it.on))
Writes(m) ==
  /\ m.row /\ m.slot <= Cardinality(RowsOf(m.case))
  /\ Key(m.case, m.slot, "batch") \notin rows
RunsInOrder ==
  /\ \A r \in Runs : Reads(run[r]) /\ \A m \in run[r].mine : Writes(m)
  /\ \A r, s \in Runs : \A m \in run[r].mine, n \in run[s].mine :
       m.case = n.case /\ m.slot = n.slot => r = s
BatchInv == BatchShape /\ RunsInOrder /\ NoSlotWithoutRow

LEMMA BatchConstants == Cohort \subseteq Nat /\ BatchBudget \in Nat
  BY BatchAssumption

LEMMA RowsCounted ==
  ASSUME IsFiniteSet(rows), NEW c
  PROVE  IsFiniteSet(RowsOf(c)) /\ Cardinality(RowsOf(c)) \in Nat
<1>1. RowsOf(c) \subseteq rows
  BY DEF RowsOf
<1> QED
  BY <1>1, FS_Subset, FS_CardinalityType

\* Rows are only added.
LEMMA RowsGrow ==
  ASSUME IsFiniteSet(rows'), rows \subseteq rows', NEW c
  PROVE  /\ IsFiniteSet(RowsOf(c)') /\ Cardinality(RowsOf(c)') \in Nat
         /\ Cardinality(RowsOf(c)) <= Cardinality(RowsOf(c)') /\ Cardinality(RowsOf(c)) \in Nat
<1>1. RowsOf(c)' \subseteq rows' /\ RowsOf(c) \subseteq RowsOf(c)'
  BY DEF RowsOf
<1>2. IsFiniteSet(RowsOf(c)')
  BY <1>1, FS_Subset
<1> QED
  BY <1>1, <1>2, FS_Subset, FS_CardinalityType

LEMMA OneMoreRow ==
  ASSUME IsFiniteSet(rows'), rows \subseteq rows', NEW c,
         NEW key \in rows' \ rows, key.case = c
  PROVE  Cardinality(RowsOf(c)) + 1 <= Cardinality(RowsOf(c)')
<1>1. RowsOf(c) \cup {key} \subseteq RowsOf(c)' /\ key \notin RowsOf(c)
  BY DEF RowsOf
<1>2. IsFiniteSet(RowsOf(c)')
  BY RowsGrow
<1>3. IsFiniteSet(RowsOf(c)) /\ IsFiniteSet(RowsOf(c) \cup {key})
  BY <1>1, <1>2, FS_Subset
<1>4. Cardinality(RowsOf(c) \cup {key}) = Cardinality(RowsOf(c)) + 1
  BY <1>1, <1>3, FS_AddElement
<1> QED
  BY <1>1, <1>2, <1>4, FS_Subset

\* A step of one run that writes nothing and puts nothing more in hand.
LEMMA RunStep ==
  ASSUME BatchInv, NEW r \in Runs, NEW new \in RunShape, run' = [run EXCEPT ![r] = new],
         UNCHANGED <<account, rows>>, links' \subseteq RunKeys,
         Reads(new), new.mine \subseteq run[r].mine
  PROVE  BatchInv'
<1>0. run \in [Runs -> RunShape] /\ \A s \in Runs : run'[s] = IF s = r THEN new ELSE run[s]
  BY DEF BatchInv, BatchShape
<1>1. \A c : RowsOf(c)' = RowsOf(c)
  BY DEF RowsOf
<1>2. BatchShape'
  <2>1. \A s \in Runs : IsFiniteSet(run'[s].mine)
    BY <1>0, FS_Subset DEF BatchInv, BatchShape
  <2> QED
    BY <1>0, <2>1 DEF BatchInv, BatchShape
<1>3. RunsInOrder'
  <2>1. \A s \in Runs : Reads(run'[s]) /\ \A m \in run'[s].mine : Writes(m)
    BY <1>0 DEF BatchInv, RunsInOrder
  <2>2. ASSUME NEW s \in Runs PROVE Reads(run[s])'
    BY <1>1, <2>1, <2>2 DEF Reads
  <2>3. ASSUME NEW s \in Runs, NEW m \in run'[s].mine PROVE Writes(m)'
    BY <1>1, <2>1, <2>3 DEF Writes
  <2>4. \A s, t \in Runs : \A m \in run'[s].mine, n \in run'[t].mine :
          m.case = n.case /\ m.slot = n.slot => s = t
    BY <1>0 DEF BatchInv, RunsInOrder
  <2> QED
    BY <2>2, <2>3, <2>4 DEF RunsInOrder
<1>4. NoSlotWithoutRow'
  BY <1>1 DEF BatchInv, NoSlotWithoutRow
<1> QED
  BY <1>2, <1>3, <1>4 DEF BatchInv

LEMMA QuietRunSteps ==
  ASSUME BatchInv, NEW r \in Runs,
         \/ Plan(r) \/ Stale(r) \/ LoadCase(r) \/ CallGateway(r) \/ RunFails(r) \/ RunDies(r)
  PROVE  BatchInv'
<1>0. /\ run \in [Runs -> RunShape] /\ run[r] \in RunShape /\ links \subseteq RunKeys
      /\ account \in [Cohort -> CaseRows] /\ Flush(r) \subseteq Cohort /\ BatchBudget \in Nat
      /\ Reads(run[r])
  BY BatchConstants DEF BatchInv, BatchShape, RunShape, Flush, Pending, RunsInOrder
<1>a. NotRunning \in RunShape /\ Reads(NotRunning) /\ NotRunning.mine = {}
  BY BatchConstants DEF NotRunning, RunShape, Reads, Fresh, CaseRows
<1>1. CASE Plan(r)
  <2>1. PICK approved \in SUBSET Cohort :
          /\ run' = [run EXCEPT ![r] = [NotRunning EXCEPT !.at = "running", !.todo = approved]]
          /\ UNCHANGED <<account, rows, links>>
    BY <1>1 DEF Plan, Eligible
  <2> DEFINE new == [NotRunning EXCEPT !.at = "running", !.todo = approved]
  <2>2. new \in RunShape /\ Reads(new) /\ new.mine = {}
    BY <1>a DEF RunShape, Reads
  <2> QED
    BY <1>0, <2>1, <2>2, RunStep
<1>2. CASE Stale(r)
  <2> DEFINE new == [run[r] EXCEPT !.todo = @ \ {NextUp(r)}, !.flushed = Flush(r)]
  <2>1. run' = [run EXCEPT ![r] = new] /\ UNCHANGED <<account, rows, links>> /\ run[r].at = "running"
    BY <1>0, <1>2 DEF Stale, Passed
  <2>2. new \in RunShape /\ Reads(new) /\ new.mine = run[r].mine
    BY <1>0, <2>1 DEF RunShape, Reads
  <2> QED
    BY <1>0, <2>1, <2>2, RunStep
<1>3. CASE LoadCase(r)
  <2> DEFINE c == NextUp(r)
             new == [run[r] EXCEPT !.at = "loaded", !.on = c, !.seen = account[c],
                                   !.flushed = Flush(r)]
  <2>1. run' = [run EXCEPT ![r] = new] /\ UNCHANGED <<account, rows, links>> /\ c \in Eligible
    BY <1>0, <1>3 DEF LoadCase
  <2>2. /\ c \in Cohort /\ account[c] \in CaseRows /\ account[c].used < BatchBudget
        /\ account[c].used <= Cardinality(RowsOf(c))
    BY <1>0, <2>1 DEF Eligible, BatchInv, NoSlotWithoutRow
  <2> HIDE DEF c
  <2>3. new \in RunShape /\ Reads(new) /\ new.mine = run[r].mine
    BY <1>0, <2>2 DEF RunShape, Reads
  <2> QED
    BY <1>0, <2>1, <2>3, RunStep
<1>4. CASE CallGateway(r)
  <2> DEFINE new == [run[r] EXCEPT !.at = "called"]
  <2>1. run' = [run EXCEPT ![r] = new] /\ UNCHANGED <<account, rows>> /\ run[r].at = "loaded"
    BY <1>0, <1>4 DEF CallGateway
  <2>2. new \in RunShape /\ Reads(new) /\ new.mine = run[r].mine
    BY <1>0, <2>1 DEF RunShape, Reads
  <2>3. Slot(r) \in 0..(BatchBudget - 1) /\ run[r].on \in Cohort
    BY <1>0, <2>1 DEF Reads, Slot, RunShape, CaseRows
  <2>4. Key(run[r].on, Slot(r), "batch") \in RunKeys
    BY <2>3 DEF Key, RunKeys
  <2>5. links' \subseteq RunKeys
    BY <1>0, <1>4, <2>4 DEF CallGateway
  <2> QED
    BY <1>0, <2>1, <2>2, <2>5, RunStep
<1>5. CASE RunFails(r) \/ RunDies(r)
  BY <1>0, <1>5, <1>a, RunStep DEF RunFails, RunDies
<1> QED
  BY <1>1, <1>2, <1>3, <1>4, <1>5

\* The key was free when the row was flushed, and no other run may flush it now.
LEMMA BookStep ==
  ASSUME BatchInv, NEW r \in Runs, Book(r)
  PROVE  BatchInv'
<1> DEFINE c == run[r].on
           mark == [case |-> c, slot |-> Slot(r), row |-> TRUE,
                    ends |-> run[r].seen.used + 1 >= BatchBudget]
           new == [run[r] EXCEPT !.at = "running", !.todo = @ \ {c}, !.mine = @ \cup {mark}]
<1>0. /\ run \in [Runs -> RunShape] /\ run[r] \in RunShape /\ BatchBudget \in Nat
      /\ Reads(run[r]) /\ run[r].at = "called" /\ IsFiniteSet(run[r].mine)
      /\ \A s \in Runs : run[s].mine \subseteq Pending
  BY BatchConstants DEF BatchInv, BatchShape, RunsInOrder, Book, RunShape
<1>1. run' = [run EXCEPT ![r] = new] /\ UNCHANGED <<account, rows, links>>
  BY <1>0 DEF Book
<1>2. /\ c \in Cohort /\ Slot(r) \in 0..(BatchBudget - 1)
      /\ Slot(r) <= Cardinality(RowsOf(c)) /\ Key(c, Slot(r), "batch") \notin rows
  BY <1>0 DEF Reads, Slot, RunShape, CaseRows, Book
<1>3. mark \in Pending /\ Writes(mark) /\ mark.case = c /\ mark.slot = Slot(r)
  BY <1>2 DEF Pending, Writes
<1>4. \A s \in Runs \ {r} : \A m \in run[s].mine : ~(m.case = c /\ m.slot = Slot(r))
  BY DEF Book, KeyIsFree, Mine, BatchInv, RunsInOrder, Writes
<1> HIDE DEF mark, c
<1>5. new \in RunShape /\ new.mine = run[r].mine \cup {mark} /\ new.at = "running"
  BY <1>0, <1>3 DEF RunShape
<1> HIDE DEF new
<1>6. \A s \in Runs : run'[s] = IF s = r THEN new ELSE run[s]
  BY <1>0, <1>1
<1>7. \A d : RowsOf(d)' = RowsOf(d)
  BY <1>1 DEF RowsOf
<1>8. BatchShape'
  <2>1. IsFiniteSet(run[r].mine \cup {mark})
    BY <1>0, FS_AddElement
  <2>2. \A s \in Runs : IsFiniteSet(run'[s].mine)
    BY <1>5, <1>6, <2>1 DEF BatchInv, BatchShape
  <2>3. run' \in [Runs -> RunShape]
    BY <1>0, <1>1, <1>5
  <2> QED
    BY <1>1, <2>2, <2>3 DEF BatchInv, BatchShape
<1>9. RunsInOrder'
  <2>1. \A s \in Runs : Reads(run'[s]) /\ \A m \in run'[s].mine : Writes(m)
    BY <1>3, <1>5, <1>6 DEF BatchInv, RunsInOrder, Reads
  <2>2. ASSUME NEW s \in Runs PROVE Reads(run[s])'
    BY <1>7, <2>1, <2>2 DEF Reads
  <2>3. ASSUME NEW s \in Runs, NEW m \in run'[s].mine PROVE Writes(m)'
    BY <1>1, <1>7, <2>1, <2>3 DEF Writes
  <2>4. \A s, t \in Runs : \A m \in run'[s].mine, n \in run'[t].mine :
          m.case = n.case /\ m.slot = n.slot => s = t
    BY <1>3, <1>4, <1>5, <1>6 DEF BatchInv, RunsInOrder
  <2> QED
    BY <2>2, <2>3, <2>4 DEF RunsInOrder
<1> QED
  BY <1>1, <1>7, <1>8, <1>9 DEF BatchInv, NoSlotWithoutRow

\* A step that only adds rows, takes no key a run has in hand, and counts what it adds.
LEMMA RowsStep ==
  ASSUME BatchInv, account' \in [Cohort -> CaseRows], links' \subseteq RunKeys,
         IsFiniteSet(rows'), rows \subseteq rows', rows' \subseteq RunKeys,
         run' \in [Runs -> RunShape], NoSlotWithoutRow',
         \A s \in Runs : run'[s] = run[s] \/ run'[s] = NotRunning,
         \A s \in Runs : \A m \in run'[s].mine : Key(m.case, m.slot, "batch") \notin rows'
  PROVE  BatchInv'
<1>1. NotRunning.mine = {} /\ NotRunning.at = "idle" /\ IsFiniteSet({})
  BY FS_EmptySet DEF NotRunning
<1>2. \A s \in Runs : run'[s].mine \subseteq run[s].mine
                      /\ (run'[s].at \in {"loaded", "called"} => run'[s] = run[s])
  BY <1>1
<1>3. BatchShape'
  <2>1. \A s \in Runs : IsFiniteSet(run'[s].mine)
    BY <1>1 DEF BatchInv, BatchShape
  <2> QED
    BY <2>1 DEF BatchShape
<1>4. ASSUME NEW s \in Runs PROVE Reads(run[s])'
  <2> SUFFICES ASSUME run'[s].at \in {"loaded", "called"} PROVE Reads(run[s])'
    BY DEF Reads
  <2>1. run'[s] = run[s] /\ Reads(run[s])
    BY <1>2 DEF BatchInv, RunsInOrder
  <2>2. run[s].seen.used \in Nat
    BY BatchConstants DEF BatchInv, BatchShape, RunShape, CaseRows
  <2>3. PICK c : c = run[s].on
    OBVIOUS
  <2>4. /\ Cardinality(RowsOf(c)) <= Cardinality(RowsOf(c)')
        /\ Cardinality(RowsOf(c)) \in Nat /\ Cardinality(RowsOf(c)') \in Nat
    BY RowsGrow
  <2>5. run'[s].on = c /\ run'[s].seen.used = run[s].seen.used
    BY <2>1, <2>3
  <2>6. run[s].seen.used <= Cardinality(RowsOf(c))
    BY <2>1, <2>3 DEF Reads
  <2>7. run'[s].seen.used <= Cardinality(RowsOf(c)')
    BY <2>2, <2>4, <2>5, <2>6
  <2>8. Cardinality(RowsOf(c)') = Cardinality(RowsOf(run[s].on))'
    BY <2>5
  <2> QED
    BY <2>1, <2>2, <2>5, <2>7, <2>8 DEF Reads
<1>5. ASSUME NEW s \in Runs, NEW m \in run'[s].mine PROVE Writes(m)'
  <2>1. m \in run[s].mine /\ Writes(m)
    BY <1>2 DEF BatchInv, RunsInOrder
  <2>2. m.slot \in Nat
    BY <2>1, BatchConstants DEF BatchInv, BatchShape, RunShape, Pending
  <2>3. /\ Cardinality(RowsOf(m.case)) <= Cardinality(RowsOf(m.case)')
        /\ Cardinality(RowsOf(m.case)) \in Nat /\ Cardinality(RowsOf(m.case)') \in Nat
    BY RowsGrow
  <2> QED
    BY <2>1, <2>2, <2>3 DEF Writes
<1>6. \A s, t \in Runs : \A m \in run'[s].mine, n \in run'[t].mine :
        m.case = n.case /\ m.slot = n.slot => s = t
  BY <1>2 DEF BatchInv, RunsInOrder
<1> QED
  BY <1>3, <1>4, <1>5, <1>6 DEF BatchInv, RunsInOrder

\* What a run commits is a row for every count: the key was free, so the case has one
\* row more than the run had read.
LEMMA CommitStep ==
  ASSUME BatchInv, NEW r \in Runs, Commit(r)
  PROVE  BatchInv'
<1> DEFINE mine == run[r].mine
<1>0. /\ run \in [Runs -> RunShape] /\ IsFiniteSet(mine) /\ mine \subseteq Pending
      /\ \A m \in mine : Writes(m) /\ account \in [Cohort -> CaseRows] /\ BatchBudget \in Nat
      /\ IsFiniteSet(rows) /\ rows \subseteq RunKeys
  BY BatchConstants DEF BatchInv, BatchShape, RunsInOrder, RunShape
<1>1. /\ rows' = rows \cup {Key(m.case, m.slot, "batch") : m \in {x \in mine : x.row}}
      /\ run' = [run EXCEPT ![r] = NotRunning] /\ UNCHANGED links
  BY DEF Commit
<1> DEFINE added == {Key(m.case, m.slot, "batch") : m \in mine}
<1>2. rows' = rows \cup added
  BY <1>0, <1>1 DEF Writes
<1>3. added \subseteq RunKeys /\ IsFiniteSet(added)
  <2>1. added \subseteq RunKeys
    BY <1>0 DEF Pending, RunKeys, Key
  <2> DEFINE keyOf == [m \in mine |-> Key(m.case, m.slot, "batch")]
  <2>2. keyOf \in Surjection(mine, added)
    BY DEF Surjection
  <2> QED
    BY <1>0, <2>1, <2>2, FS_Surjection
<1>4. IsFiniteSet(rows') /\ rows \subseteq rows' /\ rows' \subseteq RunKeys
  BY <1>0, <1>2, <1>3, FS_Union
<1>5. ASSUME NEW c \in Cohort
      PROVE  account'[c] \in CaseRows /\ account'[c].used <= Cardinality(RowsOf(c)')
  <2>1. /\ Cardinality(RowsOf(c)) <= Cardinality(RowsOf(c)')
        /\ Cardinality(RowsOf(c)) \in Nat /\ Cardinality(RowsOf(c)') \in Nat
    BY <1>4, RowsGrow
  <2>2. CASE \A m \in mine : m.case # c
    <3>1. account'[c] = account[c]
      BY <2>2 DEF Commit
    <3>2. account[c] \in CaseRows
      BY DEF BatchInv, BatchShape
    <3>3. account[c].used \in Nat
      BY <3>2 DEF CaseRows
    <3>4. account[c].used <= Cardinality(RowsOf(c))
      BY DEF BatchInv, NoSlotWithoutRow
    <3>5. account[c].used <= Cardinality(RowsOf(c)')
      BY <2>1, <3>3, <3>4
    <3> QED
      BY <3>1, <3>2, <3>5
  <2>3. CASE ~\A m \in mine : m.case # c
    <3>1. PICK m \in mine : m.case = c /\
            account'[c] = [used |-> m.slot + 1,
                           state |-> IF m.ends THEN "exhausted" ELSE account[c].state]
      BY <2>3 DEF Commit
    <3>2. /\ m.slot \in 0..(BatchBudget - 1) /\ account[c].state \in {"open", "recovered", "exhausted"}
          /\ m.slot <= Cardinality(RowsOf(c)) /\ Key(c, m.slot, "batch") \in rows' \ rows
      BY <1>0, <1>2, <3>1 DEF Pending, CaseRows, Writes
    <3>3. Key(c, m.slot, "batch").case = c
      BY DEF Key
    <3>4. Cardinality(RowsOf(c)) + 1 <= Cardinality(RowsOf(c)')
      BY <1>4, <3>2, <3>3, OneMoreRow
    <3>5. account'[c].used = m.slot + 1 /\ account'[c] \in CaseRows
      BY <1>0, <3>1, <3>2 DEF CaseRows
    <3> QED
      BY <2>1, <3>2, <3>4, <3>5
  <2> QED
    BY <2>2, <2>3
<1>6. account' \in [Cohort -> CaseRows] /\ NoSlotWithoutRow'
  BY <1>5 DEF Commit, NoSlotWithoutRow
<1>7. NotRunning \in RunShape /\ NotRunning.mine = {}
  BY BatchConstants DEF NotRunning, RunShape, Fresh, CaseRows
<1>8. \A s \in Runs : run'[s] = IF s = r THEN NotRunning ELSE run[s]
  BY <1>0, <1>1
<1>9. ASSUME NEW s \in Runs, NEW m \in run'[s].mine PROVE Key(m.case, m.slot, "batch") \notin rows'
  <2>1. s # r /\ m \in run[s].mine
    BY <1>7, <1>8, <1>9
  <2>2. Key(m.case, m.slot, "batch") \notin rows
    BY <2>1 DEF BatchInv, RunsInOrder, Writes
  <2>3. \A n \in mine : ~(m.case = n.case /\ m.slot = n.slot)
    BY <2>1 DEF BatchInv, RunsInOrder
  <2> QED
    BY <1>2, <2>2, <2>3 DEF Key
<1>a. run' \in [Runs -> RunShape] /\ links' \subseteq RunKeys
  BY <1>0, <1>1, <1>7 DEF BatchInv, BatchShape
<1> QED
  BY <1>4, <1>6, <1>8, <1>9, <1>a, RowsStep

LEMMA EngineStep ==
  ASSUME BatchInv, NEW c \in Cohort, EngineAttempt(c)
  PROVE  BatchInv'
<1> DEFINE key == Key(c, account[c].used, "engine")
<1>0. /\ run \in [Runs -> RunShape] /\ account \in [Cohort -> CaseRows] /\ BatchBudget \in Nat
      /\ IsFiniteSet(rows) /\ rows \subseteq RunKeys /\ links \subseteq RunKeys
      /\ account[c].used < BatchBudget /\ account[c] \in CaseRows
  BY BatchConstants DEF BatchInv, BatchShape, EngineAttempt, Eligible
<1>1. /\ rows' = rows \cup {key} /\ key \notin rows /\ links' = links \cup {key}
      /\ account' = [account EXCEPT ![c].used = @ + 1] /\ UNCHANGED run
  BY DEF EngineAttempt
<1>2. key \in RunKeys /\ key.case = c /\ key.by = "engine"
  BY <1>0 DEF Key, RunKeys, CaseRows
<1> HIDE DEF key
<1>3. IsFiniteSet(rows') /\ rows \subseteq rows' /\ rows' \subseteq RunKeys /\ links' \subseteq RunKeys
  BY <1>0, <1>1, <1>2, FS_AddElement
<1>4. /\ account' = [account EXCEPT ![c] = [account[c] EXCEPT !.used = @ + 1]]
      /\ [account[c] EXCEPT !.used = @ + 1] \in CaseRows
  BY <1>0, <1>1 DEF CaseRows
<1>5. account' \in [Cohort -> CaseRows]
  BY <1>0, <1>4
<1>6. ASSUME NEW d \in Cohort PROVE account'[d].used <= Cardinality(RowsOf(d)')
  <2>1. /\ Cardinality(RowsOf(d)) <= Cardinality(RowsOf(d)')
        /\ Cardinality(RowsOf(d)) \in Nat /\ Cardinality(RowsOf(d)') \in Nat
    BY <1>3, RowsGrow
  <2>2. account[d].used \in Nat /\ account[d].used <= Cardinality(RowsOf(d))
    BY <1>0 DEF CaseRows, BatchInv, NoSlotWithoutRow
  <2>3. CASE d = c
    <3>1. Cardinality(RowsOf(d)) + 1 <= Cardinality(RowsOf(d)')
      BY <1>1, <1>2, <1>3, <2>3, OneMoreRow
    <3>2. account'[d].used = account[d].used + 1
      BY <1>0, <1>4, <2>3 DEF CaseRows
    <3> QED
      BY <2>1, <2>2, <3>1, <3>2
  <2>4. CASE d # c
    <3>1. account'[d] = account[d]
      BY <1>0, <1>4, <2>4
    <3> QED
      BY <2>1, <2>2, <3>1
  <2> QED
    BY <2>3, <2>4
<1>7. NoSlotWithoutRow'
  BY <1>6 DEF NoSlotWithoutRow
<1>8. ASSUME NEW s \in Runs, NEW m \in run'[s].mine PROVE Key(m.case, m.slot, "batch") \notin rows'
  BY <1>1, <1>2, <1>8 DEF BatchInv, RunsInOrder, Writes, Key
<1> QED
  BY <1>0, <1>1, <1>3, <1>5, <1>7, <1>8, RowsStep

LEMMA BatchKept == BatchSpec => []BatchInv
<1>1. BatchInit => BatchInv
  <2> SUFFICES ASSUME BatchInit PROVE BatchInv
    OBVIOUS
  <2>1. IsFiniteSet({}) /\ \A c : RowsOf(c) = {}
    BY FS_EmptySet DEF BatchInit, RowsOf
  <2>2. \A c : Cardinality(RowsOf(c)) = 0
    BY <2>1, FS_EmptySet
  <2>3. NotRunning \in RunShape /\ Fresh \in CaseRows
    BY BatchConstants DEF NotRunning, RunShape, Fresh, CaseRows
  <2>4. BatchShape
    BY <2>1, <2>3 DEF BatchInit, BatchShape, NotRunning
  <2>5. RunsInOrder
    BY DEF BatchInit, RunsInOrder, Reads, NotRunning
  <2> QED
    BY <2>2, <2>4, <2>5 DEF BatchInit, BatchInv, NoSlotWithoutRow, Fresh
<1>2. BatchInv /\ [BatchNext]_batchVars => BatchInv'
  <2> SUFFICES ASSUME BatchInv, [BatchNext]_batchVars PROVE BatchInv'
    OBVIOUS
  <2>1. ASSUME NEW c \in Cohort, AccountCloses(c) PROVE BatchInv'
    <3>1. /\ account \in [Cohort -> CaseRows] /\ account[c] \in CaseRows
          /\ account' = [account EXCEPT ![c] = [account[c] EXCEPT !.state = "recovered"]]
          /\ UNCHANGED <<rows, links, run>>
      BY <2>1 DEF AccountCloses, BatchInv, BatchShape
    <3>2. [account[c] EXCEPT !.state = "recovered"] \in CaseRows
      BY <3>1 DEF CaseRows
    <3>3. account' \in [Cohort -> CaseRows] /\ \A d \in Cohort : account'[d].used = account[d].used
      BY <3>1, <3>2 DEF CaseRows
    <3>4. NoSlotWithoutRow'
      BY <3>1, <3>3 DEF BatchInv, NoSlotWithoutRow, RowsOf
    <3> QED
      BY <3>1, <3>3, <3>4, RowsStep DEF BatchInv, BatchShape, RunsInOrder, Writes
  <2>2. CASE SweepLinks \/ UNCHANGED batchVars
    <3>1. UNCHANGED <<account, rows, run>> /\ links' \subseteq links
      BY <2>2 DEF SweepLinks, batchVars
    <3>2. NoSlotWithoutRow'
      BY <3>1 DEF BatchInv, NoSlotWithoutRow, RowsOf
    <3> QED
      BY <3>1, <3>2, RowsStep DEF BatchInv, BatchShape, RunsInOrder, Writes
  <2> QED
    BY <2>1, <2>2, QuietRunSteps, BookStep, CommitStep, EngineStep DEF BatchNext
<1> QED
  BY <1>1, <1>2, PTL DEF BatchSpec

\* Every reachable state is well typed: in particular no two runs and engine together
\* push a case past its budget.
THEOREM BatchTypeCorrect == BatchSpec => []BatchTypeOK
<1>1. BatchInv => BatchTypeOK
  BY DEF BatchInv, BatchShape, BatchTypeOK, CaseRows, RunKeys, RunShape
<1> QED
  BY <1>1, BatchKept, PTL

\* Every slot of a budget that is spent has its attempt on record, for any runs that
\* overlap on any cases, roll back or die (recovery_batch.execute).
THEOREM SlotsHaveRows == BatchSpec => []NoSlotWithoutRow
<1>1. BatchInv => NoSlotWithoutRow
  BY DEF BatchInv
<1> QED
  BY <1>1, BatchKept, PTL

-----------------------------------------------------------------------------
(* Captures: what holds however the workers overlap                         *)

LEMMA SumOfAmounts ==
  ASSUME NEW S PROVE Sum(Amount, S) = MapThenSumSet(LAMBDA p : Amount[p], S)
  BY DEF Sum, MapThenSumSet

LEMMA CaptureConstants ==
  /\ NoCase \notin Cases /\ NoPayment \notin Payments /\ BankPayments \subseteq Payments
  /\ MaxDeliveries \in Nat /\ AtRisk \in [Cases -> Nat \ {0}] /\ OpenedAt \in [Cases -> Nat]
  /\ Amount \in [Payments -> Int] /\ Ours \in [Payments -> CaseOrNone]
  BY CaptureAssumption

\* What a capture resolves to is a case, and the attempt's own if it has one.
LEMMA Resolves ==
  ASSUME NEW p \in Payments, Resolve(p) # NoCase
  PROVE  Resolve(p) \in Cases /\ (Ours[p] # NoCase => Resolve(p) = Ours[p])
<1>1. CASE Ours[p] # NoCase
  BY <1>1, CaptureConstants DEF Resolve, CaseOrNone
<1>2. CASE Ours[p] = NoCase /\ OpenOf(OrderCases[p]) # {}
  <2> DEFINE S == OpenOf(OrderCases[p])
  <2>1. S \in SUBSET Cases /\ IsFiniteSet(S) /\ S # {}
    <3>1. OrderCases[p] \in SUBSET Cases /\ IsFiniteSet(OrderCases[p])
      BY CaptureAssumption
    <3>2. S \subseteq OrderCases[p]
      BY DEF OpenOf
    <3> HIDE DEF S
    <3>3. IsFiniteSet(S)
      BY <3>1, <3>2, FS_Subset
    <3> QED
      BY <1>2, <3>1, <3>2, <3>3 DEF S
  <2> HIDE DEF S
  <2> DEFINE rank == [c \in S |-> OpenedAt[c]]
  <2>2. rank \in [S -> Int] /\ \A c \in S : rank[c] = OpenedAt[c]
    BY <2>1, CaptureConstants
  <2> HIDE DEF rank
  <2>3. PICK c \in S : \A d \in S : rank[d] <= rank[c]
    BY <2>1, <2>2, GreatestExists
  <2>4. \E e \in S : \A d \in S : OpenedAt[d] <= OpenedAt[e]
    BY <2>2, <2>3
  <2>5. NewestOpen(OrderCases[p]) \in S
    BY <2>4 DEF NewestOpen, S
  <2> QED
    BY <1>2, <2>1, <2>5 DEF Resolve, S
<1>3. CASE Ours[p] = NoCase /\ OpenOf(OrderCases[p]) = {}
  BY <1>3 DEF Resolve, OpenOf
<1> QED
  BY <1>1, <1>2, <1>3

\* A worker on a payment has found its case: the attempt's own, if there is one.
JobsInOrder ==
  \A w \in CaptureWorkers :
    job[w] # NoPayment => /\ found[w] \in Cases /\ Amount[job[w]] > 0
                          /\ Ours[job[w]] # NoCase => found[w] = Ours[job[w]]

CaptureShape == CaptureTypeOK /\ JobsInOrder /\ ClaimIsEarned

LEMMA JobTyped ==
  ASSUME CaptureShape, NEW w \in CaptureWorkers, job[w] # NoPayment
  PROVE  /\ job[w] \in Payments /\ found[w] \in Cases /\ caseCopy[w] \in Copies
         /\ Amount[job[w]] \in Nat /\ Amount[job[w]] > 0
         /\ caseCopy[w].recovered + Amount[job[w]] \in Nat
<1>1. job[w] \in Payments /\ found[w] \in Cases /\ caseCopy[w] \in Copies
  BY DEF CaptureShape, CaptureTypeOK, JobsInOrder
<1>2. Amount[job[w]] \in Int /\ Amount[job[w]] > 0
  BY <1>1, CaptureConstants DEF CaptureShape, JobsInOrder
<1> QED
  BY <1>1, <1>2 DEF Copies

LEMMA DoneIsTyped ==
  ASSUME CaptureShape, NEW w \in CaptureWorkers, Done(w)
  PROVE  /\ job' \in [CaptureWorkers -> Payments \cup {NoPayment}]
         /\ found' \in [CaptureWorkers -> CaseOrNone]
         /\ caseCopy' \in [CaptureWorkers -> Copies] /\ JobsInOrder'
         /\ job'[w] = NoPayment
<1>1. NoCopy \in Copies
  BY DEF NoCopy, Copies, States
<1>2. /\ job' \in [CaptureWorkers -> Payments \cup {NoPayment}]
      /\ found' \in [CaptureWorkers -> CaseOrNone]
      /\ caseCopy' \in [CaptureWorkers -> Copies]
  BY <1>1 DEF CaptureShape, CaptureTypeOK, Done, CaseOrNone
<1>3. \A v \in CaptureWorkers :
        IF v = w THEN job'[v] = NoPayment ELSE job'[v] = job[v] /\ found'[v] = found[v]
  BY DEF CaptureShape, CaptureTypeOK, Done
<1> QED
  BY <1>2, <1>3 DEF CaptureShape, JobsInOrder

LEMMA LoadKeeps ==
  ASSUME CaptureShape, NEW w \in CaptureWorkers, NEW p \in Payments, Load(w, p) PROVE CaptureShape'
<1>1. /\ UNCHANGED <<caseVars, trailVars>> /\ delivered' = [delivered EXCEPT ![p] = @ + 1]
      /\ job' = [job EXCEPT ![w] = p] /\ found' = [found EXCEPT ![w] = Resolve(p)]
      /\ caseCopy' = [caseCopy EXCEPT ![w] = CaseRow(Resolve(p))]
      /\ delivered[p] < MaxDeliveries /\ Amount[p] > 0 /\ Resolve(p) # NoCase
  BY DEF Load, ValidAmount
<1>2. Resolve(p) \in Cases /\ (Ours[p] # NoCase => Resolve(p) = Ours[p])
  BY <1>1, Resolves
<1>3. CaseRow(Resolve(p)) \in Copies
  <2> DEFINE c == Resolve(p)
  <2>1. c \in Cases
    BY <1>2
  <2> HIDE DEF c
  <2>2. CaseRow(c) \in Copies
    BY <2>1 DEF CaptureShape, CaptureTypeOK, CaseRow, Copies
  <2> QED
    BY <2>2 DEF c
<1>4. delivered' \in [Payments -> 0 .. MaxDeliveries]
  BY <1>1, CaptureConstants DEF CaptureShape, CaptureTypeOK
<1>5. CaptureTypeOK'
  <2>1. /\ job' \in [CaptureWorkers -> Payments \cup {NoPayment}]
        /\ found' \in [CaptureWorkers -> CaseOrNone] /\ caseCopy' \in [CaptureWorkers -> Copies]
    BY <1>1, <1>2, <1>3 DEF CaptureShape, CaptureTypeOK, CaseOrNone
  <2> QED
    BY <1>1, <1>4, <2>1 DEF CaptureShape, CaptureTypeOK, caseVars, trailVars
<1>6. JobsInOrder'
  BY <1>1, <1>2 DEF CaptureShape, CaptureTypeOK, JobsInOrder
<1>7. ClaimIsEarned'
  BY <1>1 DEF CaptureShape, ClaimIsEarned, caseVars, trailVars
<1> QED
  BY <1>5, <1>6, <1>7 DEF CaptureShape

LEMMA CreditKeeps ==
  ASSUME CaptureShape, NEW w \in CaptureWorkers, Credit(w) PROVE CaptureShape'
<1> DEFINE p == job[w]
           c == found[w]
           total == caseCopy[w].recovered + Amount[p]
           named == caseCopy[w].refs \cup {p}
<1>0. job[w] # NoPayment
  BY CaptureConstants DEF Credit
<1>1. /\ p \in Payments /\ c \in Cases /\ total \in Nat /\ named \subseteq Payments
  BY <1>0, JobTyped DEF Copies
<1>2. PICK claims \in BOOLEAN :
        /\ claims => Ours[p] # NoCase
        /\ ours' = [ours EXCEPT ![c] = @ \/ claims]
  BY DEF Credit, EarnedByUs
<1>3. /\ recovered' = [recovered EXCEPT ![c] = total] /\ lastRef' = [lastRef EXCEPT ![c] = p]
      /\ refs' = [refs EXCEPT ![c] = named]
      /\ state' \in {[state EXCEPT ![c] = "recovered"], state}
      /\ credited' = [credited EXCEPT ![c] = @ \cup {p}]
      /\ Done(w) /\ UNCHANGED <<overpaid, delivered>>
  BY DEF Credit
<1>4. claims => Ours[p] = c
  BY <1>0, <1>2 DEF CaptureShape, JobsInOrder
<1> HIDE DEF p, c, total, named
<1>5. CaptureTypeOK'
  <2>1. /\ recovered' \in [Cases -> Nat] /\ lastRef' \in [Cases -> Payments \cup {NoPayment}]
        /\ refs' \in [Cases -> SUBSET Payments] /\ credited' \in [Cases -> SUBSET Payments]
        /\ state' \in [Cases -> States] /\ ours' \in [Cases -> BOOLEAN]
    BY <1>1, <1>2, <1>3 DEF CaptureShape, CaptureTypeOK, States
  <2> QED
    BY <1>3, <2>1, DoneIsTyped DEF CaptureShape, CaptureTypeOK
<1>6. ClaimIsEarned'
  <2> SUFFICES ASSUME NEW d \in Cases, ours'[d] PROVE \E q \in credited'[d] : Ours[q] = d
    BY DEF ClaimIsEarned
  <2>1. credited[d] \subseteq credited'[d] /\ (d = c => p \in credited'[d])
    BY <1>1, <1>3 DEF CaptureShape, CaptureTypeOK
  <2>2. CASE ours[d]
    BY <2>1, <2>2 DEF CaptureShape, ClaimIsEarned
  <2>3. CASE ~ours[d]
    <3>1. d = c /\ claims
      BY <1>1, <1>2, <2>3 DEF CaptureShape, CaptureTypeOK
    <3> QED
      BY <1>4, <2>1, <3>1
  <2> QED
    BY <2>2, <2>3
<1> QED
  BY <1>3, <1>5, <1>6, DoneIsTyped DEF CaptureShape

LEMMA ExternalKeeps ==
  ASSUME CaptureShape, NEW w \in CaptureWorkers, RecordExternal(w) PROVE CaptureShape'
<1> DEFINE p == job[w]
           c == found[w]
           total == caseCopy[w].recovered + Amount[p]
           claimed == caseCopy[w].ours
<1>0. job[w] # NoPayment
  BY CaptureConstants DEF RecordExternal
<1>1. /\ p \in Payments /\ c \in Cases /\ total \in Nat /\ claimed \in BOOLEAN
  BY <1>0, JobTyped DEF Copies
<1>2. /\ recovered' = [recovered EXCEPT ![c] = total] /\ lastRef' = [lastRef EXCEPT ![c] = p]
      /\ ours' = [ours EXCEPT ![c] = @ /\ ~claimed]
      /\ state' = [state EXCEPT ![c] = "recovered"]
      /\ credited' = [credited EXCEPT ![c] = @ \cup {p}]
      /\ Done(w) /\ UNCHANGED <<refs, overpaid, delivered>>
  BY DEF RecordExternal
<1> HIDE DEF p, c, total, claimed
<1>3. CaptureTypeOK'
  <2>1. /\ recovered' \in [Cases -> Nat] /\ lastRef' \in [Cases -> Payments \cup {NoPayment}]
        /\ credited' \in [Cases -> SUBSET Payments]
        /\ state' \in [Cases -> States] /\ ours' \in [Cases -> BOOLEAN]
    BY <1>1, <1>2 DEF CaptureShape, CaptureTypeOK, States
  <2> QED
    BY <1>2, <2>1, DoneIsTyped DEF CaptureShape, CaptureTypeOK
<1>4. ClaimIsEarned'
  <2> SUFFICES ASSUME NEW d \in Cases, ours'[d] PROVE \E q \in credited'[d] : Ours[q] = d
    BY DEF ClaimIsEarned
  <2>1. credited[d] \subseteq credited'[d] /\ ours[d]
    BY <1>1, <1>2 DEF CaptureShape, CaptureTypeOK
  <2> QED
    BY <2>1 DEF CaptureShape, ClaimIsEarned
<1> QED
  BY <1>2, <1>3, <1>4, DoneIsTyped DEF CaptureShape

LEMMA CaptureStep == ASSUME CaptureShape, [CaptureNext]_captureVars PROVE CaptureShape'
<1>1. CASE UNCHANGED captureVars
  BY <1>1 DEF captureVars, caseVars, trailVars, workVars, CaptureShape, CaptureTypeOK, JobsInOrder,
     ClaimIsEarned
<1>2. ASSUME NEW w \in CaptureWorkers, NEW p \in Payments, Load(w, p) \/ Dismiss(w, p)
      PROVE  CaptureShape'
  <2>1. CASE Dismiss(w, p)
    <3>1. /\ delivered' \in [Payments -> 0 .. MaxDeliveries]
          /\ UNCHANGED <<caseVars, trailVars, workVars>>
      BY <2>1, CaptureConstants DEF Dismiss, CaptureShape, CaptureTypeOK
    <3> QED
      BY <3>1 DEF caseVars, trailVars, workVars, CaptureShape, CaptureTypeOK, JobsInOrder,
         ClaimIsEarned
  <2> QED
    BY <1>2, <2>1, LoadKeeps
<1>3. ASSUME NEW w \in CaptureWorkers, Attribute(w) \/ External(w) PROVE CaptureShape'
  <2>1. CASE RefuseReplay(w) \/ RefuseExternal(w)
    <3>1. UNCHANGED <<caseVars, trailVars, delivered>> /\ Done(w)
      BY <2>1 DEF RefuseReplay, RefuseExternal
    <3> QED
      BY <3>1, DoneIsTyped DEF caseVars, trailVars, CaptureShape, CaptureTypeOK, ClaimIsEarned
  <2>2. CASE LogOverpayment(w)
    <3>1. /\ UNCHANGED <<caseVars, credited, delivered>> /\ Done(w)
          /\ overpaid' = [overpaid EXCEPT ![found[w]][job[w]] = @ + 1]
      BY <2>2 DEF LogOverpayment
    <3>2. overpaid' \in [Cases -> [Payments -> Nat]]
      <4> DEFINE c == found[w]
                 logged == [overpaid[c] EXCEPT ![job[w]] = @ + 1]
      <4>1. job[w] # NoPayment
        BY <2>2, CaptureConstants DEF LogOverpayment
      <4>2. c \in Cases /\ overpaid[c] \in [Payments -> Nat] /\ job[w] \in Payments
        BY <4>1, JobTyped DEF CaptureShape, CaptureTypeOK
      <4>3. logged \in [Payments -> Nat]
        <5>1. overpaid[c][job[w]] + 1 \in Nat
          BY <4>2
        <5> QED
          BY <4>2, <5>1
      <4>4. overpaid' = [overpaid EXCEPT ![c] = logged]
        BY <3>1
      <4> HIDE DEF c, logged
      <4> QED
        BY <4>2, <4>3, <4>4 DEF CaptureShape, CaptureTypeOK
    <3> QED
      BY <3>1, <3>2, DoneIsTyped DEF caseVars, CaptureShape, CaptureTypeOK, ClaimIsEarned
  <2> QED
    BY <1>3, <2>1, <2>2, CreditKeeps, ExternalKeeps DEF Attribute, External
<1>4. ASSUME NEW c \in Cases, CloseOtherwise(c) PROVE CaptureShape'
  <2>1. state' \in [Cases -> States]
    BY <1>4 DEF CloseOtherwise, CaptureShape, CaptureTypeOK, States
  <2> QED
    BY <1>4, <2>1 DEF CloseOtherwise, trailVars, workVars, CaptureShape, CaptureTypeOK, JobsInOrder,
       ClaimIsEarned
<1> QED
  BY <1>1, <1>2, <1>3, <1>4 DEF CaptureNext

LEMMA CaptureKept == CaptureSpec => []CaptureShape
<1>1. CaptureInit => CaptureShape
  BY CaptureConstants DEF CaptureInit, CaptureShape, CaptureTypeOK, JobsInOrder, ClaimIsEarned,
     States, CaseOrNone, Copies, NoCopy
<1>2. CaptureShape /\ [CaptureNext]_captureVars => CaptureShape'
  BY CaptureStep
<1> QED
  BY <1>1, <1>2, PTL DEF CaptureSpec

\* The books and the workers' copies hold values of their types.
THEOREM CaptureTypeCorrect == CaptureSpec => []CaptureTypeOK
<1>1. CaptureShape => CaptureTypeOK
  BY DEF CaptureShape
<1> QED
  BY <1>1, CaptureKept, PTL

\* However many workers credit money at the same time, the engine claims a case only when
\* an attempt of its own led to some of the money (ClaimIsEarned).
THEOREM ClaimsAreEarned == CaptureSpec => []ClaimIsEarned
<1>1. CaptureShape => ClaimIsEarned
  BY DEF CaptureShape
<1> QED
  BY <1>1, CaptureKept, PTL

-----------------------------------------------------------------------------
(* Captures: one worker at a time                                           *)

LoneWorker == \A v, w \in CaptureWorkers : v = w

\* The row of a case and its trail. Bank references do not join credited_refs, but
\* the first of them ends the case.
Booked(c) ==
  /\ IsFiniteSet(credited[c]) /\ credited[c] \subseteq refs[c] \cup BankPayments
  /\ credited[c] \cap BankPayments # {} => state[c] = "recovered"
  /\ recovered[c] = Sum(Amount, credited[c])
  /\ state[c] = "recovered" => recovered[c] >= AtRisk[c] \/ credited[c] \cap BankPayments # {}
  /\ \A p \in Payments : overpaid[c][p] > 0 => state[c] # "open" /\ p \notin credited[c]

\* The worker's copy is the row, but for the end of the case it did not see; while it
\* says open nothing was overpaid and no bank payment credited.
CopyIsRow(w) ==
  LET c == found[w]
  IN /\ caseCopy[w].recovered = recovered[c] /\ caseCopy[w].refs = refs[c]
     /\ caseCopy[w].lastRef = lastRef[c]
     /\ caseCopy[w].state = state[c] \/ (caseCopy[w].state = "open" /\ state[c] = "closed")
     /\ caseCopy[w].state = "open" =>
          credited[c] \cap BankPayments = {} /\ \A p \in Payments : ~(overpaid[c][p] > 0)

BooksInv ==
  /\ CaptureShape /\ \A c \in Cases : Booked(c)
  /\ \A w \in CaptureWorkers : job[w] # NoPayment => CopyIsRow(w)

\* One more payment on the trail.
LEMMA OneMoreCredit ==
  ASSUME NEW S \in SUBSET Payments, IsFiniteSet(S), NEW p \in Payments, p \notin S
  PROVE  IsFiniteSet(S \cup {p}) /\ Sum(Amount, S \cup {p}) = Sum(Amount, S) + Amount[p]
<1>1. IsFiniteSet(S \cup {p})
  BY FS_AddElement
<1>2. Amount \in [Payments -> Int]
  BY CaptureConstants
<1> QED
  BY <1>1, <1>2, SumAdds

\* Nobody else is at work when the worker is done.
LEMMA DoneLeavesNobody ==
  ASSUME LoneWorker, CaptureShape, NEW w \in CaptureWorkers, Done(w)
  PROVE  \A v \in CaptureWorkers : job'[v] = NoPayment
<1>1. job'[w] = NoPayment
  BY DoneIsTyped
<1> QED
  BY <1>1 DEF LoneWorker

\* What a step leaves alone stays booked.
LEMMA UntouchedBooked ==
  ASSUME NEW c \in Cases, Booked(c), state'[c] = state[c], recovered'[c] = recovered[c],
         refs'[c] = refs[c], credited'[c] = credited[c], overpaid'[c] = overpaid[c]
  PROVE  Booked(c)'
  BY DEF Booked

LEMMA LoadBooks ==
  ASSUME LoneWorker, BooksInv, NEW w \in CaptureWorkers, NEW p \in Payments, Load(w, p)
  PROVE  BooksInv'
<1>0. CaptureShape /\ CaptureShape'
  BY LoadKeeps DEF BooksInv
<1>1. /\ UNCHANGED <<caseVars, trailVars>> /\ Resolve(p) # NoCase
      /\ job' = [job EXCEPT ![w] = p] /\ found' = [found EXCEPT ![w] = Resolve(p)]
      /\ caseCopy' = [caseCopy EXCEPT ![w] = CaseRow(Resolve(p))]
  BY DEF Load
<1>2. \A c \in Cases : Booked(c)'
  BY <1>1, UntouchedBooked DEF BooksInv, caseVars, trailVars
<1>3. PICK c \in Cases : c = Resolve(p) /\ found'[w] = c /\ caseCopy'[w] = CaseRow(c)
  BY <1>0, <1>1, Resolves DEF CaptureShape, CaptureTypeOK
<1>4. state[c] = "open" =>
        credited[c] \cap BankPayments = {} /\ \A q \in Payments : ~(overpaid[c][q] > 0)
  BY <1>3 DEF BooksInv, Booked
<1>5. CopyIsRow(w)'
  BY <1>1, <1>3, <1>4 DEF CopyIsRow, CaseRow, caseVars, trailVars
<1>6. \A v \in CaptureWorkers : v = w
  BY DEF LoneWorker
<1> QED
  BY <1>0, <1>2, <1>5, <1>6 DEF BooksInv

\* A payment that is credited: the trail, the sum and the references grow together.
LEMMA CreditBooks ==
  ASSUME LoneWorker, BooksInv, NEW w \in CaptureWorkers, Credit(w) PROVE BooksInv'
<1>0. CaptureShape /\ CaptureShape' /\ job[w] # NoPayment
  BY CreditKeeps, CaptureConstants DEF BooksInv, Credit
<1>p. PICK p \in Payments, c \in Cases : p = job[w] /\ c = found[w]
  BY <1>0, JobTyped
<1> DEFINE total == caseCopy[w].recovered + Amount[p]
           named == caseCopy[w].refs \cup {p}
<1>1. /\ recovered' = [recovered EXCEPT ![c] = total]
      /\ refs' = [refs EXCEPT ![c] = named]
      /\ state' = IF Settles(c, total) THEN [state EXCEPT ![c] = "recovered"] ELSE state
      /\ credited' = [credited EXCEPT ![c] = @ \cup {p}]
      /\ Done(w) /\ overpaid' = overpaid
      /\ p \in Payments \ BankPayments /\ ~SeenBefore(w) /\ caseCopy[w].state = "open"
  BY <1>p DEF Credit
<1>2. /\ c \in Cases /\ total \in Nat /\ Amount[p] \in Nat
  BY <1>0, <1>p, JobTyped
<1>3. /\ caseCopy[w].recovered = recovered[c] /\ caseCopy[w].refs = refs[c]
      /\ state[c] \in {"open", "closed"} /\ credited[c] \cap BankPayments = {}
      /\ \A q \in Payments : ~(overpaid[c][q] > 0)
  BY <1>0, <1>1, <1>p DEF BooksInv, CopyIsRow
<1>4. /\ Booked(c) /\ credited[c] \subseteq Payments /\ p \notin credited[c]
      /\ recovered[c] \in Nat
  <2>1. Booked(c) /\ credited[c] \subseteq Payments /\ recovered[c] \in Nat
    BY <1>0, <1>2 DEF BooksInv, CaptureShape, CaptureTypeOK
  <2>2. p \notin refs[c]
    BY <1>1, <1>3, <1>p DEF SeenBefore
  <2> QED
    BY <1>1, <2>1, <2>2 DEF Booked
<1>5. IsFiniteSet(credited[c] \cup {p}) /\ Sum(Amount, credited[c] \cup {p}) = total
  <2> DEFINE S == credited[c]
  <2>1. S \subseteq Payments /\ IsFiniteSet(S) /\ p \in Payments /\ p \notin S
    BY <1>1, <1>4 DEF Booked
  <2>2. recovered[c] = Sum(Amount, S) /\ Amount[p] \in Int
    BY <1>2, <1>4 DEF Booked
  <2> HIDE DEF S
  <2>3. IsFiniteSet(S \cup {p}) /\ Sum(Amount, S \cup {p}) = Sum(Amount, S) + Amount[p]
    BY <2>1, OneMoreCredit
  <2> QED
    BY <1>3, <2>2, <2>3 DEF S
<1>6. /\ recovered'[c] = total /\ refs'[c] = refs[c] \cup {p}
      /\ credited'[c] = credited[c] \cup {p} /\ overpaid'[c] = overpaid[c]
      /\ state'[c] = IF total >= AtRisk[c] THEN "recovered" ELSE state[c]
  BY <1>0, <1>1, <1>2, <1>3 DEF CaptureShape, CaptureTypeOK, Settles
<1>7. \A d \in Cases \ {c} :
        /\ recovered'[d] = recovered[d] /\ refs'[d] = refs[d] /\ credited'[d] = credited[d]
        /\ overpaid'[d] = overpaid[d] /\ state'[d] = state[d]
  BY <1>0, <1>1 DEF CaptureShape, CaptureTypeOK
<1> HIDE DEF total, named
<1>8. Booked(c)'
  <2>1. /\ IsFiniteSet(credited'[c]) /\ credited'[c] \subseteq refs'[c] \cup BankPayments
        /\ credited'[c] \cap BankPayments = {} /\ recovered'[c] = Sum(Amount, credited'[c])
    BY <1>1, <1>3, <1>4, <1>5, <1>6 DEF Booked
  <2>2. state'[c] = "recovered" => recovered'[c] >= AtRisk[c]
    BY <1>3, <1>6
  <2>3. \A q \in Payments : ~(overpaid'[c][q] > 0)
    BY <1>3, <1>6
  <2> QED
    BY <2>1, <2>2, <2>3 DEF Booked
<1>9. \A d \in Cases : Booked(d)'
  BY <1>7, <1>8, UntouchedBooked DEF BooksInv
<1> QED
  BY <1>0, <1>1, <1>9, DoneLeavesNobody DEF BooksInv

LEMMA ExternalBooks ==
  ASSUME LoneWorker, BooksInv, NEW w \in CaptureWorkers, RecordExternal(w) PROVE BooksInv'
<1>0. CaptureShape /\ CaptureShape' /\ job[w] # NoPayment
  BY ExternalKeeps, CaptureConstants DEF BooksInv, RecordExternal
<1>p. PICK p \in Payments, c \in Cases : p = job[w] /\ c = found[w]
  BY <1>0, JobTyped
<1> DEFINE total == caseCopy[w].recovered + Amount[p]
<1>1. /\ recovered' = [recovered EXCEPT ![c] = total]
      /\ state' = [state EXCEPT ![c] = "recovered"]
      /\ credited' = [credited EXCEPT ![c] = @ \cup {p}]
      /\ Done(w) /\ overpaid' = overpaid /\ refs' = refs
      /\ p \in BankPayments /\ p \in Payments /\ caseCopy[w].state = "open"
  BY <1>p, CaptureConstants DEF RecordExternal
<1>2. /\ c \in Cases /\ total \in Nat /\ Amount[p] \in Nat
  BY <1>0, <1>p, JobTyped
<1>3. /\ caseCopy[w].recovered = recovered[c] /\ credited[c] \cap BankPayments = {}
      /\ \A q \in Payments : ~(overpaid[c][q] > 0)
  BY <1>0, <1>1, <1>p DEF BooksInv, CopyIsRow
<1>4. /\ Booked(c) /\ credited[c] \subseteq Payments /\ p \notin credited[c]
      /\ recovered[c] \in Nat
  BY <1>0, <1>1, <1>2, <1>3 DEF BooksInv, CaptureShape, CaptureTypeOK
<1>5. IsFiniteSet(credited[c] \cup {p}) /\ Sum(Amount, credited[c] \cup {p}) = total
  <2> DEFINE S == credited[c]
  <2>1. S \subseteq Payments /\ IsFiniteSet(S) /\ p \in Payments /\ p \notin S
    BY <1>1, <1>4 DEF Booked
  <2>2. recovered[c] = Sum(Amount, S) /\ Amount[p] \in Int
    BY <1>2, <1>4 DEF Booked
  <2> HIDE DEF S
  <2>3. IsFiniteSet(S \cup {p}) /\ Sum(Amount, S \cup {p}) = Sum(Amount, S) + Amount[p]
    BY <2>1, OneMoreCredit
  <2> QED
    BY <1>3, <2>2, <2>3 DEF S
<1>6. /\ recovered'[c] = total /\ refs'[c] = refs[c]
      /\ credited'[c] = credited[c] \cup {p} /\ overpaid'[c] = overpaid[c]
      /\ state'[c] = "recovered"
  BY <1>0, <1>1, <1>2 DEF CaptureShape, CaptureTypeOK
<1>7. \A d \in Cases \ {c} :
        /\ recovered'[d] = recovered[d] /\ refs'[d] = refs[d] /\ credited'[d] = credited[d]
        /\ overpaid'[d] = overpaid[d] /\ state'[d] = state[d]
  BY <1>0, <1>1 DEF CaptureShape, CaptureTypeOK
<1> HIDE DEF total
<1>8. Booked(c)'
  <2>1. /\ IsFiniteSet(credited'[c]) /\ credited'[c] \subseteq refs'[c] \cup BankPayments
        /\ credited'[c] \cap BankPayments # {} /\ recovered'[c] = Sum(Amount, credited'[c])
    BY <1>1, <1>4, <1>5, <1>6 DEF Booked
  <2>2. \A q \in Payments : ~(overpaid'[c][q] > 0)
    BY <1>3, <1>6
  <2> QED
    BY <1>6, <2>1, <2>2 DEF Booked
<1>9. \A d \in Cases : Booked(d)'
  BY <1>7, <1>8, UntouchedBooked DEF BooksInv
<1> QED
  BY <1>0, <1>1, <1>9, DoneLeavesNobody DEF BooksInv

LEMMA OverpaymentBooks ==
  ASSUME LoneWorker, BooksInv, NEW w \in CaptureWorkers, LogOverpayment(w) PROVE BooksInv'
<1>0. CaptureShape /\ job[w] # NoPayment /\ CaptureShape'
  <2>1. [CaptureNext]_captureVars
    BY DEF CaptureNext, Attribute
  <2> QED
    BY <2>1, CaptureStep, CaptureConstants DEF BooksInv, LogOverpayment
<1>p. PICK p \in Payments, c \in Cases : p = job[w] /\ c = found[w]
  BY <1>0, JobTyped
<1>1. /\ UNCHANGED <<state, recovered, refs, lastRef, ours, credited>> /\ Done(w)
      /\ overpaid' = [overpaid EXCEPT ![c][p] = @ + 1]
      /\ p \in Payments \ BankPayments /\ ~SeenBefore(w) /\ caseCopy[w].state # "open"
  BY <1>p DEF LogOverpayment, caseVars
<1>2. c \in Cases /\ Booked(c) /\ state[c] # "open" /\ p \notin refs[c]
  BY <1>0, <1>1, <1>p, JobTyped DEF BooksInv, CopyIsRow, SeenBefore
<1>3. p \notin credited[c]
  BY <1>1, <1>2 DEF Booked
<1>4. /\ \A d \in Cases \ {c} : overpaid'[d] = overpaid[d]
      /\ \A q \in Payments \ {p} : overpaid'[c][q] = overpaid[c][q]
  BY <1>0, <1>1, <1>2 DEF CaptureShape, CaptureTypeOK
<1>5. Booked(c)'
  <2>1. \A q \in Payments : overpaid'[c][q] > 0 => state[c] # "open" /\ q \notin credited[c]
    BY <1>2, <1>3, <1>4 DEF Booked
  <2> QED
    BY <1>1, <1>2, <2>1 DEF Booked
<1>6. \A d \in Cases : Booked(d)'
  BY <1>1, <1>4, <1>5, UntouchedBooked DEF BooksInv
<1> QED
  BY <1>0, <1>1, <1>6, DoneLeavesNobody DEF BooksInv

LEMMA BooksStep ==
  ASSUME LoneWorker, BooksInv, [CaptureNext]_captureVars PROVE BooksInv'
<1>0. CaptureShape /\ CaptureShape'
  BY CaptureStep DEF BooksInv
<1>1. CASE UNCHANGED captureVars
  <2>1. /\ UNCHANGED <<state, recovered, refs, lastRef, ours, credited, overpaid, job, found,
                       caseCopy>>
    BY <1>1 DEF captureVars, caseVars, trailVars, workVars
  <2>2. \A c \in Cases : Booked(c)'
    BY <2>1, UntouchedBooked DEF BooksInv
  <2> QED
    BY <1>0, <2>1, <2>2 DEF BooksInv, CopyIsRow
<1>2. ASSUME NEW w \in CaptureWorkers, NEW p \in Payments, Load(w, p) \/ Dismiss(w, p)
      PROVE  BooksInv'
  <2>1. CASE Dismiss(w, p)
    <3>1. UNCHANGED <<state, recovered, refs, lastRef, ours, credited, overpaid, job, found,
                      caseCopy>>
      BY <2>1 DEF Dismiss, caseVars, trailVars, workVars
    <3>2. \A c \in Cases : Booked(c)'
      BY <3>1, UntouchedBooked DEF BooksInv
    <3> QED
      BY <1>0, <3>1, <3>2 DEF BooksInv, CopyIsRow
  <2> QED
    BY <1>2, <2>1, LoadBooks
<1>3. ASSUME NEW w \in CaptureWorkers, Attribute(w) \/ External(w) PROVE BooksInv'
  <2>1. CASE RefuseReplay(w) \/ RefuseExternal(w)
    <3>1. UNCHANGED <<state, recovered, refs, lastRef, ours, credited, overpaid>> /\ Done(w)
      BY <2>1 DEF RefuseReplay, RefuseExternal, caseVars, trailVars
    <3>2. \A c \in Cases : Booked(c)'
      BY <3>1, UntouchedBooked DEF BooksInv
    <3> QED
      BY <1>0, <3>1, <3>2, DoneLeavesNobody DEF BooksInv
  <2> QED
    BY <1>3, <2>1, OverpaymentBooks, CreditBooks, ExternalBooks DEF Attribute, External
<1>4. ASSUME NEW c \in Cases, CloseOtherwise(c) PROVE BooksInv'
  <2>1. /\ UNCHANGED <<recovered, refs, lastRef, ours, credited, overpaid, job, found, caseCopy>>
        /\ state[c] = "open" /\ state'[c] = "closed"
        /\ \A d \in Cases \ {c} : state'[d] = state[d]
    BY <1>0, <1>4 DEF CloseOtherwise, trailVars, workVars, CaptureShape, CaptureTypeOK
  <2>2. Booked(c)'
    BY <2>1 DEF BooksInv, Booked
  <2>3. \A d \in Cases : Booked(d)'
    BY <2>1, <2>2, UntouchedBooked DEF BooksInv
  <2>4. ASSUME NEW w \in CaptureWorkers, job'[w] # NoPayment PROVE CopyIsRow(w)'
    <3>1. CopyIsRow(w) /\ found[w] \in Cases
      BY <1>0, <2>1, <2>4, JobTyped DEF BooksInv
    <3> QED
      BY <2>1, <3>1 DEF CopyIsRow
  <2> QED
    BY <1>0, <2>3, <2>4 DEF BooksInv
<1> QED
  BY <1>1, <1>2, <1>3, <1>4 DEF CaptureNext

\* Where no two workers credit money at the same time, for any cases, payments, amounts and
\* deliveries: the amount on a case is the sum of the payments on its trail, a case that
\* ended as recovered is paid, a claim is earned and a refund due (BooksInOrder). Two
\* workers break it: nothing locks the case between the read and the write.
THEOREM BooksKept == ASSUME LoneWorker PROVE CaptureSpec => []BooksInOrder
<1>1. CaptureInit => BooksInv
  <2> SUFFICES ASSUME CaptureInit PROVE BooksInv
    OBVIOUS
  <2>1. CaptureShape
    BY CaptureConstants DEF CaptureInit, CaptureShape, CaptureTypeOK, JobsInOrder, ClaimIsEarned,
       States, CaseOrNone, Copies, NoCopy
  <2>2. ASSUME NEW c \in Cases PROVE Booked(c)
    <3>1. /\ state[c] = "open" /\ recovered[c] = 0 /\ credited[c] = {}
          /\ \A p \in Payments : overpaid[c][p] = 0
      BY DEF CaptureInit
    <3>2. IsFiniteSet({})
      BY FS_EmptySet
    <3>3. Sum(Amount, {}) = 0
      BY EmptySum
    <3> QED
      BY <3>1, <3>2, <3>3 DEF Booked
  <2> QED
    BY <2>1, <2>2 DEF BooksInv, CaptureInit
<1>2. BooksInv /\ [CaptureNext]_captureVars => BooksInv'
  BY BooksStep
<1>3. BooksInv => BooksInOrder
  BY SumOfAmounts DEF BooksInv, Booked, CaptureShape, BooksInOrder, BooksMatchTrail, RecoveredMeansPaid,
     RefundsAreDue
<1> QED
  BY <1>1, <1>2, <1>3, PTL DEF CaptureSpec

-----------------------------------------------------------------------------
(* The seven parts side by side                                             *)

\* Each step of the composition is one of its part, and leaves the six others alone.
LEMMA PartSteps ==
  [Next]_officeVars =>
    /\ [DeskNext]_deskVars /\ [CaptureNext]_captureVars /\ [TallyNext]_tallyVars
    /\ [RulesNext]_rulesVars /\ [PolicyNext]_policyVars /\ [BatchNext]_batchVars
    /\ [PagesNext]_pagesVars
<1>1. CASE UNCHANGED officeVars
  BY <1>1 DEF officeVars
<1>2. CASE Next
  BY <1>2 DEF Next
<1> QED
  BY <1>1, <1>2

\* A behaviour of the seven is a behaviour of each: what is proved of a part holds of it there.
THEOREM EachOfficeIsItself ==
  Spec => /\ DeskSpec /\ CaptureSpec /\ TallySpec /\ RulesSpec /\ PolicySpec /\ BatchSpec
          /\ PagesSpec
<1>1. Init => /\ DeskInit /\ CaptureInit /\ TallyInit /\ RulesInit /\ PolicyInit /\ BatchInit
              /\ PagesInit
  BY DEF Init
<1> QED
  BY <1>1, PartSteps, PTL
     DEF Spec, DeskSpec, CaptureSpec, TallySpec, RulesSpec, PolicySpec, BatchSpec, PagesSpec

\* The types of all seven.
THEOREM OfficeTypeCorrect == Spec => []OfficeTypeOK
<1>1. DeskTypeOK /\ CaptureTypeOK /\ TallyTypeOK /\ RulesTypeOK /\ PolicyTypeOK /\ BatchTypeOK
        /\ PagesTypeOK => OfficeTypeOK
  BY DEF OfficeTypeOK
<1> QED
  BY <1>1, EachOfficeIsItself, DeskTypeCorrect, CaptureTypeCorrect, TallyTypeCorrect,
     RulesTypeCorrect, PolicyTypeCorrect, BatchTypeCorrect, PagesTypeCorrect, PTL

=============================================================================
