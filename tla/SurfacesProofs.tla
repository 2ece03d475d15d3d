---------------------------- MODULE SurfacesProofs ----------------------------
(****************************************************************************)
(* Proofs about the five surfaces: no queued call is dialled twice          *)
(* (VoiceLine), what a client gets through the front door is bounded        *)
(* (FrontDoor), as is what an address may guess (SignIn), the outbox keeps  *)
(* its shape (AlertOutbox), and no epoch is anchored over a rewritten row   *)
(* (AuditTrail); then the joint specification, each step of which is a step *)
(* of one of them. All hold for any numbers of calls, workers, guessers,    *)
(* couriers and events; one scheduler is assumed where boundaries must not  *)
(* meet.                                                                    *)
(****************************************************************************)
EXTENDS MCSurfaces, FiniteLemmas

LEMMA VoiceConstants ==
  /\ Calls \subseteq Nat \ {0} /\ MaxTurns \in Nat \ {0} /\ MaxAbstains \in Nat \ {0}
  /\ MaxRestarts \in Nat /\ MaxLost \in Nat /\ NoCall \notin Calls
  BY VoiceAssumption DEF NoCall

-----------------------------------------------------------------------------
(* The invariant                                                            *)

Entry == [known : BOOLEAN, bound : BOOLEAN, nudged : BOOLEAN, abstains : 0 .. MaxAbstains,
          reported : BOOLEAN]

VoiceShape ==
  /\ row \in [Calls -> RowState] /\ case \in [Calls -> {"open", "opted_out", "closed"}]
  /\ promised \subseteq Calls /\ stopped \subseteq Calls
  /\ hand \in [Bridges -> Calls \cup {NoCall}]
  /\ line \in [Calls -> {"none", "ringing", "live", "over"}]
  /\ turn \in [Calls -> 0..MaxTurns] /\ dials \in [Calls -> 0..1]
  /\ mind \in [Calls -> Entry]
  /\ restarts \in 0..MaxRestarts /\ lost \in 0..MaxLost

\* A call that goes on has not abstained too often; one that ends on the last abstention
\* is over.
StillPatient == \A c \in Calls : line[c] = "live" => mind[c].abstains < MaxAbstains

\* A row not claimed was never dialled and is in nobody's hand; one in a bridge's hand is
\* in no other's, and not dialled yet.
InOneHand ==
  /\ \A c \in Calls : row[c] \in {"none", "queued"} =>
       dials[c] = 0 /\ \A w \in Bridges : hand[w] # c
  /\ \A w \in Bridges : hand[w] # NoCall => dials[hand[w]] = 0
  /\ \A v, w \in Bridges : hand[v] = hand[w] /\ hand[w] # NoCall => v = w

VoiceInv == VoiceShape /\ StillPatient /\ InOneHand

LEMMA EntriesTyped == Unknown \in Entry /\ Fresh \in Entry /\ Fresh.abstains = 0
<1>1. 0 \in 0 .. MaxAbstains
  BY VoiceConstants
<1>2. Unknown \in Entry /\ Unknown.abstains = 0
  BY <1>1 DEF Unknown, Entry
<1> QED
  BY <1>2 DEF Fresh, Entry

-----------------------------------------------------------------------------
(* Rows only leave the queue                                                *)

RowsMoveOn ==
  /\ row' \in [Calls -> RowState]
  /\ \A c \in Calls : row'[c] \in {"none", "queued"} => row'[c] = row[c]

LEMMA ReportMovesOn ==
  ASSUME VoiceShape, NEW c \in Calls, NEW known \in BOOLEAN,
         NEW result \in {"done", "failed", "opted_out"}, Reported(c, known, result)
  PROVE  RowsMoveOn /\ case' \in [Calls -> {"open", "opted_out", "closed"}]
<1>1. CASE UNCHANGED <<row, case>>
  BY <1>1 DEF VoiceShape, RowsMoveOn
<1>2. CASE /\ row' = [row EXCEPT ![c] = result]
           /\ case' = IF result = "opted_out" THEN OptedOut({c}) ELSE case
  <2>1. RowsMoveOn
    BY <1>2 DEF VoiceShape, RowsMoveOn, RowState
  <2>2. OptedOut({c}) \in [Calls -> {"open", "opted_out", "closed"}]
    BY DEF VoiceShape, OptedOut
  <2> QED
    BY <1>2, <2>1, <2>2 DEF VoiceShape
<1> QED
  BY <1>1, <1>2 DEF Reported

LEMMA SentMovesOn ==
  ASSUME VoiceShape, NEW c \in Calls, NEW result \in {"done", "failed", "opted_out"},
         Report(c, result)
  PROVE  /\ RowsMoveOn /\ case' \in [Calls -> {"open", "opted_out", "closed"}]
         /\ lost' \in 0..MaxLost
<1>1. CASE Reported(c, mind[c].known /\ mind[c].bound, result) /\ UNCHANGED lost
  <2>1. PICK known \in BOOLEAN : known = (mind[c].known /\ mind[c].bound)
    BY DEF VoiceShape, Entry
  <2>2. Reported(c, known, result)
    BY <1>1, <2>1
  <2> QED
    BY <1>1, <2>2, ReportMovesOn DEF VoiceShape
<1>2. CASE lost < MaxLost /\ lost' = lost + 1 /\ UNCHANGED <<row, case>>
  BY <1>2, VoiceConstants DEF VoiceShape, RowsMoveOn
<1> QED
  BY <1>1, <1>2 DEF Report

-----------------------------------------------------------------------------
(* Callbacks of the provider                                                *)

\* What a callback may do to the call c: the bridge's memory of it becomes entry.
Talks(c, entry) ==
  /\ entry \in Entry /\ mind' = [mind EXCEPT ![c] = entry]
  /\ RowsMoveOn /\ case' \in [Calls -> {"open", "opted_out", "closed"}] /\ lost' \in 0..MaxLost
  /\ promised' \subseteq Calls /\ stopped' \subseteq Calls /\ UNCHANGED <<hand, dials, restarts>>
  /\ \/ line' = line /\ entry.abstains < MaxAbstains /\ turn' \in [Calls -> 0..MaxTurns]
     \/ /\ \E over \in {"none", "over"} : line' = [line EXCEPT ![c] = over]
        /\ turn' = turn

LEMMA TalkKeepsInv ==
  ASSUME VoiceInv, NEW c \in Calls, NEW entry, Talks(c, entry)
  PROVE  VoiceInv'
<1>1. VoiceShape'
  BY DEF VoiceInv, VoiceShape, Talks, RowsMoveOn
<1>2. StillPatient'
  <2>1. CASE line' = line /\ entry.abstains < MaxAbstains
    BY <2>1 DEF VoiceInv, VoiceShape, StillPatient, Talks
  <2>2. ASSUME NEW over \in {"none", "over"}, line' = [line EXCEPT ![c] = over]
        PROVE  StillPatient'
    BY <2>2 DEF VoiceInv, VoiceShape, StillPatient, Talks
  <2> QED
    BY <2>1, <2>2 DEF Talks
<1>3. InOneHand'
  BY DEF VoiceInv, InOneHand, Talks, RowsMoveOn
<1> QED
  BY <1>1, <1>2, <1>3 DEF VoiceInv

LEMMA HeardTyped ==
  ASSUME VoiceShape, NEW c \in Calls
  PROVE  /\ Remembered(c) \in Entry /\ Heard(c) \in Entry /\ Closing(c) \in Entry
         /\ Heard(c).abstains = Remembered(c).abstains
         /\ StillPatient /\ line[c] = "live" => Remembered(c).abstains < MaxAbstains
<1>1. Remembered(c) \in Entry
  BY EntriesTyped DEF VoiceShape, Remembered
<1>2. Heard(c) \in Entry /\ Heard(c).abstains = Remembered(c).abstains
  BY <1>1 DEF Heard, Entry
<1>3. Closing(c) \in Entry
  BY <1>2 DEF Closing, Entry
<1>4. StillPatient /\ line[c] = "live" => Remembered(c).abstains < MaxAbstains
  BY EntriesTyped, VoiceConstants DEF StillPatient, Remembered
<1> QED
  BY <1>1, <1>2, <1>3, <1>4

\* The bridge asks on.
LEMMA AskTalks ==
  ASSUME VoiceInv, NEW c \in Calls, NEW entry \in Entry, NEW heard \in BOOLEAN,
         Callback(c), Ask(c, entry, heard), entry.abstains < MaxAbstains,
         UNCHANGED <<promised, stopped>>
  PROVE  Talks(c, entry)
<1>1. turn[c] \in 0..MaxTurns /\ turn[c] < MaxTurns
  BY DEF VoiceInv, VoiceShape, Callback
<1>2. turn[c] + 1 \in 0..MaxTurns
  BY <1>1, VoiceConstants
<1>3. turn' \in [Calls -> 0..MaxTurns]
  BY <1>2 DEF VoiceInv, VoiceShape, Ask, NextTurn
<1> QED
  BY <1>3 DEF VoiceInv, VoiceShape, Talks, Ask, Callback, RowsMoveOn

\* The bridge hangs up, and may have had something to report.
LEMMA HangUpTalks ==
  ASSUME VoiceInv, NEW c \in Calls, NEW entry \in Entry, HangUp(c, entry),
         UNCHANGED <<hand, dials, restarts>>, promised' \subseteq Calls, stopped' \subseteq Calls,
         \/ UNCHANGED <<row, case, lost>>
         \/ \E result \in {"done", "failed", "opted_out"} : Report(c, result)
  PROVE  Talks(c, entry)
<1>1. RowsMoveOn /\ case' \in [Calls -> {"open", "opted_out", "closed"}] /\ lost' \in 0..MaxLost
  <2>1. CASE UNCHANGED <<row, case, lost>>
    BY <2>1 DEF VoiceInv, VoiceShape, RowsMoveOn
  <2>2. ASSUME NEW result \in {"done", "failed", "opted_out"}, Report(c, result)
        PROVE  /\ RowsMoveOn /\ case' \in [Calls -> {"open", "opted_out", "closed"}]
               /\ lost' \in 0..MaxLost
    BY <2>2, SentMovesOn DEF VoiceInv
  <2> QED
    BY <2>1, <2>2
<1> QED
  BY <1>1 DEF Talks, HangUp

LEMMA CallbackKeeps ==
  ASSUME VoiceInv, NEW c \in Calls, TurnCallback(c)
  PROVE  VoiceInv'
<1>0. /\ Remembered(c) \in Entry /\ Heard(c) \in Entry /\ Closing(c) \in Entry
      /\ line[c] = "live" /\ Remembered(c).abstains < MaxAbstains
      /\ Heard(c).abstains = Remembered(c).abstains
      /\ promised \subseteq Calls /\ stopped \subseteq Calls
      /\ UNCHANGED <<hand, dials, restarts>>
  BY HeardTyped DEF VoiceInv, VoiceShape, TurnCallback, TurnCap, Silence, SttFails, EngineFails,
     SaysStop, SaysPromise, SaysSomething, Abstains, Callback
<1>1. CASE TurnCap(c)
  <2>1. Talks(c, Remembered(c))
    BY <1>0, <1>1, HangUpTalks DEF TurnCap
  <2> QED
    BY <2>1, TalkKeepsInv
<1>2. CASE Silence(c)
  <2>1. PICK nudge : nudge = [Remembered(c) EXCEPT !.nudged = TRUE]
    OBVIOUS
  <2>2. nudge \in Entry /\ nudge.abstains < MaxAbstains
    BY <1>0, <2>1 DEF Entry
  <2>3. CASE HangUp(c, Remembered(c)) /\ UNCHANGED <<row, case, lost>>
    <3>1. Talks(c, Remembered(c))
      BY <1>0, <1>2, <2>3, HangUpTalks DEF Silence
    <3> QED
      BY <3>1, TalkKeepsInv
  <2>4. CASE Ask(c, nudge, FALSE)
    <3>1. Talks(c, nudge)
      BY <1>2, <2>2, <2>4, AskTalks DEF Silence
    <3> QED
      BY <3>1, TalkKeepsInv
  <2> QED
    BY <1>2, <2>1, <2>3, <2>4 DEF Silence
<1>3. CASE SttFails(c) \/ SaysSomething(c)
  <2>1. \E heard \in BOOLEAN : Ask(c, Heard(c), heard)
    BY <1>3 DEF SttFails, SaysSomething, Heard
  <2>2. Callback(c) /\ UNCHANGED <<promised, stopped>>
    BY <1>3 DEF SttFails, SaysSomething
  <2>3. Talks(c, Heard(c))
    BY <1>0, <2>1, <2>2, AskTalks
  <2> QED
    BY <2>3, TalkKeepsInv
<1>4. CASE EngineFails(c)
  <2>1. Talks(c, Heard(c))
    BY <1>0, <1>4, HangUpTalks DEF EngineFails, Heard
  <2> QED
    BY <2>1, TalkKeepsInv
<1>5. CASE SaysStop(c)
  <2>1. Talks(c, Closing(c))
    BY <1>0, <1>5, HangUpTalks DEF SaysStop
  <2> QED
    BY <2>1, TalkKeepsInv
<1>6. CASE SaysPromise(c)
  <2>1. CASE Ask(c, Heard(c), TRUE) /\ UNCHANGED promised
    <3>1. Talks(c, Heard(c))
      BY <1>0, <1>6, <2>1, AskTalks DEF SaysPromise
    <3> QED
      BY <3>1, TalkKeepsInv
  <2>2. CASE /\ HangUp(c, Closing(c)) /\ promised' \subseteq Calls
             /\ \E result \in {"done", "failed", "opted_out"} : Report(c, result)
    <3>1. Talks(c, Closing(c))
      BY <1>0, <1>6, <2>2, HangUpTalks DEF SaysPromise
    <3> QED
      BY <3>1, TalkKeepsInv
  <2> QED
    BY <1>0, <1>6, <2>1, <2>2 DEF SaysPromise
<1>7. CASE Abstains(c)
  <2>1. PICK n : n = Heard(c).abstains + 1
    OBVIOUS
  <2>2. n \in 0..MaxAbstains
    BY <1>0, <2>1, VoiceConstants DEF Entry
  <2>3. PICK asked : asked = [Heard(c) EXCEPT !.abstains = n]
    OBVIOUS
  <2>4. asked \in Entry /\ asked.abstains = n
    BY <1>0, <2>2, <2>3 DEF Entry
  <2>5. PICK ended : ended = [Closing(c) EXCEPT !.abstains = n]
    OBVIOUS
  <2>6. ended \in Entry
    BY <1>0, <2>2, <2>5 DEF Entry
  <2>7. CASE n < MaxAbstains /\ Ask(c, asked, TRUE)
    <3>1. Talks(c, asked)
      BY <1>7, <2>4, <2>7, AskTalks DEF Abstains
    <3> QED
      BY <3>1, TalkKeepsInv
  <2>8. CASE HangUp(c, ended) /\ Report(c, "failed")
    <3>1. Talks(c, ended)
      BY <1>0, <1>7, <2>6, <2>8, HangUpTalks DEF Abstains
    <3> QED
      BY <3>1, TalkKeepsInv
  <2> QED
    BY <1>7, <2>1, <2>3, <2>5, <2>7, <2>8 DEF Abstains
<1> QED
  BY <1>1, <1>2, <1>3, <1>4, <1>5, <1>6, <1>7 DEF TurnCallback

-----------------------------------------------------------------------------
(* The queue and the bridges                                                *)

LEMMA QueueKeeps ==
  ASSUME VoiceInv, NEW c \in Calls, QueueVoiceCall(c) \/ CaseCloses(c) \/ Answered(c)
  PROVE  VoiceInv'
<1>1. CASE QueueVoiceCall(c)
  BY <1>1 DEF QueueVoiceCall, VoiceInv, VoiceShape, StillPatient, InOneHand, RowState
<1>2. CASE CaseCloses(c)
  BY <1>2 DEF CaseCloses, VoiceInv, VoiceShape, StillPatient, InOneHand
<1>3. CASE Answered(c)
  <2>1. PICK entry : entry = [Fresh EXCEPT !.bound = TRUE]
    OBVIOUS
  <2>2. entry \in Entry /\ entry.abstains < MaxAbstains
    <3>1. entry \in Entry /\ entry.abstains = 0
      BY <2>1, EntriesTyped DEF Entry
    <3> QED
      BY <3>1, VoiceConstants
  <2>3. /\ line' = [line EXCEPT ![c] = "live"] /\ mind' = [mind EXCEPT ![c] = entry]
        /\ turn' = [turn EXCEPT ![c] = 1] /\ 1 \in 0..MaxTurns
        /\ UNCHANGED <<row, case, promised, hand, dials, stopped, restarts, lost>>
    BY <1>3, <2>1, VoiceConstants DEF Answered
  <2>4. VoiceShape'
    BY <2>2, <2>3 DEF VoiceInv, VoiceShape
  <2>5. StillPatient'
    BY <2>2, <2>3 DEF VoiceInv, VoiceShape, StillPatient
  <2>6. InOneHand'
    BY <2>3 DEF VoiceInv, InOneHand
  <2> QED
    BY <2>4, <2>5, <2>6 DEF VoiceInv
<1> QED
  BY <1>1, <1>2, <1>3

\* One UPDATE takes the row out of every other claim's reach.
LEMMA ClaimKeeps ==
  ASSUME VoiceInv, NEW w \in Bridges, NEW c \in Calls, ClaimCall(w, c)
  PROVE  VoiceInv'
<1>1. /\ row[c] = "queued" /\ row' = [row EXCEPT ![c] = "claimed"]
      /\ hand[w] = NoCall /\ hand' = [hand EXCEPT ![w] = c]
      /\ UNCHANGED <<case, promised, line, turn, mind, dials, stopped, restarts, lost>>
  BY DEF ClaimCall, Claimable
<1>2. VoiceShape' /\ StillPatient'
  BY <1>1 DEF VoiceInv, VoiceShape, StillPatient, RowState
<1>3. dials[c] = 0 /\ \A v \in Bridges : hand[v] # c
  BY <1>1 DEF VoiceInv, InOneHand
<1>4. InOneHand'
  BY <1>1, <1>3, VoiceConstants DEF VoiceInv, VoiceShape, InOneHand
<1> QED
  BY <1>2, <1>4 DEF VoiceInv

LEMMA DialKeeps ==
  ASSUME VoiceInv, NEW w \in Bridges, Dial(w)
  PROVE  VoiceInv'
<1>1. PICK c : c = hand[w]
  OBVIOUS
<1>2. /\ c \in Calls /\ dials[c] = 0 /\ hand' = [hand EXCEPT ![w] = NoCall]
      /\ UNCHANGED <<row, case, promised, turn, mind, stopped, restarts, lost>>
  BY <1>1 DEF Dial, VoiceInv, VoiceShape, InOneHand
<1>3. hand' \in [Bridges -> Calls \cup {NoCall}]
  BY <1>2 DEF VoiceInv, VoiceShape
<1>4. row[c] \notin {"none", "queued"} /\ \A v \in Bridges : v # w => hand[v] # c
  BY <1>1, <1>2, VoiceConstants DEF VoiceInv, InOneHand
<1>5. CASE UNCHANGED <<line, dials>>
  <2>1. VoiceShape' /\ StillPatient'
    BY <1>2, <1>3, <1>5 DEF VoiceInv, VoiceShape, StillPatient
  <2>2. InOneHand'
    BY <1>2, <1>5, VoiceConstants DEF VoiceInv, VoiceShape, InOneHand
  <2> QED
    BY <2>1, <2>2 DEF VoiceInv
<1>6. CASE /\ line' = [line EXCEPT ![c] = "ringing"]
           /\ dials' = [dials EXCEPT ![c] = IF @ = 2 THEN 2 ELSE @ + 1]
  <2>1. dials' = [dials EXCEPT ![c] = 1]
    BY <1>2, <1>6
  <2>2. VoiceShape' /\ StillPatient'
    BY <1>2, <1>3, <1>6, <2>1 DEF VoiceInv, VoiceShape, StillPatient
  <2>3. ASSUME NEW d \in Calls, row'[d] \in {"none", "queued"}
        PROVE  dials'[d] = 0 /\ \A v \in Bridges : hand'[v] # d
    BY <1>2, <1>4, <2>1, <2>3, VoiceConstants DEF VoiceInv, VoiceShape, InOneHand
  <2>4. ASSUME NEW v \in Bridges, hand'[v] # NoCall PROVE dials'[hand'[v]] = 0
    <3>1. v # w /\ hand'[v] = hand[v] /\ hand[v] # c /\ hand[v] \in Calls
      BY <1>2, <1>4, <2>4 DEF VoiceInv, VoiceShape
    <3> QED
      BY <2>1, <2>4, <3>1 DEF VoiceInv, VoiceShape, InOneHand
  <2>5. \A u, v \in Bridges : hand'[u] = hand'[v] /\ hand'[v] # NoCall => u = v
    BY <1>2 DEF VoiceInv, VoiceShape, InOneHand
  <2> QED
    BY <2>2, <2>3, <2>4, <2>5 DEF VoiceInv, InOneHand
<1> QED
  BY <1>1, <1>2, <1>5, <1>6 DEF Dial

LEMMA BridgeKeeps ==
  ASSUME VoiceInv, (\E c \in Calls : HangupCallback(c)) \/ BridgeRestarts
  PROVE  VoiceInv'
<1>1. ASSUME NEW c \in Calls, HangupCallback(c) PROVE VoiceInv'
  <2>1. /\ Unknown \in Entry /\ mind' = [mind EXCEPT ![c] = Unknown]
        /\ line' = [line EXCEPT ![c] = "none"]
        /\ UNCHANGED <<promised, hand, turn, dials, stopped, restarts>> /\ lost' = lost
        /\ UNCHANGED <<row, case>> \/ Reported(c, FALSE, "done")
    BY <1>1, EntriesTyped DEF HangupCallback
  <2>2. RowsMoveOn /\ case' \in [Calls -> {"open", "opted_out", "closed"}]
    <3>1. CASE UNCHANGED <<row, case>>
      BY <3>1 DEF VoiceInv, VoiceShape, RowsMoveOn
    <3>2. CASE Reported(c, FALSE, "done")
      BY <3>2, ReportMovesOn DEF VoiceInv
    <3> QED
      BY <2>1, <3>1, <3>2
  <2>3. Talks(c, Unknown)
    BY <2>1, <2>2 DEF VoiceInv, VoiceShape, Talks
  <2> QED
    BY <2>3, TalkKeepsInv
<1>2. CASE BridgeRestarts
  <2>1. /\ restarts' \in 0..MaxRestarts
        /\ mind' = [c \in Calls |-> Unknown] /\ hand' = [w \in Bridges |-> NoCall]
        /\ UNCHANGED <<row, case, promised, line, turn, dials, stopped, lost>>
    BY <1>2, VoiceConstants DEF BridgeRestarts, VoiceInv, VoiceShape
  <2>2. Unknown \in Entry /\ Unknown.abstains < MaxAbstains
    BY EntriesTyped, VoiceConstants DEF Unknown
  <2>3. VoiceShape' /\ StillPatient'
    BY <2>1, <2>2 DEF VoiceInv, VoiceShape, StillPatient
  <2>4. InOneHand'
    BY <2>1, VoiceConstants DEF VoiceInv, InOneHand
  <2> QED
    BY <2>3, <2>4 DEF VoiceInv
<1> QED
  BY <1>1, <1>2

LEMMA VoiceStarts == VoiceInit => VoiceInv
<1> SUFFICES ASSUME VoiceInit PROVE VoiceInv
  OBVIOUS
<1>1. VoiceShape
  BY EntriesTyped, VoiceConstants DEF VoiceInit, VoiceShape, RowState
<1>2. StillPatient /\ InOneHand
  BY VoiceConstants DEF VoiceInit, StillPatient, InOneHand
<1> QED
  BY <1>1, <1>2 DEF VoiceInv

LEMMA VoiceStep == VoiceInv /\ [VoiceNext]_voiceVars => VoiceInv'
<1> SUFFICES ASSUME VoiceInv, [VoiceNext]_voiceVars PROVE VoiceInv'
  OBVIOUS
<1>1. CASE VoiceNext
  BY <1>1, QueueKeeps, CallbackKeeps, BridgeKeeps, DialKeeps, ClaimKeeps DEF VoiceNext
<1>2. CASE UNCHANGED voiceVars
  BY <1>2 DEF voiceVars, VoiceInv, VoiceShape, StillPatient, InOneHand
<1> QED
  BY <1>1, <1>2

-----------------------------------------------------------------------------
(* Theorems                                                                 *)

\* Every state has the declared types: the turns signed into the callback URLs stay below
\* MAX_TURNS, the abstentions of a call below their limit.
THEOREM VoiceTypeCorrect == VoiceSpec => []VoiceTypeOK
<1>1. VoiceInv => VoiceTypeOK
  <2> SUFFICES ASSUME VoiceInv PROVE VoiceTypeOK
    OBVIOUS
  <2>1. dials \in [Calls -> 0..2]
    BY DEF VoiceInv, VoiceShape
  <2>2. \A c \in Calls : mind[c].abstains <= MaxAbstains
    BY VoiceConstants DEF VoiceInv, VoiceShape, Entry
  <2> QED
    BY <2>1, <2>2 DEF VoiceInv, VoiceShape, VoiceTypeOK
<1> QED
  BY <1>1, VoiceStarts, VoiceStep, PTL DEF VoiceSpec

\* DialledOnce: whichever bridges claim at once, die with a row in hand or lose their
\* memory, the provider is asked to dial a queued call once at the most.
THEOREM OneDialPerCall == VoiceSpec => []DialledOnce
<1>1. VoiceInv => DialledOnce
  BY DEF VoiceInv, VoiceShape, DialledOnce
<1> QED
  BY <1>1, VoiceStarts, VoiceStep, PTL DEF VoiceSpec

-----------------------------------------------------------------------------
(* The front door                                                           *)

LEMMA DoorConstants ==
  /\ Limit \in Nat \ {0} /\ Span \in Nat \ {0} /\ Hops \in Nat \ {0}
  /\ MaxOutages \in Nat /\ MaxDoorCrashes \in Nat
  /\ IsFiniteSet(Workers) /\ Cardinality(Workers) \in Nat \ {0}
  /\ Ages = 0..(Span - 1) /\ IsFiniteSet(Ages) /\ 0 \in Ages
  /\ "customer" \in Addresses
<1>1. Cardinality(Workers) \in Nat /\ Cardinality(Workers) # 0
  BY DoorAssumption, FS_CardinalityType, FS_EmptySet
<1>2. IsFiniteSet(0..(Span - 1))
  BY DoorAssumption, FS_Interval
<1> QED
  BY <1>1, <1>2, DoorAssumption DEF Ages, Addresses

\* However the header is padded, the request counts under the customer's own address.
LEMMA CountedAsTheCustomer ==
  ASSUME NEW padding \in Padding
  PROVE  ClientIp(ViaProxies(padding)) = "customer" /\ ClientIp(Direct(padding)) = "customer"
<1>1. padding \in Seq({"forged"}) /\ Len(padding) \in Nat
  <2>1. <<>> \in Seq({"forged"}) /\ <<"forged">> \in Seq({"forged"})
    OBVIOUS
  <2>2. padding = <<>> \/ padding = <<"forged">>
    BY DEF Padding
  <2>3. padding \in Seq({"forged"})
    BY <2>1, <2>2
  <2> QED
    BY <2>3
<1> DEFINE proxies == [k \in 1..(Hops - 1) |-> "proxy"]
           chain == padding \o <<"customer">> \o proxies
<1>2. proxies \in Seq({"proxy"}) /\ Len(proxies) = Hops - 1
  BY DoorConstants
<1>3. <<"customer">> \in Seq({"customer"}) /\ Len(<<"customer">>) = 1
      /\ <<"customer">>[1] = "customer"
  OBVIOUS
<1> HIDE DEF proxies
<1> DEFINE S == {"forged", "customer", "proxy"}
<1>4. padding \in Seq(S) /\ <<"customer">> \in Seq(S) /\ proxies \in Seq(S)
  BY <1>1, <1>2, <1>3
<1>5. /\ padding \o <<"customer">> \in Seq(S)
      /\ Len(padding \o <<"customer">>) = Len(padding) + 1
      /\ (padding \o <<"customer">>)[Len(padding) + 1] = "customer"
  BY <1>1, <1>3, <1>4
<1>6. Len(chain) = Len(padding) + 1 + (Hops - 1) /\ chain[Len(padding) + 1] = "customer"
  BY <1>1, <1>2, <1>4, <1>5, DoorConstants
<1>7. Len(chain) >= Hops /\ Len(chain) - Hops + 1 = Len(padding) + 1
  BY <1>1, <1>6, DoorConstants
<1>8. ViaProxies(padding) = [peer |-> "proxy", entries |-> chain]
  BY DEF ViaProxies, Chain, proxies
<1> HIDE DEF chain
<1>9. ClientIp(ViaProxies(padding)) = "customer"
  BY <1>6, <1>7, <1>8 DEF ClientIp
<1>10. ClientIp(Direct(padding)) = "customer"
  BY DEF ClientIp, Direct
<1> QED
  BY <1>9, <1>10

\* The customer's counter; what of the limit it has used up; the requests it has let in
\* that are not answered yet.
Counter == store["customer"]
Used == IF Counter.count < Limit THEN Counter.count ELSE Limit
Late == {w \in Workers : check[w].pc = "within"}

\* Admitted in the last k units of time: by the workers' own buckets, and by the counter.
Own(k) == Sum([w \in Workers |-> Sum(buckets[w]["customer"], 0..k)], Workers)
Through(k) == Sum(admitted, 0..k) - Own(k)

\* What outages add: a counter lost with each, a bucket lost with each death.
Slack == IF outages = 0 THEN 0 ELSE Limit * (outages + doorCrashes)
Room == Cardinality(Workers) - 2 + Used + Slack

DoorShape ==
  /\ store \in [Addresses -> [count : 0..(Limit + 1), ttl : -1..Span]]
  /\ up \in BOOLEAN /\ refused \in BOOLEAN /\ outages \in Nat /\ doorCrashes \in Nat
  /\ buckets \in [Workers -> [Addresses -> [Ages -> Nat]]]
  /\ \A w \in Workers, a \in Addresses : Within(buckets[w][a]) <= Limit
  /\ check \in [Workers -> [pc : {"idle", "setnx", "incr", "over", "within"},
                            key : {"customer"}]]
  /\ admitted \in [Ages -> Nat]

\* A key that counts expires, or waits for the next TTL; without an outage the buckets are
\* empty.
CounterShape ==
  /\ Counter.count = 0 => Counter = NoCounter
  /\ Counter.count # 0 => Counter.ttl \in {Immortal} \cup 1..Span
NoOutageYet == outages = 0 => up /\ \A w \in Workers, g \in Ages : buckets[w]["customer"][g] = 0

\* What the counter let through and will still answer is bounded: now, and of what is
\* younger than the counter's expiry even when that comes.
Growing == \A k \in Ages : Through(k - 1) <= Through(k)
TwoWindows == Through(Span - 1) + Cardinality(Late) <= Limit + Room
OneWindow ==
  \A t \in 1..Span : Counter.ttl = t => Through(Span - 1 - t) + Cardinality(Late) <= Room

DoorInv == DoorShape /\ CounterShape /\ NoOutageYet /\ Growing /\ TwoWindows /\ OneWindow

LEMMA NoCounterTyped ==
  /\ NoCounter \in [count : 0..(Limit + 1), ttl : -1..Span]
  /\ NoCounter.count = 0 /\ NoCounter.ttl = 0 /\ Immortal = -1
  BY DoorConstants DEF NoCounter, Immortal

LEMMA DoorNumbers ==
  ASSUME DoorShape
  PROVE  /\ Used \in 0..Limit /\ Slack \in Nat /\ Room \in Int
         /\ Counter.count \in 0..(Limit + 1) /\ Counter.ttl \in -1..Span
         /\ Counter \in [count : 0..(Limit + 1), ttl : -1..Span]
         /\ Counter.count # 0 => 1 <= Used
<1>1. Counter \in [count : 0..(Limit + 1), ttl : -1..Span]
  BY DoorConstants DEF DoorShape, Counter
<1>2. Counter.count \in 0..(Limit + 1) /\ Counter.ttl \in -1..Span
  BY <1>1
<1>3. Used \in 0..Limit /\ (Counter.count # 0 => 1 <= Used)
  BY <1>2, DoorConstants DEF Used
<1>4. outages \in Nat /\ doorCrashes \in Nat
  BY DEF DoorShape
<1>5. Slack \in Nat
  BY <1>4, DoorConstants DEF Slack
<1> QED
  BY <1>1, <1>2, <1>3, <1>5, DoorConstants DEF Room

LEMMA LateCounted ==
  ASSUME DoorShape
  PROVE  /\ IsFiniteSet(Late) /\ Cardinality(Late) \in Nat
         /\ Cardinality(Late) <= Cardinality(Workers)
         /\ \A w \in Workers \ Late : Cardinality(Late) <= Cardinality(Workers) - 1
<1>1. Late \subseteq Workers
  BY DEF Late
<1>2. IsFiniteSet(Late) /\ Cardinality(Late) <= Cardinality(Workers)
  BY <1>1, DoorConstants, FS_Subset
<1>3. Cardinality(Late) \in Nat
  BY <1>2, FS_CardinalityType
<1>4. ASSUME NEW w \in Workers \ Late PROVE Cardinality(Late) <= Cardinality(Workers) - 1
  <2>1. IsFiniteSet(Workers \ {w}) /\ Cardinality(Workers \ {w}) = Cardinality(Workers) - 1
    BY DoorConstants, FS_RemoveElement
  <2>2. Late \subseteq Workers \ {w}
    BY <1>1, <1>4
  <2> QED
    BY <2>1, <2>2, FS_Subset
<1> QED
  BY <1>2, <1>3, <1>4

\* The sums of a bucket.
LEMMA BucketSums ==
  ASSUME NEW b \in [Ages -> Nat], NEW k \in -1..(Span - 1)
  PROVE  /\ Sum(b, 0..k) \in Int /\ 0 <= Sum(b, 0..k) /\ Sum(b, 0..k) <= Within(b)
         /\ (k = -1 => Sum(b, 0..k) = 0)
         /\ (k # -1 => Sum(b, 0..k) = Sum(b, 0..(k - 1)) + b[k])
         /\ IsFiniteSet(0..k) /\ 0..k \subseteq Ages /\ \A x \in 0..k : b[x] \in Int
<1>1. IsFiniteSet(0..k) /\ 0..k \in SUBSET Ages
  <2>1. 0..k \in SUBSET Ages
    BY DoorConstants
  <2> QED
    BY <2>1, DoorConstants, FS_Subset
<1>2. \A x \in Ages : b[x] \in Int /\ 0 <= b[x]
  OBVIOUS
<1>3. \A x \in 0..k : b[x] \in Int /\ 0 <= b[x]
  BY <1>1, <1>2
<1>4. Sum(b, 0..k) \in Int /\ 0 <= Sum(b, 0..k)
  BY <1>1, <1>3, SumIsInt, SumNotNegative
<1>5. Sum(b, 0..k) <= Within(b)
  <2>1. Sum(b, 0..k) <= Sum(b, Ages)
    BY <1>1, <1>2, DoorConstants, SumOfPart
  <2> QED
    BY <2>1 DEF Within, Sum, MapThenSumSet
<1>6. k = -1 => Sum(b, 0..k) = 0
  <2>1. 0..(-1) = {}
    OBVIOUS
  <2> QED
    BY <2>1, EmptySum
<1>7. k # -1 => Sum(b, 0..k) = Sum(b, 0..(k - 1)) + b[k]
  <2>1. k # -1 => k \in Nat
    BY DoorConstants
  <2> QED
    BY <1>3, <2>1, SumUpTo
<1> QED
  BY <1>1, <1>3, <1>4, <1>5, <1>6, <1>7

LEMMA OwnTyped ==
  ASSUME DoorShape, NEW k \in -1..(Span - 1)
  PROVE  /\ \A w \in Workers : Sum(buckets[w]["customer"], 0..k) \in Int
         /\ Own(k) \in Int /\ (k = -1 => Own(k) = 0)
<1>1. \A w \in Workers : buckets[w]["customer"] \in [Ages -> Nat]
  BY DoorConstants DEF DoorShape
<1>2. \A w \in Workers : /\ Sum(buckets[w]["customer"], 0..k) \in Int
                         /\ k = -1 => Sum(buckets[w]["customer"], 0..k) = 0
  BY <1>1, BucketSums
<1> DEFINE v == [w \in Workers |-> Sum(buckets[w]["customer"], 0..k)]
<1>3. \A w \in Workers : v[w] \in Int /\ (k = -1 => v[w] = 0)
  BY <1>2
<1> HIDE DEF v
<1>4. Sum(v, Workers) \in Int
  BY <1>3, DoorConstants, SumIsInt
<1>5. k = -1 => Sum(v, Workers) = 0
  BY <1>3, DoorConstants, SumZero
<1> QED
  BY <1>2, <1>4, <1>5 DEF Own, v

LEMMA ThroughTyped ==
  ASSUME DoorShape, NEW k \in -1..(Span - 1)
  PROVE  Through(k) \in Int /\ (k = -1 => Through(k) = 0)
<1>1. admitted \in [Ages -> Nat]
  BY DEF DoorShape
<1>2. Sum(admitted, 0..k) \in Int /\ (k = -1 => Sum(admitted, 0..k) = 0)
  BY <1>1, BucketSums
<1>3. Own(k) \in Int /\ (k = -1 => Own(k) = 0)
  BY OwnTyped
<1> QED
  BY <1>2, <1>3 DEF Through

\* Both kinds of sums follow their functions.
LEMMA OwnFollows ==
  ASSUME DoorShape, NEW k \in -1..(Span - 1), NEW w \in Workers,
         buckets' \in [Workers -> [Addresses -> [Ages -> Nat]]],
         \A x \in Workers \ {w} : buckets'[x]["customer"] = buckets[x]["customer"]
  PROVE  /\ Own(k)' = Own(k) + Sum(buckets'[w]["customer"], 0..k)
                             - Sum(buckets[w]["customer"], 0..k)
         /\ Sum(buckets'[w]["customer"], 0..k) \in Int
<1> DEFINE v == [x \in Workers |-> Sum(buckets[x]["customer"], 0..k)]
           u == [x \in Workers |-> Sum(buckets'[x]["customer"], 0..k)]
<1>1. \A x \in Workers : v[x] \in Int
  BY OwnTyped
<1>2. Sum(buckets'[w]["customer"], 0..k) \in Int
  <2>1. buckets'[w]["customer"] \in [Ages -> Nat]
    BY DoorConstants
  <2> QED
    BY <2>1, BucketSums
<1>3. u[w] \in Int /\ \A x \in Workers \ {w} : u[x] = v[x]
  BY <1>2
<1>4. u[w] = Sum(buckets'[w]["customer"], 0..k) /\ v[w] = Sum(buckets[w]["customer"], 0..k)
  OBVIOUS
<1>5. Own(k)' = Sum(u, Workers) /\ Own(k) = Sum(v, Workers)
  BY DEF Own
<1> HIDE DEF u, v
<1>6. Sum(u, Workers) = Sum(v, Workers) + u[w] - v[w]
  BY <1>1, <1>3, DoorConstants, SumChange
<1> QED
  BY <1>2, <1>4, <1>5, <1>6

\* One more of age 0.
LEMMA OneMore ==
  ASSUME NEW b \in [Ages -> Nat], NEW c, c = [b EXCEPT ![0] = @ + 1], NEW k \in -1..(Span - 1)
  PROVE  /\ c \in [Ages -> Nat]
         /\ Sum(c, 0..k) = IF k = -1 THEN Sum(b, 0..k) ELSE Sum(b, 0..k) + 1
<1>1. c \in [Ages -> Nat] /\ c[0] = b[0] + 1 /\ \A x \in Ages \ {0} : c[x] = b[x]
  BY DoorConstants
<1>2. ASSUME k = -1 PROVE Sum(c, 0..k) = Sum(b, 0..k)
  <2>1. Sum(c, 0..k) = 0 /\ Sum(b, 0..k) = 0
    BY ONLY <1>1, <1>2, b \in [Ages -> Nat], k \in -1..(Span - 1), BucketSums
  <2> QED
    BY ONLY <2>1
<1>3. ASSUME k # -1 PROVE Sum(c, 0..k) = Sum(b, 0..k) + 1
  <2>1. 0 \in 0..k /\ IsFiniteSet(0..k) /\ 0..k \subseteq Ages /\ \A x \in 0..k : b[x] \in Int
    BY <1>3, DoorConstants, BucketSums
  <2>2. \A x \in (0..k) \ {0} : c[x] = b[x]
    BY <1>1, <2>1
  <2>3. c[0] = b[0] + 1
    BY <1>1
  <2> QED
    BY ONLY <2>1, <2>2, <2>3, SumGrows
<1> QED
  BY ONLY <1>1, <1>2, <1>3

LEMMA AgeIsInRange ==
  /\ \A k \in Ages : k \in -1..(Span - 1) /\ k - 1 \in -1..(Span - 1)
  /\ Span - 1 \in Ages /\ -1 \in -1..(Span - 1)
  /\ \A t \in 1..Span : Span - 1 - t \in -1..(Span - 1)
  BY DoorConstants

-----------------------------------------------------------------------------
(* What is let in by the counter                                            *)

LEMMA AdmitPassesThrough ==
  ASSUME DoorShape, Admit, UNCHANGED buckets
  PROVE  /\ admitted' \in [Ages -> Nat] /\ refused' = FALSE
         /\ \A k \in -1..(Span - 1) : Through(k)' = IF k = -1 THEN Through(k) ELSE Through(k) + 1
<1>1. admitted \in [Ages -> Nat] /\ admitted' = [admitted EXCEPT ![0] = @ + 1]
  BY DEF DoorShape, Admit
<1>2. ASSUME NEW k \in -1..(Span - 1)
      PROVE  Through(k)' = IF k = -1 THEN Through(k) ELSE Through(k) + 1
  <2>1. Sum(admitted', 0..k) = IF k = -1 THEN Sum(admitted, 0..k) ELSE Sum(admitted, 0..k) + 1
    BY <1>1, OneMore
  <2>2. Own(k)' = Own(k) /\ Own(k) \in Int /\ Sum(admitted, 0..k) \in Int
    BY <1>1, OwnTyped, BucketSums DEF Own
  <2> QED
    BY <2>1, <2>2 DEF Through
<1>3. admitted' \in [Ages -> Nat]
  BY <1>1, DoorConstants
<1> QED
  BY <1>2, <1>3 DEF Admit

LEMMA NothingPasses ==
  ASSUME UNCHANGED <<buckets, admitted>>, NEW k
  PROVE  Through(k)' = Through(k)
  BY DEF Through, Own

\* A worker leaves its check: it is late no more.
LEMMA LeavingIsNotLate ==
  ASSUME DoorShape, NEW w \in Workers, Leaves(w)
  PROVE  /\ check' \in [Workers -> [pc : {"idle", "setnx", "incr", "over", "within"},
                                    key : {"customer"}]]
         /\ Late' = Late \ {w}
         /\ Cardinality(Late)' = IF w \in Late THEN Cardinality(Late) - 1 ELSE Cardinality(Late)
         /\ Cardinality(Late)' <= Cardinality(Workers) - 1
<1>1. Inside \in [pc : {"idle", "setnx", "incr", "over", "within"}, key : {"customer"}]
      /\ Inside.pc = "idle"
  BY DEF Inside
<1>2. check' \in [Workers -> [pc : {"idle", "setnx", "incr", "over", "within"},
                              key : {"customer"}]]
  BY <1>1 DEF DoorShape, Leaves
<1>3. \A x \in Workers : check'[x].pc = IF x = w THEN "idle" ELSE check[x].pc
  BY <1>1 DEF DoorShape, Leaves
<1>4. Late' = Late \ {w}
  BY <1>3 DEF Late
<1>5. w \in Late => Cardinality(Late \ {w}) = Cardinality(Late) - 1
  BY LateCounted, FS_RemoveElement
<1>6. w \notin Late => Late \ {w} = Late
  OBVIOUS
<1>7. w \in Workers \ Late => Cardinality(Late) <= Cardinality(Workers) - 1
  BY LateCounted
<1>8. Cardinality(Late) <= Cardinality(Workers) /\ Cardinality(Late) \in Nat
      /\ Cardinality(Workers) \in Nat
  BY LateCounted, DoorConstants
<1>9. Cardinality(Late)' = IF w \in Late THEN Cardinality(Late) - 1 ELSE Cardinality(Late)
  BY ONLY <1>4, <1>5, <1>6
<1>10. Cardinality(Late)' <= Cardinality(Workers) - 1
  <2>1. CASE w \in Late
    BY ONLY <1>8, <1>9, <2>1
  <2>2. CASE w \notin Late
    BY <1>7, <1>9, <2>2
  <2> QED
    BY <2>1, <2>2
<1> QED
  BY <1>2, <1>4, <1>9, <1>10

\* A worker goes from one command to the next.
LEMMA MovesOn ==
  ASSUME DoorShape, NEW w \in Workers, w \notin Late,
         NEW pc \in {"setnx", "incr", "over", "within"},
         check' = [check EXCEPT ![w] = [pc |-> pc, key |-> "customer"]]
  PROVE  /\ check' \in [Workers -> [pc : {"idle", "setnx", "incr", "over", "within"},
                                    key : {"customer"}]]
         /\ Cardinality(Late)' = IF pc = "within" THEN Cardinality(Late) + 1
                                 ELSE Cardinality(Late)
<1>1. \A x \in Workers : check'[x].pc = IF x = w THEN pc ELSE check[x].pc
  BY DEF DoorShape
<1>2. Late' = IF pc = "within" THEN Late \cup {w} ELSE Late
  BY <1>1 DEF Late
<1>3. Cardinality(Late \cup {w}) = Cardinality(Late) + 1
  BY LateCounted, FS_AddElement
<1> QED
  BY <1>2, <1>3 DEF DoorShape

-----------------------------------------------------------------------------
(* The steps                                                                *)

\* The invariant, from what a step does to the numbers in it.
LEMMA NumbersKeepDoor ==
  ASSUME DoorInv, DoorShape', CounterShape', NoOutageYet',
         \A k \in Ages : Through(k - 1)' <= Through(k)',
         Through(Span - 1)' + Cardinality(Late)' <= Limit + Room',
         \A t \in 1..Span : Counter'.ttl = t =>
           Through(Span - 1 - t)' + Cardinality(Late)' <= Room'
  PROVE  DoorInv'
  BY DEF DoorInv, Growing, TwoWindows, OneWindow

LEMMA ArriveKeeps ==
  ASSUME DoorInv, NEW w \in Workers, NEW request, ClientIp(request) = "customer",
         Arrive(w, request)
  PROVE  DoorInv'
<1>1. check' = [check EXCEPT ![w] = [pc |-> "setnx", key |-> "customer"]] /\ w \notin Late
      /\ UNCHANGED <<store, up, buckets, admitted, refused, outages, doorCrashes>>
  BY DEF Arrive, Late
<1>2. DoorShape
  BY DEF DoorInv
<1>3. /\ check' \in [Workers -> [pc : {"idle", "setnx", "incr", "over", "within"},
                                 key : {"customer"}]]
      /\ Cardinality(Late)' = Cardinality(Late)
  BY <1>1, <1>2, MovesOn
<1>4. DoorShape' /\ CounterShape' /\ NoOutageYet'
  BY <1>1, <1>3 DEF DoorInv, DoorShape, CounterShape, NoOutageYet, Counter
<1>5. Room' = Room /\ Counter' = Counter /\ \A k : Through(k)' = Through(k)
  BY <1>1, NothingPasses DEF Room, Used, Slack, Counter
<1> QED
  BY <1>3, <1>4, <1>5, NumbersKeepDoor DEF DoorInv, Growing, TwoWindows, OneWindow

\* What the counter holds after a command, for a worker that asks for the customer.
LEMMA StoreFollows ==
  ASSUME DoorShape, NEW c, c \in [count : 0..(Limit + 1), ttl : -1..Span],
         store' = [store EXCEPT !["customer"] = c]
  PROVE  /\ store' \in [Addresses -> [count : 0..(Limit + 1), ttl : -1..Span]]
         /\ Counter' = c
  BY DoorConstants DEF DoorShape, Counter

LEMMA SetNxKeeps ==
  ASSUME DoorInv, NEW w \in Workers, SetNx(w)
  PROVE  DoorInv'
<1>1. /\ check[w].pc = "setnx" /\ check[w].key = "customer" /\ w \notin Late /\ DoorShape
      /\ check[w] = [pc |-> "setnx", key |-> "customer"]
      /\ UNCHANGED <<up, buckets, outages, doorCrashes>>
  BY DEF DoorInv, DoorShape, SetNx, Late
<1>2. Slack' = Slack /\ NoOutageYet'
  BY <1>1 DEF Slack, DoorInv, NoOutageYet
<1>3. /\ Used \in 0..Limit /\ Slack \in Nat /\ Room \in Int
      /\ Cardinality(Late) \in Nat /\ Cardinality(Late) <= Cardinality(Workers) - 1
  BY <1>1, DoorNumbers, LateCounted
<1>4. CASE Counter = NoCounter
  <2>1. /\ store' = [store EXCEPT !["customer"] = Created] /\ Admit /\ Leaves(w)
    BY <1>1, <1>4 DEF SetNx, Counter
  <2>2. Created \in [count : 0..(Limit + 1), ttl : -1..Span] /\ Created.count = 1
        /\ Created.ttl = Span
    BY DoorConstants DEF Created
  <2>3. /\ store' \in [Addresses -> [count : 0..(Limit + 1), ttl : -1..Span]]
        /\ Counter' = Created
    BY <1>1, <2>1, <2>2, StoreFollows
  <2>4. /\ admitted' \in [Ages -> Nat] /\ refused' = FALSE
        /\ \A k \in -1..(Span - 1) :
             Through(k)' = IF k = -1 THEN Through(k) ELSE Through(k) + 1
    BY <1>1, <2>1, AdmitPassesThrough
  <2>5. /\ check' \in [Workers -> [pc : {"idle", "setnx", "incr", "over", "within"},
                                   key : {"customer"}]]
        /\ Cardinality(Late)' = Cardinality(Late)
    BY <1>1, <2>1, LeavingIsNotLate
  <2>6. DoorShape'
    BY <1>1, <2>3, <2>4, <2>5 DEF DoorShape
  <2>7. CounterShape'
    <3>1. Counter'.count = 1 /\ Counter'.ttl = Span
      BY <2>2, <2>3
    <3>2. Span \in 1..Span
      BY DoorConstants
    <3> QED
      BY <3>1, <3>2 DEF CounterShape
  <2>8. Used' = 1 /\ Used = 0 /\ Room' = Room + 1 /\ Counter'.ttl = Span
        /\ Room = Cardinality(Workers) - 2 + Slack
    <3>1. Used' = 1 /\ Used = 0
      BY <1>4, <2>2, <2>3, NoCounterTyped, DoorConstants DEF Used
    <3>2. /\ Room = Cardinality(Workers) - 2 + Used + Slack
          /\ Room' = Cardinality(Workers) - 2 + Used' + Slack'
      BY DEF Room
    <3>3. Cardinality(Workers) \in Nat /\ Counter'.ttl = Span
      BY <2>2, <2>3, DoorConstants
    <3> QED
      BY ONLY <1>2, <1>3, <3>1, <3>2, <3>3
  <2>9. ASSUME NEW k \in Ages PROVE Through(k - 1)' <= Through(k)'
    <3>1. k \in -1..(Span - 1) /\ k - 1 \in -1..(Span - 1) /\ k # -1
      BY DoorConstants
    <3>2. Through(k - 1) \in Int /\ Through(k) \in Int /\ Through(k - 1) <= Through(k)
      BY <1>1, <3>1, ThroughTyped DEF DoorInv, Growing
    <3> QED
      BY <2>4, <3>1, <3>2
  <2>10. Through(Span - 1)' + Cardinality(Late)' <= Limit + Room'
    <3>1. Through(Span - 1)' = Through(Span - 1) + 1 /\ Through(Span - 1) \in Int
      BY <1>1, <2>4, AgeIsInRange, ThroughTyped, DoorConstants
    <3>2. Through(Span - 1) + Cardinality(Late) <= Limit + Room
      BY DEF DoorInv, TwoWindows
    <3>3. Limit \in Nat
      BY DoorConstants
    <3>4. /\ Cardinality(Late)' = Cardinality(Late) /\ Cardinality(Late) \in Nat
          /\ Room' = Room + 1 /\ Room \in Int
      BY <1>3, <2>5, <2>8
    <3> QED
      BY ONLY <3>1, <3>2, <3>3, <3>4
  <2>11. ASSUME NEW t \in 1..Span, Counter'.ttl = t
         PROVE  Through(Span - 1 - t)' + Cardinality(Late)' <= Room'
    <3>1. Span - 1 - t = -1
      BY <2>8, <2>11, DoorConstants
    <3>2. Through(-1)' = 0
      BY <1>1, <2>4, AgeIsInRange, ThroughTyped
    <3>3. Through(Span - 1 - t)' = 0
      BY ONLY <3>1, <3>2
    <3>4. Cardinality(Late)' <= Cardinality(Workers) - 1 /\ Cardinality(Late)' \in Nat
      BY <1>3, <2>5
    <3>5. Room' = Cardinality(Workers) - 2 + Slack + 1 /\ Slack \in Nat /\ Cardinality(Workers) \in Nat
      BY <1>3, <2>8, DoorConstants
    <3> QED
      BY ONLY <3>3, <3>4, <3>5
  <2> QED
    BY <1>2, <2>6, <2>7, <2>9, <2>10, <2>11, NumbersKeepDoor
<1>5. CASE Counter # NoCounter
  <2>1. /\ check' = [check EXCEPT ![w] = [pc |-> "incr", key |-> "customer"]]
        /\ UNCHANGED <<store, admitted, refused>>
    BY <1>1, <1>5 DEF SetNx, Counter
  <2>2. /\ check' \in [Workers -> [pc : {"idle", "setnx", "incr", "over", "within"},
                                   key : {"customer"}]]
        /\ Cardinality(Late)' = Cardinality(Late)
    BY <1>1, <2>1, MovesOn
  <2>3. DoorShape' /\ CounterShape'
    BY <1>1, <2>1, <2>2 DEF DoorInv, DoorShape, CounterShape, Counter
  <2>4. Room' = Room /\ Counter' = Counter /\ \A k : Through(k)' = Through(k)
    BY <1>1, <1>2, <2>1, NothingPasses DEF Room, Used, Counter
  <2> QED
    BY <1>2, <2>2, <2>3, <2>4, NumbersKeepDoor DEF DoorInv, Growing, TwoWindows, OneWindow
<1> QED
  BY <1>4, <1>5

LEMMA IncrKeeps ==
  ASSUME DoorInv, NEW w \in Workers, Incr(w)
  PROVE  DoorInv'
<1> DEFINE c == Counted(Counter)
           pc == IF c.count > Limit THEN "over" ELSE "within"
<1>1. /\ check[w] = [pc |-> "incr", key |-> "customer"] /\ w \notin Late /\ DoorShape
      /\ UNCHANGED <<up, buckets, admitted, refused, outages, doorCrashes>>
  BY DEF DoorInv, DoorShape, Incr, Late
<1>2. store' = [store EXCEPT !["customer"] = c]
      /\ check' = [check EXCEPT ![w] = [pc |-> pc, key |-> "customer"]]
  <2>1. /\ check[w].key = "customer"
        /\ check \in [Workers -> [pc : {"idle", "setnx", "incr", "over", "within"},
                                  key : {"customer"}]]
    BY <1>1 DEF DoorShape
  <2>2. /\ store' = [store EXCEPT ![check[w].key] = Counted(@)]
        /\ check' = [check EXCEPT ![w].pc =
             IF Counted(store[check[w].key]).count > Limit THEN "over" ELSE "within"]
    BY DEF Incr
  <2>3. check' = [check EXCEPT ![w].pc = pc]
    BY <2>1, <2>2 DEF Counter
  <2>4. [check[w] EXCEPT !.pc = pc] = [pc |-> pc, key |-> "customer"]
    BY <1>1
  <2> HIDE DEF pc
  <2>5. check' = [check EXCEPT ![w] = [pc |-> pc, key |-> "customer"]]
    BY <2>1, <2>3, <2>4
  <2>6. store' = [store EXCEPT !["customer"] = c]
    BY <2>1, <2>2 DEF Counter
  <2> QED
    BY <2>5, <2>6
<1>3. /\ Used \in 0..Limit /\ Slack \in Nat /\ Room \in Int /\ Slack' = Slack
      /\ Counter \in [count : 0..(Limit + 1), ttl : -1..Span]
      /\ Cardinality(Late) \in Nat
  BY <1>1, DoorNumbers, LateCounted DEF Slack
<1>4. /\ c \in [count : 0..(Limit + 1), ttl : -1..Span] /\ c.count # 0
      /\ Counter = NoCounter => c.count = 1 /\ c.ttl = -1
      /\ Counter # NoCounter => /\ c.ttl = Counter.ttl
                                /\ c.count = IF Counter.count > Limit THEN Counter.count
                                             ELSE Counter.count + 1
  <2>1. CASE Counter = NoCounter
    <3>1. c = [count |-> 1, ttl |-> -1]
      BY <2>1 DEF Counted, Immortal
    <3>2. 1 \in 0..(Limit + 1) /\ -1 \in -1..Span
      BY DoorConstants
    <3> HIDE DEF c
    <3> QED
      BY <2>1, <3>1, <3>2
  <2>2. CASE Counter # NoCounter
    <3>1. c = [Counter EXCEPT !.count = IF @ > Limit THEN @ ELSE @ + 1]
      BY <2>2 DEF Counted
    <3>2. Counter.count \in 0..(Limit + 1) /\ Counter.ttl \in -1..Span
      BY <1>3
    <3> HIDE DEF c
    <3>3. c.ttl = Counter.ttl
          /\ c.count = IF Counter.count > Limit THEN Counter.count ELSE Counter.count + 1
      BY <1>3, <3>1
    <3>4. c \in [count : 0..(Limit + 1), ttl : -1..Span]
      <4>1. Limit \in Nat
        BY DoorConstants
      <4>2. c.count \in 0..(Limit + 1)
        BY ONLY <3>2, <3>3, <4>1
      <4>3. c = [Counter EXCEPT !.count = c.count]
        BY <1>3, <3>1
      <4> QED
        BY ONLY <1>3, <4>2, <4>3
    <3>5. c.count # 0
      BY <3>2, <3>3, DoorConstants
    <3> QED
      BY <2>2, <3>3, <3>4, <3>5
  <2> QED
    BY <2>1, <2>2
<1>5. pc \in {"over", "within"} /\ (pc = "within" <=> c.count <= Limit)
  BY <1>4, DoorConstants
<1> HIDE DEF c, pc
<1>6. /\ store' \in [Addresses -> [count : 0..(Limit + 1), ttl : -1..Span]] /\ Counter' = c
  BY <1>1, <1>2, <1>4, StoreFollows
<1>7. /\ check' \in [Workers -> [pc : {"idle", "setnx", "incr", "over", "within"},
                                 key : {"customer"}]]
      /\ Cardinality(Late)' = IF pc = "within" THEN Cardinality(Late) + 1 ELSE Cardinality(Late)
  BY <1>1, <1>2, <1>5, MovesOn
<1>8. DoorShape' /\ NoOutageYet'
  BY <1>1, <1>6, <1>7 DEF DoorInv, DoorShape, NoOutageYet
<1>9. CounterShape'
  BY <1>4, <1>6, NoCounterTyped DEF DoorInv, CounterShape
<1>10. Used' = (IF pc = "within" THEN Used + 1 ELSE Limit)
  <2>1. Counter = NoCounter => Counter.count = 0
    BY NoCounterTyped
  <2>2. Counter.count \in Nat /\ c.count \in Nat
    BY <1>3, <1>4
  <2>3. CASE Counter = NoCounter
    BY <1>4, <1>5, <1>6, <2>1, <2>2, <2>3, DoorConstants DEF Used
  <2>4. CASE Counter # NoCounter
    BY <1>4, <1>5, <1>6, <2>2, <2>4, DoorConstants DEF Used
  <2> QED
    BY <2>3, <2>4
<1>11. Room' = Room + (Used' - Used) /\ Used' \in Int
  <2>1. Used' \in Int
    BY <1>3, <1>10, DoorConstants
  <2>2. Room = Cardinality(Workers) - 2 + Used + Slack
        /\ Room' = Cardinality(Workers) - 2 + Used' + Slack
    BY <1>3 DEF Room
  <2>3. Used \in Int /\ Slack \in Int /\ Cardinality(Workers) \in Int
    BY <1>3, DoorConstants
  <2> QED
    BY ONLY <2>1, <2>2, <2>3
<1>12. Cardinality(Late)' - Cardinality(Late) <= Used' - Used /\ Cardinality(Late)' \in Int
  BY <1>3, <1>7, <1>10, DoorConstants
<1>13. \A k : Through(k)' = Through(k)
  BY <1>1, NothingPasses
<1>14. Through(Span - 1)' + Cardinality(Late)' <= Limit + Room'
  <2>1. Through(Span - 1) \in Int
    BY <1>1, AgeIsInRange, ThroughTyped, DoorConstants
  <2>2. Through(Span - 1) + Cardinality(Late) <= Limit + Room
    BY DEF DoorInv, TwoWindows
  <2>3. Through(Span - 1)' = Through(Span - 1)
    BY <1>13
  <2>4. Used \in Int /\ Room \in Int /\ Limit \in Int /\ Cardinality(Late) \in Int
    BY <1>3, DoorConstants
  <2> QED
    BY ONLY <1>11, <1>12, <2>1, <2>2, <2>3, <2>4
<1>15. ASSUME NEW t \in 1..Span, Counter'.ttl = t
       PROVE  Through(Span - 1 - t)' + Cardinality(Late)' <= Room'
  <2>1. Counter.ttl = t
    BY <1>4, <1>6, <1>15
  <2>2. Through(Span - 1 - t) \in Int
    BY <1>1, AgeIsInRange, ThroughTyped
  <2>3. Through(Span - 1 - t) + Cardinality(Late) <= Room
    BY <2>1 DEF DoorInv, OneWindow
  <2> QED
    BY <1>3, <1>11, <1>12, <1>13, <2>1, <2>2, <2>3
<1> QED
  BY <1>8, <1>9, <1>13, <1>14, <1>15, NumbersKeepDoor DEF DoorInv, Growing

LEMMA WithinIsSum == ASSUME NEW f PROVE Within(f) = Sum(f, 0..(Span - 1))
  BY DEF Within, Sum, MapThenSumSet, Ages

\* The same of the next state.
ThroughIsInt == \A k \in -1..(Span - 1) : Through(k) \in Int
LEMMA ThroughIsTyped == DoorShape => ThroughIsInt
  BY ThroughTyped DEF ThroughIsInt
LEMMA ThroughStaysTyped == DoorShape' => ThroughIsInt'
  BY ThroughIsTyped, PTL
LEMMA ThroughStaysInt ==
  ASSUME DoorShape', NEW k \in -1..(Span - 1)
  PROVE  Through(k)' \in Int
  BY ThroughStaysTyped DEF ThroughIsInt

\* What the counter let through is ordered by age when nothing but the newest changes.
LEMMA RestoredTyped ==
  ASSUME NEW n \in [count : 0..(Limit + 1), ttl : -1..Span]
  PROVE  /\ Restored(n) \in [count : 0..(Limit + 1), ttl : -1..Span]
         /\ Restored(n).count = n.count
         /\ n.ttl = -1 => Restored(n).ttl = Span
         /\ n.ttl # -1 => Restored(n) = n
<1>1. Span \in -1..Span
  BY DoorConstants
<1>2. CASE n.ttl = -1
  <2>1. Restored(n) = [n EXCEPT !.ttl = Span]
    BY <1>2 DEF Restored, Immortal
  <2> QED
    BY <1>1, <1>2, <2>1
<1>3. CASE n.ttl # -1
  BY <1>3 DEF Restored, Immortal
<1> QED
  BY <1>2, <1>3

LEMMA TtlKeeps ==
  ASSUME DoorInv, NEW w \in Workers, Ttl(w)
  PROVE  DoorInv'
<1> DEFINE c == Restored(Counter)
<1>1. /\ check[w].key = "customer" /\ DoorShape /\ check[w].pc \in {"over", "within"}
      /\ Leaves(w) /\ UNCHANGED <<up, buckets, outages, doorCrashes>>
      /\ IF check[w].pc = "within" THEN Admit ELSE Refuse429
      /\ store' = [store EXCEPT !["customer"] = c]
  BY DEF DoorInv, DoorShape, Ttl, Counter
<1>2. /\ Used \in 0..Limit /\ Slack \in Nat /\ Room \in Int /\ Slack' = Slack
      /\ Counter \in [count : 0..(Limit + 1), ttl : -1..Span]
      /\ Cardinality(Late) \in Nat /\ (Counter.count # 0 => 1 <= Used)
  BY <1>1, DoorNumbers, LateCounted DEF Slack
<1>3. /\ c \in [count : 0..(Limit + 1), ttl : -1..Span] /\ c.count = Counter.count
      /\ Counter.ttl = -1 => c.ttl = Span
      /\ Counter.ttl # -1 => c = Counter
  BY <1>2, RestoredTyped
<1> HIDE DEF c
<1>4. /\ store' \in [Addresses -> [count : 0..(Limit + 1), ttl : -1..Span]] /\ Counter' = c
  BY <1>1, <1>3, StoreFollows
<1>5. /\ check' \in [Workers -> [pc : {"idle", "setnx", "incr", "over", "within"},
                                 key : {"customer"}]]
      /\ Cardinality(Late)' = IF w \in Late THEN Cardinality(Late) - 1 ELSE Cardinality(Late)
      /\ Cardinality(Late)' <= Cardinality(Workers) - 1
  BY <1>1, LeavingIsNotLate
<1>6. /\ \A k \in -1..(Span - 1) : Through(k) \in Int
      /\ Through(-1) = 0 /\ \A k \in Ages : Through(k - 1) <= Through(k)
  BY <1>1, AgeIsInRange, ThroughTyped DEF DoorInv, Growing
<1>7. /\ Through(-1)' = 0 /\ admitted' \in [Ages -> Nat] /\ refused' \in BOOLEAN
      /\ \A k \in -1..(Span - 1) :
           Through(k)' + Cardinality(Late)' <= Through(k) + Cardinality(Late)
      /\ \A k \in Ages : Through(k - 1)' <= Through(k)'
  <2>1. CASE check[w].pc = "within"
    <3>1. /\ admitted' \in [Ages -> Nat] /\ refused' = FALSE
          /\ \A k \in -1..(Span - 1) :
               Through(k)' = IF k = -1 THEN Through(k) ELSE Through(k) + 1
      BY <1>1, <2>1, AdmitPassesThrough
    <3>2. Cardinality(Late)' = Cardinality(Late) - 1
      BY <1>5, <2>1 DEF Late
    <3>3. ASSUME NEW k \in -1..(Span - 1)
          PROVE  Through(k)' + Cardinality(Late)' <= Through(k) + Cardinality(Late)
      BY <1>2, <1>6, <3>1, <3>2
    <3>4. ASSUME NEW k \in Ages PROVE Through(k - 1)' <= Through(k)'
      <4>1. k \in -1..(Span - 1) /\ k - 1 \in -1..(Span - 1) /\ k # -1
        BY DoorConstants
      <4> QED
        BY <1>6, <3>1, <4>1
    <3> QED
      BY <1>6, <3>1, <3>3, <3>4, AgeIsInRange
  <2>2. CASE check[w].pc = "over"
    <3>1. refused' = TRUE /\ UNCHANGED <<buckets, admitted>>
      BY <1>1, <2>2 DEF Refuse429
    <3>2. \A k : Through(k)' = Through(k)
      BY <3>1, NothingPasses
    <3>3. Cardinality(Late)' = Cardinality(Late)
      BY <1>5, <2>2 DEF Late
    <3>4. admitted' \in [Ages -> Nat]
      BY <1>1, <3>1 DEF DoorShape
    <3>5. ASSUME NEW k \in -1..(Span - 1)
          PROVE  Through(k)' + Cardinality(Late)' <= Through(k) + Cardinality(Late)
      BY <1>2, <1>6, <3>2, <3>3
    <3> QED
      BY <1>6, <3>1, <3>2, <3>4, <3>5
  <2> QED
    BY <1>1, <2>1, <2>2
<1>8. DoorShape'
  BY <1>1, <1>4, <1>5, <1>7 DEF DoorShape
<1>9. CounterShape' /\ NoOutageYet'
  <2>1. CounterShape
    BY DEF DoorInv
  <2>2. NoOutageYet'
    BY <1>1 DEF DoorInv, NoOutageYet
  <2> QED
    BY <1>2, <1>3, <1>4, <2>1, <2>2, NoCounterTyped, DoorConstants DEF CounterShape
<1>10. Used' = Used /\ Room' = Room
  <2>1. Used' = Used
    BY <1>3, <1>4 DEF Used
  <2> QED
    BY <1>2, <2>1 DEF Room
<1>11. Through(Span - 1)' + Cardinality(Late)' <= Limit + Room'
  <2>1. Through(Span - 1) + Cardinality(Late) <= Limit + Room
    BY DEF DoorInv, TwoWindows
  <2>2. Through(Span - 1)' + Cardinality(Late)' <= Through(Span - 1) + Cardinality(Late)
    BY <1>7, AgeIsInRange, DoorConstants
  <2>3. Through(Span - 1) \in Int /\ Through(Span - 1)' \in Int
    BY <1>1, <1>8, AgeIsInRange, ThroughTyped, ThroughStaysInt, DoorConstants
  <2>4. Cardinality(Late)' \in Int
    BY <1>2, <1>5
  <2> QED
    BY <1>2, <1>10, <2>1, <2>2, <2>3, <2>4, DoorConstants
<1>12. ASSUME NEW t \in 1..Span, Counter'.ttl = t
       PROVE  Through(Span - 1 - t)' + Cardinality(Late)' <= Room'
  <2>1. CASE Counter.ttl = -1
    <3>1. Counter.count # 0
      BY <1>2, <2>1, NoCounterTyped DEF DoorInv, CounterShape
    <3>2. Span - 1 - t = -1
      BY <1>3, <1>4, <1>12, <2>1, DoorConstants
    <3>3. Room = Cardinality(Workers) - 2 + Used + Slack /\ 1 <= Used /\ Used \in Int
          /\ Slack \in Nat /\ Cardinality(Workers) \in Int
      BY <1>2, <3>1, DoorConstants DEF Room
    <3>4. Cardinality(Late)' \in Int
      BY <1>2, <1>5
    <3>5. Cardinality(Late)' <= Room
      BY ONLY <1>5, <3>3, <3>4
    <3> QED
      BY <1>7, <1>10, <3>2, <3>4, <3>5
  <2>2. CASE Counter.ttl # -1
    <3>1. Counter.ttl = t
      BY <1>3, <1>4, <1>12, <2>2
    <3>2. Through(Span - 1 - t) + Cardinality(Late) <= Room
      BY <3>1 DEF DoorInv, OneWindow
    <3>3. /\ Through(Span - 1 - t)' + Cardinality(Late)'
               <= Through(Span - 1 - t) + Cardinality(Late)
          /\ Through(Span - 1 - t) \in Int /\ Through(Span - 1 - t)' \in Int
      BY <1>1, <1>7, <1>8, AgeIsInRange, ThroughTyped, ThroughStaysInt
    <3>4. Cardinality(Late)' \in Int
      BY <1>2, <1>5
    <3> QED
      BY <1>2, <1>10, <3>2, <3>3, <3>4
  <2> QED
    BY <2>1, <2>2
<1> QED
  BY <1>7, <1>8, <1>9, <1>11, <1>12, NumbersKeepDoor

\* When the counter stays as it is: what counts is how Through and Late move against Slack.
LEMMA SameCounterKeepsDoor ==
  ASSUME DoorInv, UNCHANGED store, DoorShape', NoOutageYet',
         Slack \in Nat, Slack' \in Nat, Cardinality(Late)' \in Int, Cardinality(Late)' <= Cardinality(Late),
         \A k \in Ages : Through(k - 1)' <= Through(k)',
         \A k \in -1..(Span - 1) : Through(k)' - Through(k) <= Slack' - Slack
  PROVE  DoorInv'
<1>1. DoorShape /\ Counter' = Counter /\ Used' = Used /\ CounterShape'
  BY DEF DoorInv, Counter, Used, CounterShape
<1>2. Room \in Int /\ Cardinality(Late) \in Int /\ Room' = Room + (Slack' - Slack)
      /\ Limit \in Int
  <2>1. Used \in Int /\ Cardinality(Workers) \in Int /\ Cardinality(Late) \in Int
        /\ Limit \in Int
    BY <1>1, DoorNumbers, LateCounted, DoorConstants
  <2>2. Room = Cardinality(Workers) - 2 + Used + Slack
        /\ Room' = Cardinality(Workers) - 2 + Used + Slack'
    BY <1>1 DEF Room
  <2> QED
    BY <2>1, <2>2
<1>3. ASSUME NEW k \in -1..(Span - 1), NEW n \in Int,
             Through(k) + Cardinality(Late) <= n + Room
      PROVE  Through(k)' + Cardinality(Late)' <= n + Room'
  <2>1. Through(k) \in Int /\ Through(k)' \in Int
    BY <1>1, ThroughTyped, ThroughStaysInt
  <2> QED
    BY <1>2, <1>3, <2>1
<1>4. Through(Span - 1)' + Cardinality(Late)' <= Limit + Room'
  <2>1. Through(Span - 1) + Cardinality(Late) <= Limit + Room
    BY DEF DoorInv, TwoWindows
  <2> QED
    BY <1>2, <1>3, <2>1, AgeIsInRange, DoorConstants
<1>5. ASSUME NEW t \in 1..Span, Counter'.ttl = t
      PROVE  Through(Span - 1 - t)' + Cardinality(Late)' <= Room'
  <2>1. Through(Span - 1 - t) + Cardinality(Late) <= 0 + Room
    BY <1>1, <1>2, <1>5 DEF DoorInv, OneWindow
  <2>2. Through(Span - 1 - t)' + Cardinality(Late)' <= 0 + Room'
    BY <1>3, <2>1, AgeIsInRange
  <2> QED
    BY <1>2, <2>2
<1> QED
  BY <1>1, <1>4, <1>5, NumbersKeepDoor

LEMMA SlackSteps ==
  ASSUME DoorShape
  PROVE  /\ outages = 0 => Slack = 0
         /\ outages # 0 => Slack = Limit * (outages + doorCrashes)
         /\ outages \in Nat /\ doorCrashes \in Nat
         /\ \A m \in Nat : Limit * (m + 1) = Limit * m + Limit /\ Limit * m \in Nat
<1>1. \A m \in Nat : Limit * (m + 1) = Limit * m + Limit /\ Limit * m \in Nat
  BY DoorConstants
<1> QED
  BY <1>1 DEF Slack, DoorShape

LEMMA FallBackKeeps ==
  ASSUME DoorInv, NEW w \in Workers, FallBack(w)
  PROVE  DoorInv'
<1> DEFINE b == buckets[w]["customer"]
<1>1. /\ DoorShape /\ check[w].key = "customer" /\ ~up
      /\ Leaves(w) /\ UNCHANGED <<store, up, outages, doorCrashes>>
      /\ IF Within(b) >= Limit
         THEN Refuse429 /\ UNCHANGED buckets
         ELSE Admit /\ buckets' = [buckets EXCEPT ![w]["customer"][0] = @ + 1]
  BY DEF DoorInv, DoorShape, FallBack
<1>2. outages # 0
  BY <1>1 DEF DoorInv, NoOutageYet
<1>3. /\ check' \in [Workers -> [pc : {"idle", "setnx", "incr", "over", "within"},
                                 key : {"customer"}]]
      /\ Cardinality(Late)' = IF w \in Late THEN Cardinality(Late) - 1 ELSE Cardinality(Late)
      /\ Cardinality(Late) \in Nat
  BY <1>1, LeavingIsNotLate, LateCounted
<1>4. Slack' = Slack /\ Slack \in Nat /\ NoOutageYet'
  BY <1>1, <1>2, DoorNumbers DEF Slack, NoOutageYet
<1>5. /\ \A k \in -1..(Span - 1) : Through(k) \in Int
      /\ \A k \in Ages : Through(k - 1) <= Through(k)
  BY <1>1, ThroughTyped DEF DoorInv, Growing
<1>6. /\ \A k \in -1..(Span - 1) : Through(k)' = Through(k)
      /\ DoorShape'
  <2>1. CASE Within(b) >= Limit
    <3>1. refused' = TRUE /\ UNCHANGED <<buckets, admitted>>
      BY <1>1, <2>1 DEF Refuse429
    <3>2. \A k : Through(k)' = Through(k)
      BY <3>1, NothingPasses
    <3>3. DoorShape'
      BY <1>1, <1>3, <3>1 DEF DoorShape
    <3> QED
      BY <3>2, <3>3
  <2>2. CASE ~(Within(b) >= Limit)
    <3>1. /\ buckets' = [buckets EXCEPT ![w]["customer"][0] = @ + 1]
          /\ admitted' = [admitted EXCEPT ![0] = @ + 1] /\ refused' = FALSE
      BY <1>1, <2>2 DEF Admit
    <3>2. /\ buckets \in [Workers -> [Addresses -> [Ages -> Nat]]] /\ admitted \in [Ages -> Nat]
          /\ b \in [Ages -> Nat] /\ "customer" \in Addresses /\ 0 \in Ages
      <4>1. buckets \in [Workers -> [Addresses -> [Ages -> Nat]]] /\ admitted \in [Ages -> Nat]
        BY <1>1 DEF DoorShape
      <4>2. b \in [Ages -> Nat]
        BY <4>1, DoorConstants
      <4> QED
        BY <4>1, <4>2, DoorConstants
    <3> DEFINE c == [b EXCEPT ![0] = @ + 1]
    <3>3. /\ buckets' = [buckets EXCEPT ![w] = [buckets[w] EXCEPT !["customer"] = c]]
          /\ c \in [Ages -> Nat]
      BY <3>1, <3>2
    <3>4. \A k \in -1..(Span - 1) :
            Sum(c, 0..k) = IF k = -1 THEN Sum(b, 0..k) ELSE Sum(b, 0..k) + 1
      BY <3>2, OneMore
    <3> HIDE DEF b, c
    <3>5. /\ buckets' \in [Workers -> [Addresses -> [Ages -> Nat]]]
          /\ buckets'[w]["customer"] = c
          /\ \A x \in Workers \ {w} : buckets'[x] = buckets[x]
          /\ \A a \in Addresses \ {"customer"} : buckets'[w][a] = buckets[w][a]
      BY <3>2, <3>3
    <3>6. ASSUME NEW k \in -1..(Span - 1) PROVE Through(k)' = Through(k)
      <4>1. Own(k)' = Own(k) + Sum(buckets'[w]["customer"], 0..k)
                             - Sum(buckets[w]["customer"], 0..k)
        BY <1>1, <3>5, OwnFollows
      <4>2. Own(k)' = Own(k) + Sum(c, 0..k) - Sum(b, 0..k)
        BY <3>5, <4>1 DEF b
      <4>3. Sum(b, 0..k) \in Int /\ Own(k) \in Int /\ Sum(admitted, 0..k) \in Int
        BY <1>1, <3>2, OwnTyped, BucketSums
      <4>4. Sum(admitted', 0..k)
              = IF k = -1 THEN Sum(admitted, 0..k) ELSE Sum(admitted, 0..k) + 1
        BY <3>1, <3>2, OneMore
      <4>5. /\ Through(k)' = Sum(admitted', 0..k) - Own(k)'
            /\ Through(k) = Sum(admitted, 0..k) - Own(k)
        BY DEF Through
      <4> QED
        BY <3>4, <4>2, <4>3, <4>4, <4>5
    <3>7. ASSUME NEW x \in Workers, NEW a \in Addresses PROVE Within(buckets'[x][a]) <= Limit
      <4>1. Within(buckets[x][a]) <= Limit
        BY <1>1 DEF DoorShape
      <4>2. CASE x = w /\ a = "customer"
        <5>1. Within(c) = Sum(b, 0..(Span - 1)) + 1 /\ Within(b) = Sum(b, 0..(Span - 1))
          <6>1. Span - 1 \in -1..(Span - 1) /\ Span - 1 # -1
            BY DoorConstants
          <6> QED
            BY <3>4, <6>1, WithinIsSum
        <5>2. Within(b) \in Int /\ Limit \in Int
          <6>1. Sum(b, 0..(Span - 1)) \in Int
            BY <3>2, AgeIsInRange, BucketSums, DoorConstants
          <6> QED
            BY <5>1, <6>1, DoorConstants
        <5>3. Within(c) <= Limit
          BY <2>2, <5>1, <5>2
        <5> QED
          BY <3>5, <4>2, <5>3
      <4>3. CASE ~(x = w /\ a = "customer")
        BY <3>5, <4>1, <4>3
      <4> QED
        BY <4>2, <4>3
    <3>8. admitted' \in [Ages -> Nat]
      BY <3>1, <3>2
    <3>9. DoorShape'
      BY <1>1, <1>3, <3>1, <3>5, <3>7, <3>8 DEF DoorShape
    <3> QED
      BY <3>6, <3>9
  <2> QED
    BY <2>1, <2>2
<1>7. \A k \in Ages : Through(k - 1)' <= Through(k)'
  BY <1>5, <1>6, AgeIsInRange
<1>8. \A k \in -1..(Span - 1) : Through(k)' - Through(k) <= Slack' - Slack
  BY <1>4, <1>5, <1>6
<1> QED
  BY <1>1, <1>3, <1>4, <1>6, <1>7, <1>8, SameCounterKeepsDoor

LEMMA RedisReturnsKeeps ==
  ASSUME DoorInv, RedisReturns
  PROVE  DoorInv'
<1>1. /\ up' = TRUE /\ DoorShape
      /\ UNCHANGED <<store, buckets, check, admitted, refused, outages, doorCrashes>>
  BY DEF RedisReturns, DoorInv
<1>2. DoorShape' /\ NoOutageYet' /\ Slack' = Slack /\ Slack \in Nat /\ Late' = Late
      /\ Cardinality(Late) \in Nat
  BY <1>1, DoorNumbers, LateCounted DEF DoorInv, DoorShape, NoOutageYet, Slack, Late
<1>3. /\ \A k : Through(k)' = Through(k)
      /\ \A k \in -1..(Span - 1) : Through(k) \in Int
      /\ \A k \in Ages : Through(k - 1) <= Through(k)
  BY <1>1, NothingPasses, ThroughTyped DEF DoorInv, Growing
<1>4. \A k \in -1..(Span - 1) : Through(k)' - Through(k) <= Slack' - Slack
  BY <1>2, <1>3
<1> QED
  BY <1>1, <1>2, <1>3, <1>4, SameCounterKeepsDoor

LEMMA WorkerDiesKeeps ==
  ASSUME DoorInv, NEW w \in Workers, WorkerDies(w)
  PROVE  DoorInv'
<1> DEFINE b == buckets[w]["customer"]
           none == [g \in Ages |-> 0]
<1>1. /\ DoorShape /\ Leaves(w) /\ doorCrashes' = doorCrashes + 1
      /\ UNCHANGED <<store, up, admitted, refused, outages>>
      /\ buckets' = [buckets EXCEPT ![w] = [a \in Addresses |-> none]]
  BY DEF DoorInv, WorkerDies
<1>2. /\ buckets \in [Workers -> [Addresses -> [Ages -> Nat]]] /\ b \in [Ages -> Nat]
      /\ none \in [Ages -> Nat] /\ \A g \in Ages : none[g] = 0
      /\ Within(b) <= Limit
  <2>1. "customer" \in Addresses
    BY DoorConstants
  <2>2. /\ buckets \in [Workers -> [Addresses -> [Ages -> Nat]]]
        /\ \A v \in Workers, a \in Addresses : Within(buckets[v][a]) <= Limit
    BY <1>1 DEF DoorShape
  <2>3. b \in [Ages -> Nat]
    BY ONLY <2>1, <2>2, w \in Workers
  <2>4. none \in [Ages -> Nat] /\ \A g \in Ages : none[g] = 0
    OBVIOUS
  <2> QED
    BY <2>1, <2>2, <2>3, <2>4
<1>3. \A k \in -1..(Span - 1) : Sum(none, 0..k) = 0
  <2>1. ASSUME NEW k \in -1..(Span - 1) PROVE Sum(none, 0..k) = 0
    <3>1. IsFiniteSet(0..k) /\ 0..k \subseteq Ages
      BY <1>2, BucketSums
    <3>2. \A g \in 0..k : none[g] = 0
      BY <3>1
    <3> QED
      BY ONLY <3>1, <3>2, SumZero
  <2> QED
    BY <2>1
<1> HIDE DEF b, none
<1>4. /\ buckets' \in [Workers -> [Addresses -> [Ages -> Nat]]]
      /\ \A a \in Addresses : buckets'[w][a] = none
      /\ \A x \in Workers \ {w} : buckets'[x] = buckets[x]
  BY <1>1, <1>2
<1>5. /\ check' \in [Workers -> [pc : {"idle", "setnx", "incr", "over", "within"},
                                 key : {"customer"}]]
      /\ Cardinality(Late)' = IF w \in Late THEN Cardinality(Late) - 1 ELSE Cardinality(Late)
      /\ Cardinality(Late) \in Nat
  BY <1>1, LeavingIsNotLate, LateCounted
<1>6. ASSUME NEW k \in -1..(Span - 1)
      PROVE  /\ Through(k)' = Through(k) + Sum(b, 0..k) /\ Through(k) \in Int
             /\ Sum(b, 0..k) \in Int /\ Sum(b, 0..k) <= Limit
             /\ outages = 0 => Sum(b, 0..k) = 0
  <2>1. Own(k)' = Own(k) + Sum(none, 0..k) - Sum(b, 0..k)
    <3>1. Own(k)' = Own(k) + Sum(buckets'[w]["customer"], 0..k)
                           - Sum(buckets[w]["customer"], 0..k)
      BY <1>1, <1>4, OwnFollows
    <3> QED
      BY <1>4, <3>1, DoorConstants DEF b
  <2>2. /\ Sum(b, 0..k) \in Int /\ Sum(b, 0..k) <= Within(b) /\ Sum(admitted, 0..k) \in Int
        /\ Own(k) \in Int /\ Through(k) \in Int
        /\ IsFiniteSet(0..k) /\ 0..k \subseteq Ages
    BY <1>1, <1>2, OwnTyped, ThroughTyped, BucketSums DEF DoorShape
  <2>3. Sum(b, 0..k) <= Limit
    <3>1. Within(b) \in Int
      <4>1. Sum(b, 0..(Span - 1)) \in Int
        BY <1>2, AgeIsInRange, BucketSums, DoorConstants
      <4> QED
        BY <4>1, WithinIsSum
    <3> QED
      BY <1>2, <2>2, <3>1, DoorConstants
  <2>4. outages = 0 => Sum(b, 0..k) = 0
    <3>1. outages = 0 => \A g \in 0..k : b[g] = 0
      BY <2>2 DEF DoorInv, NoOutageYet, b
    <3> QED
      BY <2>2, <3>1, SumZero
  <2>5. /\ Through(k)' = Sum(admitted, 0..k) - Own(k)'
        /\ Through(k) = Sum(admitted, 0..k) - Own(k)
    BY <1>1 DEF Through
  <2>6. Through(k)' = Through(k) + Sum(b, 0..k)
    BY <1>3, <2>1, <2>2, <2>5
  <2> QED
    BY <2>2, <2>3, <2>4, <2>6
<1>7. ASSUME NEW x \in Workers, NEW a \in Addresses PROVE Within(buckets'[x][a]) <= Limit
  <2>1. Within(buckets[x][a]) <= Limit
    BY <1>1 DEF DoorShape
  <2>2. Within(none) <= Limit
    <3>1. Span - 1 \in -1..(Span - 1)
      BY AgeIsInRange, DoorConstants
    <3>2. Within(none) = 0
      BY <1>3, <3>1, WithinIsSum
    <3> QED
      BY <3>2, DoorConstants
  <2> QED
    BY <1>4, <2>1, <2>2
<1>8. DoorShape'
  <2>1. doorCrashes' \in Nat
    BY <1>1 DEF DoorShape
  <2> QED
    BY <1>1, <1>4, <1>5, <1>7, <2>1 DEF DoorShape
<1>9. NoOutageYet'
  <2>1. ASSUME outages = 0, NEW x \in Workers, NEW g \in Ages
        PROVE  buckets'[x]["customer"][g] = 0
    <3>1. CASE x = w
      BY <1>2, <1>4, <3>1, DoorConstants
    <3>2. CASE x # w
      BY <1>4, <2>1, <3>2 DEF DoorInv, NoOutageYet
    <3> QED
      BY <3>1, <3>2
  <2> QED
    BY <1>1, <2>1 DEF DoorInv, NoOutageYet
<1>10. Slack \in Nat /\ Slack' \in Nat
       /\ Slack' = IF outages = 0 THEN Slack ELSE Slack + Limit
  <2>1. Slack \in Nat
    BY <1>1, DoorNumbers
  <2>2. CASE outages = 0
    BY <1>1, <2>1, <2>2 DEF Slack
  <2>3. CASE outages # 0
    <3>1. outages + doorCrashes \in Nat /\ outages + doorCrashes' = (outages + doorCrashes) + 1
      BY <1>1 DEF DoorShape
    <3>2. Slack' = Limit * (outages + doorCrashes')
          /\ Slack = Limit * (outages + doorCrashes)
      BY <1>1, <2>3 DEF Slack
    <3>3. Limit * ((outages + doorCrashes) + 1) = Limit * (outages + doorCrashes) + Limit
      BY <1>1, <3>1, SlackSteps
    <3> QED
      BY <2>1, <2>3, <3>1, <3>2, <3>3, DoorConstants
  <2> QED
    BY <2>2, <2>3
<1>11. \A k \in Ages : Through(k - 1)' <= Through(k)'
  <2>1. ASSUME NEW k \in Ages PROVE Through(k - 1)' <= Through(k)'
    <3>1. k \in -1..(Span - 1) /\ k - 1 \in -1..(Span - 1) /\ k # -1
      BY DoorConstants
    <3>2. Through(k - 1) <= Through(k)
      BY DEF DoorInv, Growing
    <3>3. Sum(b, 0..k) = Sum(b, 0..(k - 1)) + b[k] /\ b[k] \in Nat
      BY <1>2, <3>1, BucketSums
    <3> QED
      BY <1>6, <3>1, <3>2, <3>3
  <2> QED
    BY <2>1
<1>12. \A k \in -1..(Span - 1) : Through(k)' - Through(k) <= Slack' - Slack
  <2>1. ASSUME NEW k \in -1..(Span - 1) PROVE Through(k)' - Through(k) <= Slack' - Slack
    <3>1. Through(k)' - Through(k) = Sum(b, 0..k)
      BY <1>6
    <3> QED
      BY <1>6, <1>10, <3>1, DoorConstants
  <2> QED
    BY <2>1
<1> QED
  BY <1>1, <1>5, <1>8, <1>9, <1>10, <1>11, <1>12, SameCounterKeepsDoor

LEMMA RedisFailsKeeps ==
  ASSUME DoorInv, RedisFails
  PROVE  DoorInv'
<1>1. /\ DoorShape /\ outages' = outages + 1 /\ up' = FALSE
      /\ store' \in {store, [a \in Addresses |-> NoCounter]}
      /\ UNCHANGED <<buckets, check, admitted, refused, doorCrashes>>
  BY DEF RedisFails, DoorInv
<1>2. /\ outages \in Nat /\ doorCrashes \in Nat /\ Slack \in Nat /\ outages' \in Nat
      /\ outages' # 0
  BY <1>1, DoorNumbers DEF DoorShape
<1>3. Slack' \in Nat /\ Slack' >= Slack + Limit
  <2>1. Slack' = Limit * ((outages + doorCrashes) + 1)
    <3>1. outages' + doorCrashes' = (outages + doorCrashes) + 1
      BY <1>1, <1>2
    <3>2. Slack' = Limit * (outages' + doorCrashes')
      BY <1>2 DEF Slack
    <3> QED
      BY ONLY <3>1, <3>2
  <2>2. /\ Limit * ((outages + doorCrashes) + 1) = Limit * (outages + doorCrashes) + Limit
        /\ Limit * (outages + doorCrashes) \in Nat
    BY <1>1, <1>2, SlackSteps
  <2>3. Slack <= Limit * (outages + doorCrashes)
    BY <1>1, <1>2, <2>2, SlackSteps
  <2> QED
    BY <1>2, <2>1, <2>2, <2>3, DoorConstants
<1>4. Late' = Late /\ Cardinality(Late) \in Nat
  BY <1>1, LateCounted DEF Late
<1>5. /\ \A k : Through(k)' = Through(k)
      /\ \A k \in -1..(Span - 1) : Through(k) \in Int
      /\ \A k \in Ages : Through(k - 1) <= Through(k)
  BY <1>1, NothingPasses, ThroughTyped DEF DoorInv, Growing
<1>6. NoOutageYet'
  BY <1>2 DEF NoOutageYet
<1>7. CASE store' = store
  <2>1. DoorShape'
    BY <1>1, <1>2, <1>7 DEF DoorShape
  <2>2. \A k \in -1..(Span - 1) : Through(k)' - Through(k) <= Slack' - Slack
    BY <1>2, <1>3, <1>5, DoorConstants
  <2> QED
    BY <1>2, <1>3, <1>4, <1>5, <1>6, <1>7, <2>1, <2>2, SameCounterKeepsDoor
<1>8. CASE store' = [a \in Addresses |-> NoCounter]
  <2>1. store' \in [Addresses -> [count : 0..(Limit + 1), ttl : -1..Span]]
    BY <1>8, NoCounterTyped
  <2>2. Counter' = NoCounter
    BY <1>8, DoorConstants DEF Counter
  <2>3. DoorShape'
    BY <1>1, <1>2, <2>1 DEF DoorShape
  <2>4. CounterShape'
    BY <2>2, NoCounterTyped DEF CounterShape
  <2>5. Room' >= Room /\ Room \in Int /\ Room' \in Int
    <3>1. Used' = 0 /\ Used \in 0..Limit
      BY <1>1, <2>2, DoorNumbers, NoCounterTyped, DoorConstants DEF Used
    <3>2. Room = Cardinality(Workers) - 2 + Used + Slack
          /\ Room' = Cardinality(Workers) - 2 + Used' + Slack'
      BY DEF Room
    <3> QED
      BY <1>2, <1>3, <3>1, <3>2, DoorConstants
  <2>6. Through(Span - 1)' + Cardinality(Late)' <= Limit + Room'
    <3>1. Through(Span - 1) + Cardinality(Late) <= Limit + Room
      BY DEF DoorInv, TwoWindows
    <3>2. Through(Span - 1) \in Int /\ Through(Span - 1)' = Through(Span - 1)
      BY <1>5, AgeIsInRange, DoorConstants
    <3> QED
      BY <1>4, <2>5, <3>1, <3>2, DoorConstants
  <2>7. \A t \in 1..Span : Counter'.ttl # t
    BY <2>2, NoCounterTyped, DoorConstants
  <2> QED
    BY <1>5, <1>6, <2>3, <2>4, <2>6, <2>7, NumbersKeepDoor
<1> QED
  BY <1>1, <1>7, <1>8

-----------------------------------------------------------------------------
(* Time passes                                                              *)

LEMMA OlderShifts ==
  ASSUME NEW b \in [Ages -> Nat]
  PROVE  /\ Older(b) \in [Ages -> Nat]
         /\ \A k \in Ages : Sum(Older(b), 0..k) = Sum(b, 0..(k - 1))
         /\ (\A g \in Ages : b[g] = 0) => \A g \in Ages : Older(b)[g] = 0
<1> DEFINE c == Older(b)
<1>1. /\ c \in [Ages -> Nat] /\ c[0] = 0
      /\ \A g \in Ages \ {0} : g - 1 \in Ages /\ c[g] = b[g - 1]
  <2>1. \A g \in Ages \ {0} : g - 1 \in Ages
    BY DoorConstants
  <2> QED
    BY <2>1, DoorConstants DEF Older
<1> HIDE DEF c
<1> DEFINE n == Span - 1
<1>2. n \in Nat /\ Ages = 0..n /\ \A x \in 0..n : b[x] \in Int
  BY DoorConstants
<1> HIDE DEF n
<1>3. \A x \in 1..n : c[x] = b[x - 1]
  BY <1>1, <1>2
<1>4. \A k \in 0..n : Sum(c, 0..k) = Sum(b, 0..(k - 1))
  <2>1. n \in Nat /\ (\A x \in 0..n : b[x] \in Int) /\ c[0] = 0
    BY <1>1, <1>2
  <2> QED
    BY ONLY <1>3, <2>1, SumShifts
<1>5. ASSUME \A g \in Ages : b[g] = 0, NEW g \in Ages PROVE c[g] = 0
  BY <1>1, <1>5
<1> QED
  BY <1>1, <1>2, <1>4, <1>5 DEF c

LEMMA ClockTicksKeeps ==
  ASSUME DoorInv, ClockTicks
  PROVE  DoorInv'
<1>1. /\ store' = [a \in Addresses |-> Expiring(store[a])]
      /\ buckets' = [w \in Workers |-> [a \in Addresses |-> Older(buckets[w][a])]]
      /\ admitted' = Older(admitted) /\ DoorShape
      /\ UNCHANGED <<up, check, refused, outages, doorCrashes>>
  BY DEF ClockTicks, DoorInv
<1>2. /\ buckets \in [Workers -> [Addresses -> [Ages -> Nat]]] /\ admitted \in [Ages -> Nat]
      /\ \A w \in Workers, a \in Addresses : buckets[w][a] \in [Ages -> Nat]
      /\ store \in [Addresses -> [count : 0..(Limit + 1), ttl : -1..Span]]
  BY <1>1 DEF DoorShape
<1>3. ASSUME NEW n \in [count : 0..(Limit + 1), ttl : -1..Span]
      PROVE  /\ Expiring(n) \in [count : 0..(Limit + 1), ttl : -1..Span]
             /\ n.ttl = 1 => Expiring(n) = NoCounter
             /\ n.ttl \in {-1, 0} => Expiring(n) = n
             /\ n.ttl \in 2..Span => Expiring(n).ttl = n.ttl - 1 /\ Expiring(n).count = n.count
  <2>1. n.ttl \in -1..Span /\ n.count \in 0..(Limit + 1)
        /\ n = [count |-> n.count, ttl |-> n.ttl]
    OBVIOUS
  <2>2. CASE n.ttl = 1
    BY <2>2, NoCounterTyped DEF Expiring
  <2>3. CASE n.ttl = -1
    BY <2>3, NoCounterTyped DEF Expiring
  <2>4. CASE n.ttl = 0
    <3>1. Expiring(n) = [n EXCEPT !.ttl = 0]
      BY <2>4, NoCounterTyped DEF Expiring
    <3>2. [n EXCEPT !.ttl = 0] = n
      BY <2>1, <2>4
    <3> QED
      BY <2>4, <3>1, <3>2
  <2>5. CASE n.ttl \in 2..Span
    <3>1. Expiring(n) = [n EXCEPT !.ttl = n.ttl - 1]
      BY <2>1, <2>5, NoCounterTyped DEF Expiring
    <3>2. n.ttl - 1 \in -1..Span
      BY <2>5, DoorConstants
    <3> QED
      BY <2>1, <2>5, <3>1, <3>2
  <2> QED
    BY <2>1, <2>2, <2>3, <2>4, <2>5, DoorConstants
<1>4. /\ store' \in [Addresses -> [count : 0..(Limit + 1), ttl : -1..Span]]
      /\ Counter' = Expiring(Counter)
      /\ Counter \in [count : 0..(Limit + 1), ttl : -1..Span]
  <2>1. store' \in [Addresses -> [count : 0..(Limit + 1), ttl : -1..Span]]
    BY <1>1, <1>2, <1>3
  <2> QED
    BY <1>1, <1>2, <2>1, DoorConstants DEF Counter
<1>5. /\ admitted' \in [Ages -> Nat]
      /\ \A k \in Ages : Sum(admitted', 0..k) = Sum(admitted, 0..(k - 1))
  BY <1>1, <1>2, OlderShifts
<1>6. buckets' \in [Workers -> [Addresses -> [Ages -> Nat]]]
  <2>1. \A w \in Workers, a \in Addresses : Older(buckets[w][a]) \in [Ages -> Nat]
    BY <1>2, OlderShifts
  <2> QED
    BY <1>1, <2>1
<1>7. ASSUME NEW w \in Workers, NEW a \in Addresses PROVE Within(buckets'[w][a]) <= Limit
  <2> DEFINE b == buckets[w][a]
  <2>1. buckets'[w][a] = Older(b) /\ b \in [Ages -> Nat] /\ Within(b) <= Limit
    BY <1>1, <1>2 DEF DoorShape
  <2> HIDE DEF b
  <2>2. Within(Older(b)) = Sum(b, 0..((Span - 1) - 1))
    BY <2>1, OlderShifts, WithinIsSum, AgeIsInRange
  <2>3. (Span - 1) - 1 \in -1..(Span - 1) /\ Span - 1 \in -1..(Span - 1)
    BY AgeIsInRange
  <2>4. /\ Sum(b, 0..((Span - 1) - 1)) <= Within(b) /\ Sum(b, 0..((Span - 1) - 1)) \in Int
        /\ Sum(b, 0..(Span - 1)) \in Int
    BY <2>1, <2>3, BucketSums
  <2>5. Within(b) \in Int
    BY <2>4, WithinIsSum
  <2>6. Within(Older(b)) <= Limit
    BY <2>1, <2>2, <2>4, <2>5, DoorConstants
  <2> QED
    BY <2>1, <2>6
<1>8. DoorShape'
  BY <1>1, <1>4, <1>5, <1>6, <1>7 DEF DoorShape
<1>9. ASSUME NEW k \in Ages PROVE Through(k)' = Through(k - 1)
  <2> DEFINE v == [w \in Workers |-> Sum(buckets'[w]["customer"], 0..k)]
             u == [w \in Workers |-> Sum(buckets[w]["customer"], 0..(k - 1))]
  <2>1. ASSUME NEW w \in Workers PROVE v[w] = u[w]
    <3>1. buckets[w]["customer"] \in [Ages -> Nat]
      BY <1>2, DoorConstants
    <3>2. buckets'[w]["customer"] = Older(buckets[w]["customer"])
      BY <1>1, DoorConstants
    <3> QED
      BY <3>1, <3>2, OlderShifts
  <2>2. Own(k)' = Sum(v, Workers) /\ Own(k - 1) = Sum(u, Workers)
    BY DEF Own
  <2> HIDE DEF v, u
  <2>3. Own(k)' = Own(k - 1)
    BY <2>1, <2>2, DoorConstants, SumSame
  <2>4. Sum(admitted', 0..k) = Sum(admitted, 0..(k - 1))
    BY <1>5
  <2> QED
    BY <2>3, <2>4 DEF Through
<1>10. Through(-1)' = 0 /\ Through(-1) = 0 /\ \A k \in -1..(Span - 1) : Through(k) \in Int
  <2>1. Through(-1)' = Sum(admitted', 0..(-1)) - Own(-1)'
    BY DEF Through
  <2>2. Sum(admitted', 0..(-1)) = 0
    BY <1>5, AgeIsInRange, BucketSums
  <2>3. Own(-1)' = 0
    <3> DEFINE v == [w \in Workers |-> Sum(buckets'[w]["customer"], 0..(-1))]
    <3>1. ASSUME NEW w \in Workers PROVE v[w] = 0
      <4>1. buckets'[w]["customer"] \in [Ages -> Nat]
        BY <1>6, DoorConstants
      <4> QED
        BY <4>1, AgeIsInRange, BucketSums
    <3>2. Own(-1)' = Sum(v, Workers)
      BY DEF Own
    <3> HIDE DEF v
    <3> QED
      BY <3>1, <3>2, DoorConstants, SumZero
  <2>4. Through(-1) = 0 /\ \A k \in -1..(Span - 1) : Through(k) \in Int
    BY <1>1, AgeIsInRange, ThroughTyped
  <2> QED
    BY <2>1, <2>2, <2>3, <2>4
<1>11. ASSUME NEW k \in Ages PROVE Through(k - 1)' <= Through(k)'
  <2>1. Through(k)' = Through(k - 1)
    BY <1>9
  <2>2. CASE k = 0
    <3>1. k - 1 = -1
      BY <2>2
    <3>2. Through(k - 1)' = 0 /\ Through(k - 1) = 0
      BY ONLY <1>10, <3>1
    <3> QED
      BY <2>1, <3>2
  <2>3. CASE k # 0
    <3>1. k - 1 \in Ages
      BY <2>3, DoorConstants
    <3>2. Through(k - 1)' = Through((k - 1) - 1)
      BY <1>9, <3>1
    <3>3. Through((k - 1) - 1) <= Through(k - 1)
      BY <3>1 DEF DoorInv, Growing
    <3> QED
      BY <2>1, <3>2, <3>3
  <2> QED
    BY <2>2, <2>3
<1>12. NoOutageYet'
  <2>1. ASSUME outages = 0, NEW w \in Workers, NEW g \in Ages
        PROVE  buckets'[w]["customer"][g] = 0
    <3>1. buckets[w]["customer"] \in [Ages -> Nat]
          /\ buckets'[w]["customer"] = Older(buckets[w]["customer"])
      BY <1>1, <1>2, DoorConstants
    <3>2. \A h \in Ages : buckets[w]["customer"][h] = 0
      BY <2>1 DEF DoorInv, NoOutageYet
    <3> QED
      BY <3>1, <3>2, OlderShifts
  <2> QED
    BY <1>1, <2>1 DEF DoorInv, NoOutageYet
<1>13. /\ Late' = Late /\ Cardinality(Late) \in Nat /\ Slack' = Slack /\ Slack \in Nat
       /\ Used \in 0..Limit /\ Room \in Int
       /\ Room = Cardinality(Workers) - 2 + Used + Slack
  BY <1>1, DoorNumbers, LateCounted DEF Late, Slack, Room
<1>14. Room' = Cardinality(Workers) - 2 + Used' + Slack
  BY <1>13 DEF Room
<1>15. Through(Span - 1)' = Through(Span - 2) /\ Through(Span - 2) <= Through(Span - 1)
       /\ Through(Span - 1) \in Int /\ Through(Span - 2) \in Int
  <2>1. Span - 1 \in Ages /\ (Span - 1) - 1 = Span - 2
    BY DoorConstants
  <2>2. Through(Span - 1)' = Through((Span - 1) - 1)
        /\ Through((Span - 1) - 1) <= Through(Span - 1)
    BY <1>9, <2>1 DEF DoorInv, Growing
  <2>3. Through(Span - 1) \in Int /\ Through((Span - 1) - 1) \in Int
    BY <1>10, <2>1, AgeIsInRange
  <2> QED
    BY ONLY <2>1, <2>2, <2>3
<1>16. Through(Span - 1) + Cardinality(Late) <= Limit + Room
  BY DEF DoorInv, TwoWindows
<1>17. CASE Counter.ttl = 1
  <2>1. Counter' = NoCounter
    BY <1>3, <1>4, <1>17
  <2>2. CounterShape' /\ Used' = 0
    BY <2>1, NoCounterTyped, DoorConstants DEF CounterShape, Used
  <2>3. Through(Span - 1 - 1) + Cardinality(Late) <= Room
    BY <1>17, DoorConstants DEF DoorInv, OneWindow
  <2>4. Through(Span - 2) + Cardinality(Late) <= Room
    <3>1. Span - 1 - 1 = Span - 2
      BY DoorConstants
    <3> QED
      BY ONLY <2>3, <3>1
  <2>5. Through(Span - 1)' + Cardinality(Late)' <= Limit + Room'
    <3>1. Limit \in Nat /\ Cardinality(Workers) \in Nat
      BY DoorConstants
    <3>2. Cardinality(Late)' = Cardinality(Late) /\ Cardinality(Late) \in Nat
      BY <1>13
    <3>3. Room <= Limit + Room'
      BY ONLY <1>13, <1>14, <2>2, <3>1
    <3>4. Room' \in Int /\ Room \in Int
      BY ONLY <1>13, <1>14, <2>2, <3>1
    <3>5. Through(Span - 1)' + Cardinality(Late)' = Through(Span - 2) + Cardinality(Late)
          /\ Through(Span - 2) + Cardinality(Late) \in Int
      BY ONLY <1>15, <3>2
    <3> DEFINE before == Through(Span - 2) + Cardinality(Late)
               budget == Limit + Room'
    <3>6. before \in Int /\ before <= Room
      BY ONLY <2>4, <3>5
    <3>7. Limit \in Int
      BY DoorConstants
    <3>8. budget \in Int
      BY ONLY <3>4, <3>7
    <3>9. Room <= budget
      BY ONLY <3>3
    <3> HIDE DEF before, budget
    <3>10. before <= budget
      BY ONLY <3>4, <3>6, <3>8, <3>9
    <3> QED
      BY ONLY <3>5, <3>10 DEF before, budget
  <2>6. \A t \in 1..Span : Counter'.ttl # t
    BY <2>1, NoCounterTyped, DoorConstants
  <2> QED
    BY <1>8, <1>11, <1>12, <2>2, <2>5, <2>6, NumbersKeepDoor
<1>18. CASE Counter.ttl # 1
  <2>1. /\ Counter.ttl \in {-1, 0} \cup 2..Span
        /\ Counter.ttl \in {-1, 0} => Counter' = Counter
        /\ Counter.ttl \in 2..Span => Counter'.ttl = Counter.ttl - 1
        /\ Counter'.count = Counter.count
    <3>1. Counter.ttl \in {-1, 0} \cup 2..Span
      BY <1>4, <1>18, DoorConstants
    <3> QED
      BY <1>3, <1>4, <3>1
  <2>2. CounterShape
    BY DEF DoorInv
  <2>3. CounterShape'
    <3>1. Counter.count = 0 => Counter.ttl = 0
      BY <2>2, NoCounterTyped DEF CounterShape
    <3>2. Counter'.count = 0 => Counter' = NoCounter
      BY <2>1, <2>2, <3>1 DEF CounterShape
    <3>3. Counter'.count # 0 => Counter'.ttl \in {-1} \cup 1..Span
      BY <2>1, <2>2, NoCounterTyped, DoorConstants DEF CounterShape
    <3> QED
      BY <3>2, <3>3, NoCounterTyped DEF CounterShape
  <2>4. Used' = Used /\ Room' = Room
    <3>1. Used' = Used
      BY <2>1 DEF Used
    <3> QED
      BY <1>13, <1>14, <3>1
  <2>5. Through(Span - 1)' + Cardinality(Late)' <= Limit + Room'
    <3>1. Limit \in Nat
      BY DoorConstants
    <3>2. Cardinality(Late)' = Cardinality(Late) /\ Cardinality(Late) \in Nat /\ Room \in Int
      BY <1>13
    <3> QED
      BY ONLY <1>15, <1>16, <2>4, <3>1, <3>2
  <2>6. ASSUME NEW t \in 1..Span, Counter'.ttl = t
        PROVE  Through(Span - 1 - t)' + Cardinality(Late)' <= Room'
    <3>1. Counter.ttl = t + 1 /\ Counter.ttl \in 1..Span
      BY <2>1, <2>6, DoorConstants
    <3>2. Through(Span - 1 - Counter.ttl) + Cardinality(Late) <= Room
      BY <3>1 DEF DoorInv, OneWindow
    <3>3. Span - 1 - t \in Ages /\ (Span - 1 - t) - 1 = Span - 1 - Counter.ttl
      BY <3>1, DoorConstants
    <3>4. Through(Span - 1 - t)' = Through((Span - 1 - t) - 1)
      BY <1>9, <3>3
    <3>5. Through(Span - 1 - t)' = Through(Span - 1 - Counter.ttl)
      BY ONLY <3>3, <3>4
    <3> QED
      BY <1>13, <2>4, <3>2, <3>5
  <2> QED
    BY <1>8, <1>11, <1>12, <2>3, <2>5, <2>6, NumbersKeepDoor
<1> QED
  BY <1>17, <1>18

-----------------------------------------------------------------------------
(* The result                                                               *)

LEMMA DoorInitHolds == DoorInit => DoorInv
<1> SUFFICES ASSUME DoorInit PROVE DoorInv
  OBVIOUS
<1> DEFINE none == [g \in Ages |-> 0]
<1>1. /\ store = [a \in Addresses |-> NoCounter] /\ up = TRUE
      /\ buckets = [w \in Workers |-> [a \in Addresses |-> none]]
      /\ check = [w \in Workers |-> Inside] /\ admitted = none
      /\ refused = FALSE /\ outages = 0 /\ doorCrashes = 0
  BY DEF DoorInit
<1>2. none \in [Ages -> Nat] /\ \A g \in Ages : none[g] = 0
  OBVIOUS
<1> HIDE DEF none
<1>3. \A k \in -1..(Span - 1) : Sum(none, 0..k) = 0
  <2>1. ASSUME NEW k \in -1..(Span - 1) PROVE Sum(none, 0..k) = 0
    <3>1. IsFiniteSet(0..k) /\ 0..k \subseteq Ages
      BY <1>2, BucketSums
    <3>2. \A g \in 0..k : none[g] = 0
      BY <1>2, <3>1
    <3> QED
      BY ONLY <3>1, <3>2, SumZero
  <2> QED
    BY <2>1
<1>4. Inside \in [pc : {"idle", "setnx", "incr", "over", "within"}, key : {"customer"}]
      /\ Inside.pc = "idle"
  BY DEF Inside
<1>5. DoorShape
  <2>1. \A w \in Workers, a \in Addresses : Within(buckets[w][a]) <= Limit
    <3>1. Within(none) = 0
      BY <1>3, AgeIsInRange, WithinIsSum
    <3> QED
      BY <1>1, <3>1, DoorConstants
  <2> QED
    BY <1>1, <1>2, <1>4, <2>1, NoCounterTyped DEF DoorShape
<1>6. Counter = NoCounter /\ Late = {} /\ Slack = 0 /\ NoOutageYet /\ CounterShape
  <2>1. Counter = NoCounter
    BY <1>1, DoorConstants DEF Counter
  <2>2. Late = {}
    BY <1>1, <1>4 DEF Late
  <2> QED
    BY <1>1, <1>2, <2>1, <2>2, NoCounterTyped, DoorConstants DEF Slack, NoOutageYet, CounterShape
<1>7. ASSUME NEW k \in -1..(Span - 1) PROVE Through(k) = 0
  <2> DEFINE v == [w \in Workers |-> Sum(buckets[w]["customer"], 0..k)]
  <2>1. \A w \in Workers : v[w] = 0
    BY <1>1, <1>3, DoorConstants
  <2>2. Own(k) = Sum(v, Workers)
    BY DEF Own
  <2> HIDE DEF v
  <2>3. Own(k) = 0
    BY <2>1, <2>2, DoorConstants, SumZero
  <2> QED
    BY <1>1, <1>3, <2>3 DEF Through
<1>8. Used = 0 /\ Room = Cardinality(Workers) - 2 /\ Cardinality(Late) = 0
  <2>1. Used = 0
    BY <1>6, NoCounterTyped, DoorConstants DEF Used
  <2> QED
    BY <1>6, <2>1, FS_EmptySet, DoorConstants DEF Room
<1>9. Growing
  BY <1>7, AgeIsInRange DEF Growing
<1>10. TwoWindows
  BY <1>7, <1>8, AgeIsInRange, DoorConstants DEF TwoWindows
<1>11. OneWindow
  BY <1>6, NoCounterTyped, DoorConstants DEF OneWindow
<1> QED
  BY <1>5, <1>6, <1>9, <1>10, <1>11 DEF DoorInv

LEMMA DoorInvSteps == DoorInv /\ [DoorNext]_doorVars => DoorInv'
<1> SUFFICES ASSUME DoorInv, [DoorNext]_doorVars PROVE DoorInv'
  OBVIOUS
<1>1. CASE UNCHANGED doorVars
  <2>1. UNCHANGED <<store, up, buckets, check, admitted, refused, outages, doorCrashes>>
    BY <1>1 DEF doorVars
  <2> QED
    BY <2>1 DEF DoorInv, DoorShape, CounterShape, NoOutageYet, Growing, TwoWindows, OneWindow,
       Through, Own, Room, Used, Slack, Late, Counter
<1>2. ASSUME NEW w \in Workers, Arrives(w) PROVE DoorInv'
  BY <1>2, CountedAsTheCustomer, ArriveKeeps DEF Arrives
<1>3. ASSUME NEW w \in Workers, Command(w) PROVE DoorInv'
  BY <1>3, SetNxKeeps, IncrKeeps, TtlKeeps, FallBackKeeps DEF Command
<1>4. ASSUME NEW w \in Workers, WorkerDies(w) PROVE DoorInv'
  BY <1>4, WorkerDiesKeeps
<1>5. CASE RedisFails \/ RedisReturns \/ ClockTicks
  BY <1>5, RedisFailsKeeps, RedisReturnsKeeps, ClockTicksKeeps
<1> QED
  BY <1>1, <1>2, <1>3, <1>4, <1>5 DEF DoorNext

LEMMA DoorInvBounds == DoorInv => DoorTypeOK /\ BurstBounded
<1> SUFFICES ASSUME DoorInv PROVE DoorTypeOK /\ BurstBounded
  OBVIOUS
<1>1. DoorShape
  BY DEF DoorInv
<1>2. DoorTypeOK
  <2>1. ASSUME NEW a \in Addresses
        PROVE  store[a].count \in 0..(Limit + 1) /\ store[a].ttl \in -1..Span
    BY <1>1 DEF DoorShape
  <2>2. ASSUME NEW w \in Workers
        PROVE  /\ check[w].pc \in {"idle", "setnx", "incr", "over", "within"}
               /\ check[w].key \in Addresses
    BY <1>1, DoorConstants DEF DoorShape
  <2> QED
    BY <1>1, <2>1, <2>2 DEF DoorTypeOK, DoorShape
<1>3. Within(admitted) = Through(Span - 1) + Own(Span - 1)
      /\ Through(Span - 1) \in Int /\ Own(Span - 1) \in Int
  <2>1. admitted \in [Ages -> Nat] /\ Span - 1 \in -1..(Span - 1)
    BY <1>1, AgeIsInRange, DoorConstants DEF DoorShape
  <2>2. Sum(admitted, 0..(Span - 1)) \in Int /\ Own(Span - 1) \in Int /\ Through(Span - 1) \in Int
    BY <1>1, <2>1, BucketSums, OwnTyped, ThroughTyped
  <2> QED
    BY <2>2, WithinIsSum DEF Through
<1>4. Through(Span - 1) <= 2 * Limit + Cardinality(Workers) - 2 + Slack
  <2>1. Through(Span - 1) + Cardinality(Late) <= Limit + Room
    BY DEF DoorInv, TwoWindows
  <2>2. /\ Used \in 0..Limit /\ Slack \in Nat /\ Cardinality(Late) \in Nat
        /\ Room = Cardinality(Workers) - 2 + Used + Slack
    BY <1>1, DoorNumbers, LateCounted DEF Room
  <2>3. Cardinality(Workers) \in Int /\ Limit \in Int
    BY DoorConstants
  <2> QED
    BY ONLY <1>3, <2>1, <2>2, <2>3
<1>5. Own(Span - 1) <= IF outages = 0 THEN 0 ELSE Limit * Cardinality(Workers)
  <2> DEFINE v == [w \in Workers |-> Sum(buckets[w]["customer"], 0..(Span - 1))]
  <2>1. ASSUME NEW w \in Workers
        PROVE  v[w] \in Int /\ v[w] <= Limit /\ (outages = 0 => v[w] = 0)
    <3> DEFINE b == buckets[w]["customer"]
    <3>1. b \in [Ages -> Nat] /\ Within(b) <= Limit
      BY <1>1, DoorConstants DEF DoorShape
    <3>2. v[w] = Within(b)
      BY WithinIsSum
    <3>3. v[w] \in Int
      BY <3>1, AgeIsInRange, BucketSums, DoorConstants
    <3>4. outages = 0 => \A g \in 0..(Span - 1) : b[g] = 0
      BY DoorConstants DEF DoorInv, NoOutageYet
    <3>5. outages = 0 => Sum(b, 0..(Span - 1)) = 0
      <4>1. IsFiniteSet(0..(Span - 1))
        BY DoorConstants
      <4> HIDE DEF b
      <4> QED
        BY <3>4, <4>1, SumZero
    <3> QED
      BY <3>1, <3>2, <3>3, <3>5
  <2>2. Own(Span - 1) = Sum(v, Workers)
    BY DEF Own
  <2> HIDE DEF v
  <2>3. Own(Span - 1) <= Limit * Cardinality(Workers)
    <3>1. IsFiniteSet(Workers) /\ Limit \in Int /\ \A w \in Workers : v[w] \in Int /\ v[w] <= Limit
      BY <2>1, DoorConstants
    <3>2. Sum(v, Workers) <= Limit * Cardinality(Workers)
      BY ONLY <3>1, SumBounded
    <3> QED
      BY ONLY <2>2, <3>2
  <2>4. outages = 0 => Own(Span - 1) = 0
    BY <2>1, <2>2, DoorConstants, SumZero
  <2> QED
    BY <2>3, <2>4
<1>6. Slack + (IF outages = 0 THEN 0 ELSE Limit * Cardinality(Workers)) = Overrun
  <2>1. CASE outages = 0
    BY <2>1 DEF Slack, Overrun
  <2>2. CASE outages # 0
    <3>1. Slack = Limit * (outages + doorCrashes)
          /\ Overrun = Limit * ((outages + doorCrashes) + Cardinality(Workers))
      BY <2>2 DEF Slack, Overrun
    <3>2. outages + doorCrashes \in Nat /\ Cardinality(Workers) \in Nat /\ Limit \in Nat
      BY <1>1, SlackSteps, DoorConstants
    <3>3. \A l, m, n \in Nat : l * (m + n) = l * m + l * n
      OBVIOUS
    <3> QED
      BY <2>2, <3>1, <3>2, <3>3
  <2> QED
    BY <2>1, <2>2
<1>7. Within(admitted) <= (2 * Limit - 1) + (Cardinality(Workers) - 1) + Overrun
  <2>1. Slack \in Int
    BY <1>1, DoorNumbers
  <2>2. Limit * Cardinality(Workers) \in Int
    BY DoorConstants
  <2> DEFINE own == IF outages = 0 THEN 0 ELSE Limit * Cardinality(Workers)
  <2>3. own \in Int /\ Cardinality(Workers) \in Int /\ Limit \in Int
    BY <2>2, DoorConstants
  <2>4. Own(Span - 1) <= own /\ Slack + own = Overrun
    BY <1>5, <1>6
  <2> HIDE DEF own
  <2> QED
    BY ONLY <1>3, <1>4, <2>1, <2>3, <2>4
<1> QED
  BY <1>2, <1>7 DEF BurstBounded

\* However the header is padded, however the Redis commands of the workers interleave, and
\* whatever Redis and the workers lose: what one customer gets through in a span of time is
\* two fixed windows, a late answer of every other worker, and what the outages cost.
THEOREM CustomerBurstIsBounded == DoorSpec => [](DoorTypeOK /\ BurstBounded)
<1>1. DoorInit => DoorInv
  BY DoorInitHolds
<1>2. DoorInv /\ [DoorNext]_doorVars => DoorInv'
  BY DoorInvSteps
<1>3. DoorInv => DoorTypeOK /\ BurstBounded
  BY DoorInvBounds
<1> QED
  BY <1>1, <1>2, <1>3, PTL DEF DoorSpec

-----------------------------------------------------------------------------
(* Sign-in: the failures of one address, its lock and its guesses, at time t *)

Times(s, t) == /\ s \in Seq(Int) /\ \A i, j \in 1..Len(s) : i <= j => s[i] <= s[j]
               /\ \A i \in 1..Len(s) : 0 <= s[i] /\ s[i] <= t

\* Counted from the newest: the n-th of s.
FromEnd(s, n) == s[Len(s) - n + 1]

\* GuessesBounded of one address.
Spaced(g) ==
  \A i \in 1..(Len(g) - MaxFailures) :
    g[i + MaxFailures - 1] - g[i] <= GuessWindow
      => g[i + MaxFailures] - g[i + MaxFailures - 1] >= Lockout

\* A full window of guesses has locked the address; a guess still in the window is counted
\* in the bucket, at the same place from the end, or the address is locked.
Locks(g, lock, t) ==
  Len(g) >= MaxFailures /\ FromEnd(g, 1) - FromEnd(g, MaxFailures) <= GuessWindow =>
    lock >= FromEnd(g, 1) + Lockout \/ t >= FromEnd(g, 1) + Lockout
Counts(g, b, lock, t) ==
  \A n \in 1..Len(g) : t - FromEnd(g, n) <= GuessWindow =>
    \/ n <= Len(b) /\ FromEnd(b, n) = FromEnd(g, n)
    \/ lock >= FromEnd(g, 1) + Lockout

Fits(g, b, lock, t) ==
  /\ Times(g, t) /\ Times(b, t) /\ Len(b) < MaxFailures
  /\ Spaced(g) /\ Locks(g, lock, t) /\ Counts(g, b, lock, t)

\* What the two list operations of a wrong guess make of a list of times.
WithNow(s, t, r) == r = Append(s, t)
Since(lo, t, s, k) == k = Kept(s, lo..t)

LEMMA SignConstants ==
  /\ GuessWindow \in Nat /\ SignClock \in Nat /\ GcAt \in Nat /\ MaxFailures \in Nat \ {0}
  /\ Lockout \in Nat /\ GuessWindow < Lockout
  BY SignInAssumption

LEMMA FromEndTyped ==
  ASSUME NEW t \in Nat, NEW s, Times(s, t), NEW n \in 1..Len(s)
  PROVE  /\ FromEnd(s, n) \in Int /\ 0 <= FromEnd(s, n) /\ FromEnd(s, n) <= FromEnd(s, 1)
         /\ FromEnd(s, 1) \in Int /\ FromEnd(s, 1) <= t /\ 1 \in 1..Len(s)
<1>1. Len(s) \in Nat /\ Len(s) - n + 1 \in 1..Len(s) /\ Len(s) - 1 + 1 \in 1..Len(s)
      /\ Len(s) - n + 1 <= Len(s) - 1 + 1 /\ \A i \in 1..Len(s) : s[i] \in Int
  BY DEF Times
<1> QED
  BY <1>1 DEF Times, FromEnd

LEMMA NothingFits ==
  ASSUME NEW t \in Nat, NEW lock \in Int
  PROVE  Fits(<<>>, <<>>, lock, t)
  BY SignConstants DEF Fits, Times, Spaced, Locks, Counts

LEMMA TimePasses ==
  ASSUME NEW t \in Nat, NEW lock \in Int, NEW g, NEW b, Fits(g, b, lock, t),
         NEW u \in Nat, t <= u
  PROVE  Fits(g, b, lock, u)
<1>1. Times(g, t) /\ Times(b, t) /\ Len(g) \in Nat /\ Len(b) \in Nat
  BY DEF Fits, Times
<1>2. \A n \in 1..Len(g) : FromEnd(g, n) \in Int
  BY <1>1, FromEndTyped
<1>3. Times(g, u)
  <2>1. \A i \in 1..Len(g) : g[i] \in Int
    BY <1>1 DEF Times
  <2> QED
    BY <1>1, <2>1 DEF Times
<1>4. Times(b, u)
  <2>1. \A i \in 1..Len(b) : b[i] \in Int
    BY <1>1 DEF Times
  <2> QED
    BY <1>1, <2>1 DEF Times
<1>5. Locks(g, lock, u)
  <2>1. Len(g) >= MaxFailures => 1 \in 1..Len(g)
    BY <1>1, SignConstants
  <2> QED
    BY <1>2, <2>1, SignConstants DEF Fits, Locks
<1>6. Counts(g, b, lock, u)
  <2>1. ASSUME NEW n \in 1..Len(g), u - FromEnd(g, n) <= GuessWindow
        PROVE  t - FromEnd(g, n) <= GuessWindow
    BY <1>2, <2>1, SignConstants
  <2> QED
    BY <2>1 DEF Fits, Counts
<1> QED
  BY <1>3, <1>4, <1>5, <1>6 DEF Fits

\* An expired lock may be swept.
LEMMA LockSwept ==
  ASSUME NEW t \in Nat, NEW lock \in Int, NEW g, NEW b, Fits(g, b, lock, t), lock <= t,
         NEW l \in Int
  PROVE  /\ Fits(g, b, l, t)
         /\ \A n \in 1..Len(g) : t - FromEnd(g, n) <= GuessWindow =>
              n <= Len(b) /\ FromEnd(b, n) = FromEnd(g, n)
         /\ Len(g) >= MaxFailures /\ FromEnd(g, 1) - FromEnd(g, MaxFailures) <= GuessWindow =>
              t >= FromEnd(g, 1) + Lockout
<1>1. Times(g, t) /\ Len(g) \in Nat
  BY DEF Fits, Times
<1>2. \A n \in 1..Len(g) : FromEnd(g, n) \in Int /\ FromEnd(g, n) <= FromEnd(g, 1)
                           /\ FromEnd(g, 1) \in Int
  BY <1>1, FromEndTyped
<1>3. ASSUME NEW n \in 1..Len(g), t - FromEnd(g, n) <= GuessWindow
      PROVE  n <= Len(b) /\ FromEnd(b, n) = FromEnd(g, n)
  <2>1. ~(lock >= FromEnd(g, 1) + Lockout)
    BY <1>2, <1>3, SignConstants
  <2> QED
    BY <1>3, <2>1 DEF Fits, Counts
<1>4. ASSUME Len(g) >= MaxFailures, FromEnd(g, 1) - FromEnd(g, MaxFailures) <= GuessWindow
      PROVE  t >= FromEnd(g, 1) + Lockout
  <2>1. FromEnd(g, 1) \in Int
    <3>1. 1 \in 1..Len(g)
      BY <1>1, <1>4, SignConstants
    <3> QED
      BY <1>2, <3>1
  <2>2. lock >= FromEnd(g, 1) + Lockout \/ t >= FromEnd(g, 1) + Lockout
    BY <1>4 DEF Fits, Locks
  <2> QED
    BY <2>1, <2>2, SignConstants
<1>5. Locks(g, l, t) /\ Counts(g, b, l, t)
  BY <1>3, <1>4 DEF Locks, Counts
<1> QED
  BY <1>3, <1>4, <1>5 DEF Fits

\* A bucket whose newest failure has left the window may be swept.
LEMMA BucketSwept ==
  ASSUME NEW t \in Nat, NEW lock \in Int, NEW g, NEW b, Fits(g, b, lock, t),
         b = <<>> \/ t - FromEnd(b, 1) > GuessWindow
  PROVE  Fits(g, <<>>, lock, t)
<1>1. Times(g, t) /\ Times(b, t) /\ Len(g) \in Nat /\ Len(b) \in Nat
  BY DEF Fits, Times
<1>2. ASSUME NEW n \in 1..Len(g), t - FromEnd(g, n) <= GuessWindow
      PROVE  lock >= FromEnd(g, 1) + Lockout
  <2>1. ASSUME n <= Len(b), FromEnd(b, n) = FromEnd(g, n) PROVE FALSE
    <3>1. n \in 1..Len(b)
      BY <1>1, <2>1
    <3>2. FromEnd(b, n) \in Int /\ FromEnd(b, n) <= FromEnd(b, 1) /\ FromEnd(b, 1) \in Int
      BY <1>1, <3>1, FromEndTyped
    <3>3. b # <<>>
      BY <3>1
    <3> QED
      BY <1>2, <2>1, <3>2, <3>3, SignConstants
  <2> QED
    BY <1>2, <2>1 DEF Fits, Counts
<1>3. Counts(g, <<>>, lock, t)
  BY <1>2 DEF Counts
<1>4. Times(<<>>, t) /\ Len(<<>>) < MaxFailures
  BY SignConstants DEF Times
<1> QED
  BY <1>3, <1>4 DEF Fits

\* What the comprehension over a list of times keeps is the end of it.
LEMMA KeepsTheEnd ==
  ASSUME NEW t \in Nat, NEW lo \in Int, NEW s, Times(s, t), NEW k, Since(lo, t, s, k)
  PROVE  /\ Times(k, t)
         /\ \E d \in 0..Len(s) : /\ Len(k) = Len(s) - d
                                 /\ \A i \in 1..(Len(s) - d) : k[i] = s[d + i]
                                 /\ \A i \in 1..d : s[i] < lo
<1>1. s \in Seq(Int) /\ Len(s) \in Nat /\ \A i \in 1..Len(s) : s[i] \in Int /\ s[i] <= t
  BY DEF Times
<1>2. ASSUME NEW i \in 1..Len(s), NEW j \in 1..Len(s), i <= j, s[i] \in lo..t
      PROVE  s[j] \in lo..t
  <2>1. s[i] <= s[j]
    BY <1>2 DEF Times
  <2> QED
    BY <1>1, <1>2, <2>1
<1>3. PICK d \in 0..Len(s) :
        /\ Len(k) = Len(s) - d
        /\ \A i \in 1..(Len(s) - d) : k[i] = s[d + i]
        /\ \A i \in 1..d : s[i] \notin lo..t
  <2>1. \E d \in 0..Len(s) :
          /\ Len(Kept(s, lo..t)) = Len(s) - d
          /\ \A i \in 1..(Len(s) - d) : Kept(s, lo..t)[i] = s[d + i]
          /\ \A i \in 1..d : s[i] \notin lo..t
    BY ONLY <1>1, <1>2, KeptIsTail
  <2> QED
    BY <2>1 DEF Since
<1>4. \A i \in 1..d : s[i] < lo
  BY <1>1, <1>3
<1>5. k \in Seq(Int)
  <2>1. k \in Seq(Int \cap (lo..t))
    BY <1>1, KeptElements DEF Since
  <2> QED
    BY <2>1
<1>6. ASSUME NEW i \in 1..Len(k) PROVE d + i \in 1..Len(s) /\ k[i] = s[d + i]
  BY <1>1, <1>3
<1>7. Times(k, t)
  <2>1. ASSUME NEW i \in 1..Len(k), NEW j \in 1..Len(k), i <= j PROVE k[i] <= k[j]
    <3>1. d + i \in 1..Len(s) /\ d + j \in 1..Len(s) /\ d + i <= d + j
      BY <1>6, <2>1
    <3>2. s[d + i] <= s[d + j]
      BY <3>1 DEF Times
    <3> QED
      BY <1>6, <3>2
  <2>2. ASSUME NEW i \in 1..Len(k) PROVE 0 <= k[i] /\ k[i] <= t
    BY <1>6 DEF Times
  <2> QED
    BY <1>5, <2>1, <2>2 DEF Times
<1> QED
  BY <1>3, <1>4, <1>7

\* The same, counted from the end.
LEMMA KeepsTheNewest ==
  ASSUME NEW t \in Nat, NEW lo \in Int, NEW s, Times(s, t), NEW k, Since(lo, t, s, k)
  PROVE  /\ Times(k, t) /\ Len(k) \in Nat /\ Len(s) \in Nat /\ Len(k) <= Len(s)
         /\ \A n \in 1..Len(k) : FromEnd(k, n) = FromEnd(s, n)
         /\ \A n \in 1..Len(s) : FromEnd(s, n) >= lo => n <= Len(k)
<1>1. Times(k, t) /\ Len(s) \in Nat
  <2>1. Times(k, t)
    BY KeepsTheEnd
  <2>2. Len(s) \in Nat
    BY DEF Times
  <2> QED
    BY ONLY <2>1, <2>2
<1>2. PICK d \in 0..Len(s) : /\ Len(k) = Len(s) - d
                             /\ \A i \in 1..(Len(s) - d) : k[i] = s[d + i]
                             /\ \A i \in 1..d : s[i] < lo
  BY KeepsTheEnd
<1>3. ASSUME NEW n \in 1..Len(k) PROVE FromEnd(k, n) = FromEnd(s, n)
  <2>1. Len(k) - n + 1 \in 1..(Len(s) - d) /\ d + (Len(k) - n + 1) = Len(s) - n + 1
    BY ONLY <1>1, <1>2, n \in 1..Len(k), d \in 0..Len(s)
  <2> QED
    BY <1>2, <2>1 DEF FromEnd
<1>4. ASSUME NEW n \in 1..Len(s), FromEnd(s, n) >= lo PROVE n <= Len(k)
  <2>1. CASE Len(s) - n + 1 \in 1..d
    <3>1. s[Len(s) - n + 1] < lo /\ s[Len(s) - n + 1] \in Int
      <4>1. Len(s) - n + 1 \in 1..Len(s)
        BY <1>1
      <4> QED
        BY <1>2, <2>1, <4>1 DEF Times
    <3> QED
      BY <1>4, <3>1 DEF FromEnd
  <2>2. CASE Len(s) - n + 1 \notin 1..d
    BY <1>1, <1>2, <2>2
  <2> QED
    BY <2>1, <2>2
<1> QED
  BY <1>1, <1>2, <1>3, <1>4

LEMMA OneMoreTime ==
  ASSUME NEW t \in Nat, NEW s, Times(s, t), NEW r, WithNow(s, t, r)
  PROVE  /\ Times(r, t) /\ Len(r) = Len(s) + 1 /\ Len(s) \in Nat
         /\ FromEnd(r, 1) = t /\ \A n \in 2..Len(r) : FromEnd(r, n) = FromEnd(s, n - 1)
         /\ \A i \in 1..Len(s) : r[i] = s[i]
         /\ r[Len(s) + 1] = t
<1>1. s \in Seq(Int) /\ Len(s) \in Nat /\ \A i \in 1..Len(s) : s[i] \in Int
  BY DEF Times
<1>2. /\ r \in Seq(Int) /\ Len(r) = Len(s) + 1 /\ r[Len(s) + 1] = t
      /\ \A i \in 1..Len(s) : r[i] = s[i]
  BY <1>1 DEF WithNow
<1>3. ASSUME NEW i \in 1..Len(r), NEW j \in 1..Len(r), i <= j PROVE r[i] <= r[j]
  <2>1. i \in 1..Len(s) \/ i = Len(s) + 1
    BY <1>1, <1>2
  <2>2. j \in 1..Len(s) \/ (j = Len(s) + 1)
    BY <1>1, <1>2
  <2> QED
    BY ONLY <1>1, <1>2, <1>3, <2>1, <2>2, Times(s, t), t \in Nat DEF Times
<1>4. ASSUME NEW i \in 1..Len(r) PROVE 0 <= r[i] /\ r[i] <= t
  <2>1. i \in 1..Len(s) \/ i = Len(s) + 1
    BY <1>1, <1>2
  <2> QED
    BY ONLY <1>1, <1>2, <2>1, Times(s, t), t \in Nat DEF Times
<1>5. FromEnd(r, 1) = t
  BY ONLY <1>1, <1>2 DEF FromEnd
<1>6. ASSUME NEW n \in 2..Len(r) PROVE FromEnd(r, n) = FromEnd(s, n - 1)
  <2>1. Len(r) - n + 1 \in 1..Len(s) /\ Len(r) - n + 1 = Len(s) - (n - 1) + 1
    BY <1>1, <1>2
  <2> QED
    BY ONLY <1>2, <2>1 DEF FromEnd
<1> QED
  BY ONLY <1>1, <1>2, <1>3, <1>4, <1>5, <1>6 DEF Times

\* What the sweep leaves of a bucket and a lock.
SweptFrom(b, c, t) == c = b \/ (c = <<>> /\ (b = <<>> \/ t - FromEnd(b, 1) > GuessWindow))

LEMMA SweepFits ==
  ASSUME NEW t \in Nat, NEW g, NEW b, NEW lock \in Int, Fits(g, b, lock, t),
         NEW c, SweptFrom(b, c, t), NEW l \in Int, l = lock \/ lock <= t
  PROVE  Fits(g, c, l, t)
<1>1. Fits(g, c, lock, t)
  BY BucketSwept DEF SweptFrom
<1> QED
  BY <1>1, LockSwept

\* A wrong guess of an address that is not locked out: counted with those still in the
\* window, and when they are too many the address is locked.
LEMMA GuessFits ==
  ASSUME NEW t \in Nat, NEW g, NEW b, NEW lock \in Int, Fits(g, b, lock, t), lock <= t,
         NEW c, WithNow(Kept(b, (t - GuessWindow)..t), t, c),
         NEW h, Since(t - GuessWindow - Lockout, t, Append(g, t), h)
  PROVE  /\ Len(c) >= MaxFailures => Fits(h, <<>>, t + Lockout, t)
         /\ Len(c) < MaxFailures => \A l \in Int : Fits(h, c, l, t)
<1> DEFINE k == Kept(b, (t - GuessWindow)..t)
           r == Append(g, t)
           M == MaxFailures
<1>1. Times(g, t) /\ Times(b, t) /\ Spaced(g)
  BY DEF Fits
<1>2. \A n \in 1..Len(g) : t - FromEnd(g, n) <= GuessWindow =>
        n <= Len(b) /\ FromEnd(b, n) = FromEnd(g, n)
  BY LockSwept
<1>3. Len(g) >= M /\ FromEnd(g, 1) - FromEnd(g, M) <= GuessWindow =>
        t >= FromEnd(g, 1) + Lockout
  BY LockSwept
<1>4. /\ Times(k, t) /\ Len(k) \in Nat /\ Len(b) \in Nat /\ Len(k) <= Len(b)
      /\ \A n \in 1..Len(k) : FromEnd(k, n) = FromEnd(b, n)
      /\ \A n \in 1..Len(b) : FromEnd(b, n) >= t - GuessWindow => n <= Len(k)
  <2>1. t - GuessWindow \in Int
    BY SignConstants
  <2> QED
    BY <1>1, <2>1, KeepsTheNewest DEF Since
<1>5. /\ Times(r, t) /\ Len(r) = Len(g) + 1 /\ Len(g) \in Nat
      /\ FromEnd(r, 1) = t /\ \A n \in 2..Len(r) : FromEnd(r, n) = FromEnd(g, n - 1)
      /\ \A i \in 1..Len(g) : r[i] = g[i]
      /\ r[Len(g) + 1] = t
  BY <1>1, OneMoreTime DEF WithNow
<1>6. t - GuessWindow - Lockout \in Int /\ M \in Nat \ {0} /\ Lockout \in Nat
      /\ GuessWindow \in Nat
  BY SignConstants
<1>7. WithNow(k, t, c) /\ Since(t - GuessWindow - Lockout, t, r, h)
  OBVIOUS
<1> HIDE DEF k, r, M
<1>8. /\ Times(c, t) /\ Len(c) = Len(k) + 1
      /\ FromEnd(c, 1) = t /\ \A n \in 2..Len(c) : FromEnd(c, n) = FromEnd(k, n - 1)
  BY ONLY <1>4, <1>7, t \in Nat, OneMoreTime
<1>9. /\ Times(h, t) /\ Len(h) \in Nat /\ Len(h) <= Len(r)
      /\ \A n \in 1..Len(h) : FromEnd(h, n) = FromEnd(r, n)
  BY ONLY <1>5, <1>6, <1>7, t \in Nat, KeepsTheNewest
<1>10. PICK d \in 0..Len(r) : /\ Len(h) = Len(r) - d
                              /\ \A i \in 1..(Len(r) - d) : h[i] = r[d + i]
  BY ONLY <1>5, <1>6, <1>7, t \in Nat, KeepsTheEnd
<1>11. ASSUME NEW n \in 1..Len(h), t - FromEnd(h, n) <= GuessWindow
       PROVE  n <= Len(c) /\ FromEnd(c, n) = FromEnd(h, n)
  <2>1. CASE n = 1
    BY ONLY <1>4, <1>5, <1>8, <1>9, <1>11, <2>1
  <2>2. CASE n # 1
    <3>1. n \in 2..Len(r) /\ n - 1 \in 1..Len(g) /\ FromEnd(h, n) = FromEnd(g, n - 1)
      BY ONLY <1>5, <1>9, <2>2, n \in 1..Len(h)
    <3>2. n - 1 <= Len(b) /\ FromEnd(b, n - 1) = FromEnd(g, n - 1)
      BY ONLY <1>2, <1>11, <3>1
    <3>3. FromEnd(g, n - 1) \in Int
      BY ONLY <1>1, <3>1, t \in Nat, FromEndTyped
    <3>4. n - 1 \in 1..Len(b) /\ FromEnd(b, n - 1) >= t - GuessWindow
      BY ONLY <1>4, <1>6, <1>11, <3>1, <3>2, <3>3, t \in Nat
    <3>5. n - 1 <= Len(k) /\ FromEnd(k, n - 1) = FromEnd(b, n - 1)
      BY ONLY <1>4, <3>4
    <3>6. n <= Len(c) /\ n \in 2..Len(c)
      BY ONLY <1>4, <1>8, <3>1, <3>5
    <3> QED
      BY ONLY <1>8, <3>1, <3>2, <3>5, <3>6
  <2> QED
    BY ONLY <2>1, <2>2
<1>12. Spaced(h)
  <2>1. ASSUME NEW i \in 1..(Len(h) - M), h[i + M - 1] - h[i] <= GuessWindow
        PROVE  h[i + M] - h[i + M - 1] >= Lockout
    <3> DEFINE j == d + i
    <3>1. /\ j \in 1..(Len(r) - M) /\ h[i] = r[j]
          /\ h[i + M - 1] = r[j + M - 1] /\ h[i + M] = r[j + M]
      <4>1. i \in 1..(Len(r) - d) /\ i + M - 1 \in 1..(Len(r) - d) /\ i + M \in 1..(Len(r) - d)
            /\ d + (i + M - 1) = j + M - 1 /\ d + (i + M) = j + M /\ j \in 1..(Len(r) - M)
        BY ONLY <1>5, <1>6, <1>10, i \in 1..(Len(h) - M), d \in 0..Len(r)
      <4> QED
        BY ONLY <1>10, <4>1
    <3> HIDE DEF j
    <3>2. j \in 1..Len(g) /\ j + M - 1 \in 1..Len(g) /\ r[j] = g[j] /\ r[j + M - 1] = g[j + M - 1]
      <4>1. j \in 1..Len(g) /\ j + M - 1 \in 1..Len(g)
        BY ONLY <1>5, <1>6, <3>1
      <4> QED
        BY ONLY <1>5, <4>1
    <3>3. CASE j + M \in 1..Len(g)
      <4>1. r[j + M] = g[j + M] /\ j \in 1..(Len(g) - M)
        BY ONLY <1>5, <1>6, <3>1, <3>3
      <4>2. g[j + M - 1] - g[j] <= GuessWindow
        BY ONLY <2>1, <3>1, <3>2
      <4>3. g[j + M] - g[j + M - 1] >= Lockout
        BY <1>1, <4>1, <4>2 DEF Spaced, M
      <4> QED
        BY ONLY <3>1, <3>2, <4>1, <4>3
    <3>4. CASE j + M \notin 1..Len(g)
      <4>1. j + M = Len(g) + 1 /\ j + M - 1 = Len(g) /\ Len(g) >= M /\ j = Len(g) - M + 1
        <5>1. Len(r) = Len(g) + 1 /\ Len(g) \in Nat /\ M \in Nat \ {0}
          BY ONLY <1>5, <1>6
        <5>2. j \in 1..(Len(r) - M)
          BY ONLY <3>1
        <5> QED
          BY ONLY <3>4, <5>1, <5>2
      <4>2. FromEnd(g, 1) = g[j + M - 1] /\ FromEnd(g, M) = g[j]
        <5>1. Len(g) - 1 + 1 = j + M - 1 /\ Len(g) - M + 1 = j
          BY ONLY <1>5, <1>6, <4>1
        <5> QED
          BY ONLY <5>1 DEF FromEnd
      <4>3. FromEnd(g, 1) - FromEnd(g, M) <= GuessWindow
        BY ONLY <2>1, <3>1, <3>2, <4>2
      <4>4. t >= FromEnd(g, 1) + Lockout
        BY ONLY <1>3, <4>1, <4>3
      <4>5. r[j + M] = t /\ FromEnd(g, 1) \in Int
        <5>1. 1 \in 1..Len(g)
          BY ONLY <1>5, <1>6, <4>1
        <5>2. FromEnd(g, 1) \in Int
          BY ONLY <1>1, <5>1, t \in Nat, FromEndTyped
        <5> QED
          BY ONLY <1>5, <4>1, <5>2
      <4>6. r[j + M - 1] = FromEnd(g, 1)
        BY ONLY <3>2, <4>2
      <4>7. r[j + M] - r[j + M - 1] >= Lockout
        BY ONLY <1>6, <4>4, <4>5, <4>6, t \in Nat
      <4> QED
        BY ONLY <3>1, <4>7
    <3> QED
      BY ONLY <3>3, <3>4
  <2> QED
    BY <2>1 DEF Spaced, M
<1>13. FromEnd(h, 1) = t \/ Len(h) = 0
  BY ONLY <1>5, <1>9
<1>14. ASSUME Len(h) >= M, FromEnd(h, 1) - FromEnd(h, M) <= GuessWindow
       PROVE  Len(c) >= M
  <2>1. M \in 1..Len(h) /\ FromEnd(h, 1) = t
    BY ONLY <1>6, <1>9, <1>13, <1>14
  <2> QED
    BY ONLY <1>8, <1>4, <1>6, <1>11, <1>14, <2>1
<1>15. ASSUME Len(c) >= MaxFailures PROVE Fits(h, <<>>, t + Lockout, t)
  <2>1. \A n \in 1..Len(h) : FromEnd(h, 1) = t
    BY ONLY <1>9, <1>13
  <2>2. Counts(h, <<>>, t + Lockout, t)
    BY ONLY <1>6, <2>1, t \in Nat DEF Counts
  <2>3. Len(h) >= MaxFailures => FromEnd(h, 1) = t
    BY ONLY <1>6, <1>9, <1>13 DEF M
  <2>4. Locks(h, t + Lockout, t)
    BY ONLY <1>6, <2>3, t \in Nat DEF Locks, M
  <2>5. Times(<<>>, t) /\ Len(<<>>) < MaxFailures
    BY ONLY SignConstants, t \in Nat DEF Times
  <2> QED
    BY ONLY <1>9, <1>12, <2>2, <2>4, <2>5 DEF Fits
<1>16. ASSUME Len(c) < MaxFailures, NEW l \in Int PROVE Fits(h, c, l, t)
  <2>1. Counts(h, c, l, t)
    BY ONLY <1>11 DEF Counts
  <2>2. Locks(h, l, t)
    BY ONLY <1>4, <1>6, <1>8, <1>14, <1>16 DEF Locks, M
  <2> QED
    BY ONLY <1>8, <1>9, <1>12, <1>16, <2>1, <2>2 DEF Fits
<1> QED
  BY ONLY <1>15, <1>16

-----------------------------------------------------------------------------
(* The sign-in as a whole                                                   *)

BucketOf(k) == IF k \in DOMAIN bucket THEN bucket[k] ELSE <<>>
LockOf(k) == IF k \in DOMAIN until THEN until[k] ELSE 0

SignShape ==
  /\ screen \in Screens /\ now \in 0..SignClock
  /\ DOMAIN bucket \in SUBSET Guessers /\ DOMAIN until \in SUBSET Guessers
  /\ \A k \in DOMAIN until : until[k] \in Int
  /\ guesses = [k \in Guessers |-> guesses[k]]
SignInv == SignShape /\ \A k \in Guessers : Fits(guesses[k], BucketOf(k), LockOf(k), now)

LEMMA SignNumbers ==
  ASSUME SignShape
  PROVE  now \in Nat /\ \A k : LockOf(k) \in Int /\ (~LockedOut(k) => LockOf(k) <= now)
<1>1. now \in Nat
  BY SignConstants DEF SignShape
<1> QED
  BY <1>1 DEF SignShape, LockOf, LockedOut

\* The invariant, address by address.
LEMMA EachFits ==
  ASSUME SignShape',
         \A k \in Guessers : Fits(guesses[k]', BucketOf(k)', LockOf(k)', now')
  PROVE  SignInv'
  BY DEF SignInv

\* The sweep takes nothing that still counts.
LEMMA SweepIsSafe ==
  ASSUME SignInv, NEW k \in Guessers
  PROVE  /\ DOMAIN LiveBuckets \in SUBSET Guessers /\ DOMAIN LiveLocks \in SUBSET Guessers
         /\ \A j \in DOMAIN LiveLocks : LiveLocks[j] \in Int
         /\ SweptFrom(BucketOf(k), IF k \in DOMAIN LiveBuckets THEN LiveBuckets[k] ELSE <<>>, now)
         /\ LET lock == IF k \in DOMAIN LiveLocks THEN LiveLocks[k] ELSE 0
            IN lock \in Int /\ (lock = LockOf(k) \/ LockOf(k) <= now)
<1>1. /\ DOMAIN bucket \in SUBSET Guessers /\ DOMAIN until \in SUBSET Guessers
      /\ \A j \in DOMAIN until : until[j] \in Int
      /\ now \in Nat /\ LockOf(k) \in Int
  BY SignNumbers DEF SignInv, SignShape
<1>2. BucketOf(k) \in Seq(Int) /\ Len(BucketOf(k)) \in Nat
  BY DEF SignInv, Fits, Times
<1>3. CASE ~Sweeping
  BY <1>1, <1>3 DEF LiveBuckets, LiveLocks, SweptFrom, BucketOf, LockOf
<1>4. CASE Sweeping
  <2> DEFINE B == {j \in DOMAIN bucket : ~Dead(bucket[j])}
             L == {j \in DOMAIN until : until[j] > now}
  <2>1. /\ DOMAIN LiveBuckets = B /\ \A j \in B : LiveBuckets[j] = bucket[j]
        /\ DOMAIN LiveLocks = L /\ \A j \in L : LiveLocks[j] = until[j]
    BY <1>4 DEF LiveBuckets, LiveLocks, Only
  <2>2. SweptFrom(BucketOf(k), IF k \in DOMAIN LiveBuckets THEN LiveBuckets[k] ELSE <<>>, now)
    <3>1. CASE k \in B
      BY <2>1, <3>1 DEF SweptFrom, BucketOf
    <3>2. CASE k \notin DOMAIN bucket
      BY <2>1, <3>2 DEF SweptFrom, BucketOf
    <3>3. CASE k \in DOMAIN bucket /\ Dead(bucket[k])
      <4>1. BucketOf(k) = bucket[k] /\ k \notin B
        BY <3>3 DEF BucketOf
      <4>2. Len(BucketOf(k)) - 1 + 1 = Len(BucketOf(k))
        BY <1>2
      <4>3. BucketOf(k) = <<>> \/ now - FromEnd(BucketOf(k), 1) > GuessWindow
        BY <3>3, <4>1, <4>2 DEF Dead, Last, FromEnd
      <4> QED
        BY <2>1, <4>1, <4>3 DEF SweptFrom
    <3> QED
      BY <3>1, <3>2, <3>3
  <2>3. CASE k \in L
    BY <1>1, <2>1, <2>2, <2>3 DEF LockOf
  <2>4. CASE k \notin L
    <3>1. LockOf(k) <= now
      BY <1>1, <2>4 DEF LockOf
    <3> QED
      BY <1>1, <2>1, <2>2, <2>4, <3>1
  <2> QED
    BY <2>3, <2>4
<1> QED
  BY <1>3, <1>4

LEMMA WrongGuessKeeps ==
  ASSUME SignInv, NEW k \in Guessers, WrongGuess(k)
  PROVE  SignInv'
<1> DEFINE b == IF k \in DOMAIN LiveBuckets THEN LiveBuckets[k] ELSE <<>>
           c == CountedFailures(k)
           full == Len(c) >= MaxFailures
           h == Recent(Append(guesses[k], now))
<1>1. /\ ~LockedOut(k) /\ now' = now /\ screen' = screen
      /\ bucket' = With(LiveBuckets, k, IF full THEN <<>> ELSE c)
      /\ until' = IF full THEN With(LiveLocks, k, now + Lockout) ELSE LiveLocks
      /\ guesses' = [guesses EXCEPT ![k] = h]
  BY DEF WrongGuess
<1>2. /\ now \in Nat /\ LockOf(k) \in Int /\ LockOf(k) <= now /\ SignShape
      /\ Fits(guesses[k], BucketOf(k), LockOf(k), now)
      /\ \A j \in Guessers : LockOf(j) \in Int
  BY <1>1, SignNumbers DEF SignInv
<1>3. /\ DOMAIN LiveBuckets \in SUBSET Guessers /\ DOMAIN LiveLocks \in SUBSET Guessers
      /\ \A j \in DOMAIN LiveLocks : LiveLocks[j] \in Int
      /\ SweptFrom(BucketOf(k), b, now)
  BY SweepIsSafe
<1>4. Fits(guesses[k], b, LockOf(k), now)
  BY <1>2, <1>3, SweepFits
<1>5. WithNow(Kept(b, (now - GuessWindow)..now), now, c)
      /\ Since(now - GuessWindow - Lockout, now, Append(guesses[k], now), h)
  BY DEF WithNow, Since, CountedFailures, Recent
<1> HIDE DEF b, c, h
<1>6. /\ Len(c) >= MaxFailures => Fits(h, <<>>, now + Lockout, now)
      /\ Len(c) < MaxFailures => \A l \in Int : Fits(h, c, l, now)
  BY <1>2, <1>4, <1>5, GuessFits
<1>7. Len(c) \in Int /\ MaxFailures \in Int /\ now + Lockout \in Int
  <2>1. Times(Kept(b, (now - GuessWindow)..now), now)
    <3>1. Times(b, now) /\ now - GuessWindow \in Int
      BY <1>2, <1>4, SignConstants DEF Fits
    <3> QED
      BY <1>2, <3>1, KeepsTheNewest DEF Since
  <2>2. Times(c, now)
    BY <1>2, <1>5, <2>1, OneMoreTime
  <2> QED
    BY <1>2, <2>2, SignConstants DEF Times
<1>8. /\ DOMAIN bucket' = DOMAIN LiveBuckets \cup {k}
      /\ bucket'[k] = IF full THEN <<>> ELSE c
      /\ \A j \in DOMAIN bucket' \ {k} : bucket'[j] = LiveBuckets[j]
  BY <1>1 DEF With
<1>9. /\ full => /\ DOMAIN until' = DOMAIN LiveLocks \cup {k} /\ until'[k] = now + Lockout
                 /\ \A j \in DOMAIN until' \ {k} : until'[j] = LiveLocks[j]
      /\ ~full => until' = LiveLocks
  BY <1>1 DEF With
<1>10. SignShape'
  <2>1. \A j \in DOMAIN until' : until'[j] \in Int
    BY <1>3, <1>7, <1>9
  <2>2. DOMAIN until' \in SUBSET Guessers
    BY <1>3, <1>9
  <2>3. guesses' = [j \in Guessers |-> guesses'[j]]
    BY <1>1, <1>2 DEF SignShape
  <2> QED
    BY <1>1, <1>2, <1>3, <1>8, <2>1, <2>2, <2>3 DEF SignShape
<1>11. Fits(guesses'[k], BucketOf(k)', LockOf(k)', now')
  <2>1. guesses'[k] = h
    <3>1. guesses = [j \in Guessers |-> guesses[j]]
      BY <1>2 DEF SignShape
    <3> QED
      BY ONLY <1>1, <3>1, k \in Guessers
  <2>2. BucketOf(k)' = IF full THEN <<>> ELSE c
    BY <1>8 DEF BucketOf
  <2>3. CASE full
    <3>1. LockOf(k)' = now + Lockout
      BY <1>9, <2>3 DEF LockOf
    <3> QED
      BY <1>1, <1>6, <2>1, <2>2, <2>3, <3>1
  <2>4. CASE ~full
    <3>1. LockOf(k)' \in Int
      BY <1>10 DEF SignShape, LockOf
    <3> QED
      BY <1>1, <1>6, <1>7, <2>1, <2>2, <2>4, <3>1
  <2> QED
    BY <2>3, <2>4
<1>12. ASSUME NEW j \in Guessers \ {k} PROVE Fits(guesses'[j], BucketOf(j)', LockOf(j)', now')
  <2> DEFINE bj == IF j \in DOMAIN LiveBuckets THEN LiveBuckets[j] ELSE <<>>
             lj == IF j \in DOMAIN LiveLocks THEN LiveLocks[j] ELSE 0
  <2>1. SweptFrom(BucketOf(j), bj, now) /\ lj \in Int /\ (lj = LockOf(j) \/ LockOf(j) <= now)
    BY SweepIsSafe
  <2>2. BucketOf(j)' = bj
    BY <1>8 DEF BucketOf
  <2>3. LockOf(j)' = lj
    BY <1>9 DEF LockOf
  <2>4. guesses'[j] = guesses[j]
    BY <1>1
  <2>5. Fits(guesses[j], BucketOf(j), LockOf(j), now)
    BY DEF SignInv
  <2> HIDE DEF bj, lj
  <2>6. Fits(guesses[j], bj, lj, now)
    BY <1>2, <2>1, <2>5, SweepFits
  <2> QED
    BY <1>1, <2>2, <2>3, <2>4, <2>6
<1> QED
  BY <1>10, <1>11, <1>12, EachFits

LEMMA SignInvSteps == SignInv /\ [SignNext]_signVars => SignInv'
<1> SUFFICES ASSUME SignInv, [SignNext]_signVars PROVE SignInv'
  OBVIOUS
<1>0. /\ now \in Nat /\ SignShape /\ \A k \in Guessers : LockOf(k) \in Int
      /\ \A k \in Guessers : Fits(guesses[k], BucketOf(k), LockOf(k), now)
      /\ guesses = [k \in Guessers |-> guesses[k]]
  BY SignNumbers DEF SignInv, SignShape
<1>1. CASE UNCHANGED signVars
  BY <1>1 DEF signVars, SignInv, SignShape, BucketOf, LockOf
<1>2. ASSUME NEW k \in Guessers, WrongGuess(k) PROVE SignInv'
  BY <1>2, WrongGuessKeeps
<1>3. ASSUME NEW k \in Guessers, RightGuess(k) PROVE SignInv'
  <2>1. /\ DOMAIN bucket' = DOMAIN bucket \ {k}
        /\ \A j \in DOMAIN bucket \ {k} : bucket'[j] = bucket[j]
        /\ now' = now /\ screen' = screen /\ guesses' = [guesses EXCEPT ![k] = <<>>]
    BY <1>3 DEF RightGuess, Only
  <2>2. /\ DOMAIN until' \in SUBSET DOMAIN until /\ DOMAIN until \ {k} \subseteq DOMAIN until'
        /\ \A j \in DOMAIN until' : until'[j] = until[j]
    BY <1>3 DEF RightGuess, Only
  <2>3. guesses'[k] = <<>> /\ \A j \in Guessers \ {k} : guesses'[j] = guesses[j]
    BY <1>0, <2>1
  <2>4. SignShape'
    <3>1. guesses' = [j \in Guessers |-> guesses'[j]]
      BY <1>0, <2>1
    <3> QED
      BY <1>0, <2>1, <2>2, <3>1 DEF SignShape
  <2>5. Fits(guesses'[k], BucketOf(k)', LockOf(k)', now')
    <3>1. BucketOf(k)' = <<>>
      BY <2>1 DEF BucketOf
    <3>2. LockOf(k)' \in Int
      BY <2>4 DEF LockOf, SignShape
    <3> QED
      BY <1>0, <2>1, <2>3, <3>1, <3>2, NothingFits
  <2>6. ASSUME NEW j \in Guessers \ {k} PROVE Fits(guesses'[j], BucketOf(j)', LockOf(j)', now')
    <3>1. BucketOf(j)' = BucketOf(j)
      BY <2>1 DEF BucketOf
    <3>2. LockOf(j)' = LockOf(j)
      BY <2>2 DEF LockOf
    <3> QED
      BY <1>0, <2>1, <2>3, <3>1, <3>2
  <2> QED
    BY <2>4, <2>5, <2>6, EachFits
<1>4. CASE DoorRestarts
  <2>1. /\ DOMAIN bucket' = {} /\ DOMAIN until' = {} /\ now' = now /\ screen' = screen
        /\ guesses' = [k \in Guessers |-> <<>>]
    BY <1>4 DEF DoorRestarts, NoEntry
  <2>2. SignShape'
    BY <1>0, <2>1 DEF SignShape
  <2>3. ASSUME NEW k \in Guessers PROVE Fits(guesses'[k], BucketOf(k)', LockOf(k)', now')
    <3>1. guesses'[k] = <<>> /\ BucketOf(k)' = <<>> /\ LockOf(k)' = 0
      BY <2>1 DEF BucketOf, LockOf
    <3> QED
      BY <1>0, <2>1, <3>1, NothingFits
  <2> QED
    BY <2>2, <2>3, EachFits
<1>5. CASE SecondPasses
  <2>1. now' = now + 1 /\ now < SignClock /\ UNCHANGED <<screen, bucket, until, guesses>>
    BY <1>5 DEF SecondPasses
  <2>2. SignShape' /\ now' \in Nat /\ now <= now'
    BY <1>0, <2>1, SignConstants DEF SignShape
  <2>3. ASSUME NEW k \in Guessers PROVE Fits(guesses'[k], BucketOf(k)', LockOf(k)', now')
    <3>1. guesses'[k] = guesses[k] /\ BucketOf(k)' = BucketOf(k) /\ LockOf(k)' = LockOf(k)
      BY <2>1 DEF BucketOf, LockOf
    <3>2. Fits(guesses[k], BucketOf(k), LockOf(k), now')
      BY <1>0, <2>2, TimePasses
    <3> QED
      BY <3>1, <3>2
  <2> QED
    BY <2>2, <2>3, EachFits
<1> QED
  BY <1>1, <1>2, <1>3, <1>4, <1>5 DEF SignNext

LEMMA SignStarts == SignInit => SignInv
<1> SUFFICES ASSUME SignInit PROVE SignInv
  OBVIOUS
<1>1. /\ DOMAIN bucket = {} /\ DOMAIN until = {} /\ now = 0 /\ screen \in Screens
      /\ guesses = [k \in Guessers |-> <<>>]
  BY DEF SignInit, NoEntry
<1>2. SignShape
  BY <1>1, SignConstants DEF SignShape
<1>3. \A k \in Guessers : guesses[k] = <<>> /\ BucketOf(k) = <<>> /\ LockOf(k) = 0
  BY <1>1 DEF BucketOf, LockOf
<1>4. Fits(<<>>, <<>>, 0, now)
  BY <1>1, NothingFits
<1> QED
  BY <1>2, <1>3, <1>4 DEF SignInv

LEMMA SignInvBounds == SignInv => SignTypeOK /\ GuessesBounded
<1> SUFFICES ASSUME SignInv PROVE SignTypeOK /\ GuessesBounded
  OBVIOUS
<1>1. ASSUME NEW k \in DOMAIN bucket PROVE Len(bucket[k]) < MaxFailures
  <2>1. k \in Guessers
    BY DEF SignInv, SignShape
  <2>2. Len(BucketOf(k)) < MaxFailures
    BY <2>1 DEF SignInv, Fits
  <2> QED
    BY <2>2 DEF BucketOf
<1>2. SignTypeOK
  BY <1>1 DEF SignInv, SignShape, SignTypeOK
<1>3. ASSUME NEW k \in Guessers, NEW i \in 1..(Len(guesses[k]) - MaxFailures),
             guesses[k][i + MaxFailures - 1] - guesses[k][i] <= GuessWindow
      PROVE  guesses[k][i + MaxFailures - 1 + 1] - guesses[k][i + MaxFailures - 1] >= Lockout
  <2>1. Spaced(guesses[k]) /\ Times(guesses[k], now)
    BY DEF SignInv, Fits
  <2>2. i + MaxFailures - 1 + 1 = i + MaxFailures
    <3>1. i \in Int
      BY <2>1, SignConstants DEF Times
    <3> QED
      BY <3>1, SignConstants
  <2>3. guesses[k][i + MaxFailures] - guesses[k][i + MaxFailures - 1] >= Lockout
    BY <1>3, <2>1 DEF Spaced
  <2> QED
    BY <2>2, <2>3
<1>4. GuessesBounded
  BY <1>3 DEF GuessesBounded
<1> QED
  BY <1>2, <1>4

\* Wherever MaxFailures guesses of an address fall within a window, its next one is
\* compared when the lockout is over, at either door, whatever the other addresses do and
\* whatever the sweep takes out of the maps on their behalf.
THEOREM GuessingIsBounded == SignSpec => [](SignTypeOK /\ GuessesBounded)
<1>1. SignInit => SignInv
  BY SignStarts
<1>2. SignInv /\ [SignNext]_signVars => SignInv'
  BY SignInvSteps
<1>3. SignInv => SignTypeOK /\ GuessesBounded
  BY SignInvBounds
<1> QED
  BY <1>1, <1>2, <1>3, PTL DEF SignSpec

-----------------------------------------------------------------------------
(* The alert outbox                                                         *)

LEMMA OutboxConstants ==
  /\ MaxAlerts \in Nat /\ MaxTries \in Nat \ {0} /\ BatchSize \in Nat \ {0}
  /\ MaxDeaths \in Nat
  BY OutboxAssumption

\* A drain: its rows, as many copies of their tries, and the outcomes so far.
DrainShape(b) ==
  /\ b \in [rows : Seq(Int), copies : Seq(0..MaxTries), done : Seq(BOOLEAN)]
  /\ Len(b.copies) = Len(b.rows) /\ Len(b.done) <= Len(b.rows)

OutboxShape ==
  /\ configured \in BOOLEAN /\ deaths \in 0..MaxDeaths
  /\ queue \in Seq(Alert) /\ Len(queue) <= MaxAlerts
  /\ posts \in Seq(BOOLEAN) /\ Len(posts) = Len(queue)
  /\ tasks \in Seq([alert : 1..MaxAlerts, status : {"pending", "done"}])
  /\ batch = [c \in Couriers |-> batch[c]] /\ \A c \in Couriers : DrainShape(batch[c])

LEMMA IdleIsShaped == DrainShape(Idle)
  BY DEF DrainShape, Idle

\* One courier's drain changes.
LEMMA OneDrain ==
  ASSUME OutboxShape, NEW c \in Couriers, NEW b, DrainShape(b), batch' = [batch EXCEPT ![c] = b]
  PROVE  batch' = [d \in Couriers |-> batch'[d]] /\ \A d \in Couriers : DrainShape(batch'[d])
<1>1. batch' = [d \in Couriers |-> IF d = c THEN b ELSE batch[d]]
  BY DEF OutboxShape
<1> QED
  BY <1>1 DEF OutboxShape

LEMMA AlertRaised ==
  ASSUME OutboxShape, NEW call \in BOOLEAN, Len(queue) < MaxAlerts, queue' = NewAlert(call),
         posts' = Append(posts, FALSE)
  PROVE  /\ queue' \in Seq(Alert) /\ Len(queue') <= MaxAlerts
         /\ posts' \in Seq(BOOLEAN) /\ Len(posts') = Len(queue')
         /\ Len(queue) + 1 \in 1..MaxAlerts
<1>1. [call |-> call, delivered |-> FALSE, tries |-> 0] \in Alert
  BY OutboxConstants DEF Alert
<1>2. queue \in Seq(Alert) /\ Len(queue) \in Nat /\ posts \in Seq(BOOLEAN) /\ Len(posts) = Len(queue)
  BY DEF OutboxShape
<1>3. queue' \in Seq(Alert) /\ Len(queue') = Len(queue) + 1
  BY <1>1, <1>2 DEF NewAlert
<1>4. posts' \in Seq(BOOLEAN) /\ Len(posts') = Len(posts) + 1
  BY <1>2
<1> QED
  BY <1>2, <1>3, <1>4, OutboxConstants

\* The page a courier selects: rows of the queue, in order.
LEMMA PageTyped ==
  ASSUME OutboxShape
  PROVE  /\ Page \in Seq(Int) /\ Len(Page) \in Nat
         /\ \A k \in 1..Len(Page) : Page[k] \in 1..Len(queue)
<1> DEFINE due == {n \in 1..Len(queue) : Deliverable(n)}
           all == [n \in 1..Len(queue) |-> n]
           rows == Kept(all, due)
<1>1. all \in Seq(Int)
  BY DEF OutboxShape
<1>2. rows \in Seq(Int \cap due)
  BY <1>1, KeptElements
<1>3. Int \cap due \subseteq 1..Len(queue) /\ 1..Len(queue) \subseteq Int
  OBVIOUS
<1> HIDE DEF due
<1>4. rows \in Seq(1..Len(queue))
  BY <1>2, <1>3
<1>5. Page = SubSeq(rows, 1, IF Len(rows) < BatchSize THEN Len(rows) ELSE BatchSize)
  BY DEF Page, due
<1> HIDE DEF rows
<1>6. Page \in Seq(1..Len(queue))
  BY <1>4, <1>5, OutboxConstants
<1> QED
  BY <1>3, <1>6

\* What the commit of a drain makes of a row.
LEMMA OutcomeTyped ==
  ASSUME NEW item \in Alert, NEW copy \in 0..MaxTries, NEW answered \in BOOLEAN
  PROVE  Outcome(item, copy, answered) \in Alert
<1>1. Capped3(copy + 1) \in 0..MaxTries
  BY OutboxConstants DEF Capped3
<1>2. [item EXCEPT !.delivered = TRUE] \in Alert
  BY DEF Alert
<1>3. [item EXCEPT !.tries = Capped3(copy + 1)] \in Alert
  BY <1>1 DEF Alert
<1> QED
  BY <1>2, <1>3 DEF Outcome

LEMMA OutboxStep == OutboxShape /\ [OutboxNext]_outboxVars => OutboxShape'
<1> SUFFICES ASSUME OutboxShape, [OutboxNext]_outboxVars PROVE OutboxShape'
  OBVIOUS
<1>1. CASE UNCHANGED outboxVars
  BY <1>1 DEF outboxVars, OutboxShape
<1>2. CASE RaiseAlert
  BY <1>2, AlertRaised DEF RaiseAlert, OutboxShape
<1>3. CASE RaiseCallTask
  <2>1. /\ queue' \in Seq(Alert) /\ Len(queue') <= MaxAlerts
        /\ posts' \in Seq(BOOLEAN) /\ Len(posts') = Len(queue')
        /\ Len(queue) + 1 \in 1..MaxAlerts
    BY <1>3, AlertRaised DEF RaiseCallTask
  <2>2. tasks' \in Seq([alert : 1..MaxAlerts, status : {"pending", "done"}])
    BY <1>3, <2>1 DEF RaiseCallTask, OutboxShape
  <2> QED
    BY <1>3, <2>1, <2>2 DEF RaiseCallTask, OutboxShape
<1>4. ASSUME NEW t \in 1..MaxAlerts, CompleteTask(t) PROVE OutboxShape'
  <2>1. tasks' \in Seq([alert : 1..MaxAlerts, status : {"pending", "done"}])
    <3> DEFINE T == [alert : 1..MaxAlerts, status : {"pending", "done"}]
               task == [tasks[t] EXCEPT !.status = "done"]
    <3>1. tasks \in Seq(T) /\ t \in DOMAIN tasks /\ tasks' = [tasks EXCEPT ![t] = task]
      BY <1>4 DEF CompleteTask, OutboxShape
    <3>2. tasks[t] \in T
      <4> HIDE DEF T
      <4>1. t \in 1..Len(tasks)
        BY <3>1
      <4> QED
        BY <3>1, <4>1, ElementOfSeq
    <3>3. task \in T
      BY <3>2
    <3> HIDE DEF T, task
    <3>4. tasks' \in Seq(T)
      <4>1. Replaced(tasks, t, task, tasks')
        BY <3>1 DEF Replaced
      <4> QED
        BY ONLY <3>1, <3>3, <4>1, OneElementChanged
    <3> QED
      BY <3>4 DEF T
  <2> QED
    BY <1>4, <2>1 DEF CompleteTask, OutboxShape
<1>5. ASSUME NEW c \in Couriers, SelectAlerts(c) PROVE OutboxShape'
  <2> DEFINE copies == [k \in 1..Len(Page) |-> queue[Page[k]].tries]
             b == [rows |-> Page, copies |-> copies, done |-> <<>>]
  <2>1. batch' = [batch EXCEPT ![c] = b] /\ UNCHANGED <<configured, queue, posts, tasks, deaths>>
    BY <1>5 DEF SelectAlerts
  <2>2. /\ Page \in Seq(Int) /\ Len(Page) \in Nat
        /\ \A k \in 1..Len(Page) : queue[Page[k]].tries \in 0..MaxTries
    <3>1. \A n \in 1..Len(queue) : queue[n].tries \in 0..MaxTries
      <4>1. \A n \in 1..Len(queue) : queue[n] \in Alert
        BY DEF OutboxShape
      <4> QED
        BY <4>1 DEF Alert
    <3> QED
      BY <3>1, PageTyped
  <2>3. copies \in Seq(0..MaxTries) /\ Len(copies) = Len(Page)
    BY <2>2
  <2> HIDE DEF copies
  <2>4. DrainShape(b)
    BY <2>2, <2>3 DEF DrainShape
  <2> HIDE DEF b
  <2>5. batch' = [d \in Couriers |-> batch'[d]] /\ \A d \in Couriers : DrainShape(batch'[d])
    BY <2>1, <2>4, OneDrain
  <2> QED
    BY <2>1, <2>5 DEF OutboxShape
<1>6. ASSUME NEW c \in Couriers, NEW answered \in BOOLEAN, NEW received \in BOOLEAN,
             PostAlert(c, answered, received)
      PROVE  OutboxShape'
  <2> DEFINE k == Len(batch[c].done) + 1
             b == [batch[c] EXCEPT !.done = Append(batch[c].done, answered)]
             r == batch[c].rows[k]
  <2>1. /\ k <= Len(batch[c].rows) /\ posts' = [posts EXCEPT ![r] = @ \/ received]
        /\ batch' = [batch EXCEPT ![c] = b]
        /\ UNCHANGED <<configured, queue, tasks, deaths>>
    BY <1>6 DEF PostAlert
  <2>2. /\ batch[c] \in [rows : Seq(Int), copies : Seq(0..MaxTries), done : Seq(BOOLEAN)]
        /\ Len(batch[c].copies) = Len(batch[c].rows)
        /\ batch[c].done \in Seq(BOOLEAN)
    BY DEF OutboxShape, DrainShape
  <2>3. /\ Append(batch[c].done, answered) \in Seq(BOOLEAN)
        /\ Len(Append(batch[c].done, answered)) = k
    BY <2>2
  <2>4. DrainShape(b)
    BY <2>1, <2>2, <2>3 DEF DrainShape
  <2>5. posts' \in Seq(BOOLEAN) /\ Len(posts') = Len(posts)
    <3>1. posts \in Seq(BOOLEAN)
      BY DEF OutboxShape
    <3> DEFINE got == posts[r] \/ received
    <3>2. got \in BOOLEAN
      OBVIOUS
    <3>3. posts' = [posts EXCEPT ![r] = got]
      BY <2>1
    <3>4. Replaced(posts, r, got, posts')
      BY <3>3 DEF Replaced
    <3> HIDE DEF r, got
    <3> QED
      BY ONLY <3>1, <3>2, <3>4, OneElementChanged
  <2> HIDE DEF b
  <2>6. batch' = [d \in Couriers |-> batch'[d]] /\ \A d \in Couriers : DrainShape(batch'[d])
    BY <2>1, <2>4, OneDrain
  <2> QED
    BY <2>1, <2>5, <2>6 DEF OutboxShape
<1>7. ASSUME NEW c \in Couriers, CommitDrain(c) PROVE OutboxShape'
  <2> DEFINE b == batch[c]
             At(n) == CHOOSE k \in 1..Len(b.rows) : b.rows[k] = n
             Held == {b.rows[k] : k \in 1..Len(b.rows)}
             out == [n \in 1..Len(queue) |->
                      IF n \in Held THEN Outcome(queue[n], b.copies[At(n)], b.done[At(n)])
                                    ELSE queue[n]]
  <2>1. /\ Len(b.done) = Len(b.rows) /\ queue' = out /\ batch' = [batch EXCEPT ![c] = Idle]
        /\ UNCHANGED <<configured, posts, tasks, deaths>>
    BY <1>7 DEF CommitDrain
  <2>2. DrainShape(b) /\ queue \in Seq(Alert) /\ Len(queue) \in Nat
    BY DEF OutboxShape
  <2>3. ASSUME NEW n \in 1..Len(queue), n \in Held
        PROVE  Outcome(queue[n], b.copies[At(n)], b.done[At(n)]) \in Alert
    <3>1. At(n) \in 1..Len(b.rows)
      BY <2>3
    <3> HIDE DEF At
    <3>2. b.copies[At(n)] \in 0..MaxTries /\ b.done[At(n)] \in BOOLEAN
      <4>1. /\ b.copies \in Seq(0..MaxTries) /\ b.done \in Seq(BOOLEAN)
            /\ Len(b.copies) = Len(b.rows) /\ Len(b.done) = Len(b.rows)
        BY <2>1, <2>2 DEF DrainShape
      <4> HIDE DEF b
      <4>2. At(n) \in 1..Len(b.copies) /\ At(n) \in 1..Len(b.done)
        BY <3>1, <4>1
      <4> QED
        BY <4>1, <4>2, ElementOfSeq
    <3>3. queue[n] \in Alert
      BY <2>2
    <3> QED
      BY <3>2, <3>3, OutcomeTyped
  <2>4. \A n \in 1..Len(queue) : out[n] \in Alert
    <3> HIDE DEF At, Held
    <3>1. \A n \in 1..Len(queue) : queue[n] \in Alert
      BY <2>2
    <3> QED
      BY <2>3, <3>1
  <2>5. out \in Seq(Alert) /\ Len(out) = Len(queue)
    <3>1. out = [n \in 1..Len(queue) |-> out[n]]
      OBVIOUS
    <3> HIDE DEF out
    <3> QED
      BY <2>2, <2>4, <3>1
  <2>6. batch' = [d \in Couriers |-> batch'[d]] /\ \A d \in Couriers : DrainShape(batch'[d])
    BY <2>1, IdleIsShaped, OneDrain
  <2> HIDE DEF out
  <2> QED
    BY <2>1, <2>5, <2>6 DEF OutboxShape
<1>8. ASSUME NEW c \in Couriers, DrainDies(c) PROVE OutboxShape'
  <2>1. batch' = [d \in Couriers |-> batch'[d]] /\ \A d \in Couriers : DrainShape(batch'[d])
    BY <1>8, IdleIsShaped, OneDrain DEF DrainDies
  <2>2. deaths' \in 0..MaxDeaths
    BY <1>8, OutboxConstants DEF DrainDies, OutboxShape
  <2> QED
    BY <1>8, <2>1, <2>2 DEF DrainDies, OutboxShape
<1> QED
  BY <1>1, <1>2, <1>3, <1>4, <1>5, <1>6, <1>7, <1>8 DEF OutboxNext, Drain

\* Every state has the declared types: a row's tries stay within their limit although a
\* drain counts them from a copy, and a drain has no more outcomes than rows.
THEOREM OutboxTypeCorrect == OutboxSpec => []OutboxTypeOK
<1>1. OutboxInit => OutboxShape
  <2> SUFFICES ASSUME OutboxInit PROVE OutboxShape
    OBVIOUS
  <2>1. deaths \in 0..MaxDeaths /\ Len(<<>>) <= MaxAlerts
    BY OutboxConstants DEF OutboxInit
  <2> QED
    BY <2>1, IdleIsShaped DEF OutboxInit, OutboxShape
<1>2. OutboxShape => OutboxTypeOK
  BY DEF OutboxShape, DrainShape, OutboxTypeOK
<1> QED
  BY <1>1, <1>2, OutboxStep, PTL DEF OutboxSpec

-----------------------------------------------------------------------------
(* The audit trail                                                          *)

LEMMA AuditConstants ==
  /\ MaxEvents \in Nat /\ Interval \in Nat \ {0} /\ MaxRewrites \in Nat /\ MaxTickDeaths \in Nat
  /\ Ids = 1..MaxEvents /\ Ids \subseteq Int
  BY AuditAssumption DEF Ids

\* What a keyed hash is, and that it was computed over row i, unrewritten, as its last row.
Pair == (0..MaxEvents) \X (0..1)
Hash == Seq(Pair)
Proves(h, i) == h \in Hash /\ Len(h) # 0 /\ h[Len(h)] = <<i, 0>>

Stamp == [id : Ids, prev : Hash, hash : Hash]
Places == {"rest", "rows", "flush", "anchor", "verify", "commit"}
Session(pc, running, stamps, anchor, spot) ==
  [pc |-> pc, running |-> running, stamps |-> stamps, anchor |-> anchor, spot |-> spot]
SessionShape(x) ==
  /\ x = Session(x.pc, x.running, x.stamps, x.anchor, x.spot)
  /\ x.pc \in Places /\ x.running \in Hash /\ x.stamps \in Seq(Stamp)
  /\ x.anchor \in [last : Nat, head : Hash]

AuditShape ==
  /\ events \in [Ids -> [state : EventStates, content : 0..1, hash : Hash, prev : Hash]]
  /\ cps \in Seq([last : Nat, head : Hash])
  /\ session = [s \in Schedulers |-> session[s]]
  /\ \A s \in Schedulers : SessionShape(session[s])
  /\ verdict \in {"none", "ok", "failed"} /\ rewritten \in SUBSET Ids

\* A row is hashed only when committed, and then over the content it was logged with; it is
\* rewritten only when hashed.
RowSound(e, i) ==
  /\ e.hash # NoHash => e.state = "committed" /\ Proves(e.hash, i)
  /\ e.content # 0 => e.hash # NoHash
  /\ i \in rewritten => e.content = 1
RowsSound == \A i \in Ids : RowSound(events[i], i)

\* So is a stamp that a session holds, however long ago it read the row.
StampsSound ==
  \A s \in Schedulers : \A k \in 1..Len(session[s].stamps) :
    LET stamp == session[s].stamps[k]
    IN events[stamp.id].state = "committed" /\ Proves(stamp.hash, stamp.id)

AuditInv == AuditShape /\ RowsSound /\ StampsSound

LEMMA ProofIsNotNothing ==
  ASSUME NEW h, NEW i \in Ids, Proves(h, i)
  PROVE  h # NoHash
<1>1. i # 0
  BY AuditConstants
<1>2. Len(NoHash) = 1 /\ NoHash[1] = <<0, 0>>
  BY DEF NoHash
<1> QED
  BY <1>1, <1>2 DEF Proves

LEMMA HashesTyped == Genesis \in Hash /\ NoHash \in Hash /\ NoAnchor \in [last : Nat, head : Hash]
<1>1. <<0, 0>> \in Pair
  BY AuditConstants DEF Pair
<1>2. Genesis \in Hash /\ NoHash \in Hash
  BY <1>1 DEF Genesis, NoHash, Hash
<1> QED
  BY <1>2 DEF NoAnchor

LEMMA RestIsShaped == SessionShape(AtRest) /\ AtRest.stamps = <<>> /\ AtRest.anchor = NoAnchor
                      /\ AtRest.pc = "rest"
  BY HashesTyped DEF SessionShape, Session, AtRest, Places

\* What the updates of a session leave alone.
LEMMA SessionFields ==
  ASSUME NEW x, NEW pc, NEW running, NEW stamps, NEW anchor, NEW spot,
         x = Session(pc, running, stamps, anchor, spot)
  PROVE  /\ x.pc = pc /\ x.running = running /\ x.stamps = stamps /\ x.anchor = anchor
         /\ x.spot = spot
  BY DEF Session

LEMMA SessionStarts ==
  ASSUME NEW pc, NEW running
  PROVE  [AtRest EXCEPT !.pc = pc, !.running = running]
           = Session(pc, running, <<>>, NoAnchor, 0)
<1>1. [AtRest EXCEPT !.pc = pc] = Session(pc, Genesis, <<>>, NoAnchor, 0)
  BY DEF Session, AtRest
<1>2. [Session(pc, Genesis, <<>>, NoAnchor, 0) EXCEPT !.running = running]
        = Session(pc, running, <<>>, NoAnchor, 0)
  BY DEF Session
<1> QED
  BY ONLY <1>1, <1>2

LEMMA SessionStamps ==
  ASSUME NEW x, SessionShape(x), NEW pc, NEW stamps
  PROVE  [x EXCEPT !.pc = pc, !.stamps = stamps]
           = Session(pc, x.running, stamps, x.anchor, x.spot)
<1>1. [x EXCEPT !.pc = pc] = Session(pc, x.running, x.stamps, x.anchor, x.spot)
  BY DEF SessionShape, Session
<1>2. [Session(pc, x.running, x.stamps, x.anchor, x.spot) EXCEPT !.stamps = stamps]
        = Session(pc, x.running, stamps, x.anchor, x.spot)
  BY DEF Session
<1> QED
  BY ONLY <1>1, <1>2

LEMMA SessionMarks ==
  ASSUME NEW x, SessionShape(x), NEW pc, NEW spot
  PROVE  [x EXCEPT !.pc = pc, !.spot = spot]
           = Session(pc, x.running, x.stamps, x.anchor, spot)
<1>1. [x EXCEPT !.pc = pc] = Session(pc, x.running, x.stamps, x.anchor, x.spot)
  BY DEF SessionShape, Session
<1>2. [Session(pc, x.running, x.stamps, x.anchor, x.spot) EXCEPT !.spot = spot]
        = Session(pc, x.running, x.stamps, x.anchor, spot)
  BY DEF Session
<1> QED
  BY ONLY <1>1, <1>2

LEMMA SessionMoves ==
  ASSUME NEW x, SessionShape(x), NEW pc, NEW anchor, NEW y,
         \/ y = [x EXCEPT !.pc = pc] /\ anchor = x.anchor
         \/ y = [x EXCEPT !.pc = pc, !.anchor = anchor]
  PROVE  y = Session(pc, x.running, x.stamps, anchor, x.spot)
<1>1. [x EXCEPT !.pc = pc] = Session(pc, x.running, x.stamps, x.anchor, x.spot)
  BY DEF SessionShape, Session
<1>2. [Session(pc, x.running, x.stamps, x.anchor, x.spot) EXCEPT !.anchor = anchor]
        = Session(pc, x.running, x.stamps, anchor, x.spot)
  BY DEF Session
<1>3. CASE y = [x EXCEPT !.pc = pc] /\ anchor = x.anchor
  BY ONLY <1>1, <1>3
<1>4. CASE y = [x EXCEPT !.pc = pc, !.anchor = anchor]
  BY ONLY <1>1, <1>2, <1>4
<1> QED
  BY <1>3, <1>4

\* The running hash after k rows of a stretch ends with the k-th.
LEMMA RecomputedTyped ==
  ASSUME AuditShape, NEW start \in Hash, NEW ids \in Seq(Ids), NEW k \in 0..Len(ids)
  PROVE  /\ Recomputed(start, ids, k) \in Hash
         /\ k # 0 => LET h == Recomputed(start, ids, k)
                     IN Len(h) # 0 /\ h[Len(h)] = <<ids[k], events[ids[k]].content>>
<1> DEFINE rest == [j \in 1..k |-> <<ids[j], events[ids[j]].content>>]
<1>1. k \in Nat /\ \A j \in 1..k : ids[j] \in Ids
  OBVIOUS
<1>2. \A j \in 1..k : events[ids[j]].content \in 0..1
  BY <1>1 DEF AuditShape
<1>3. \A j \in 1..k : <<ids[j], events[ids[j]].content>> \in Pair
  BY <1>1, <1>2, AuditConstants DEF Pair
<1>4. rest \in Seq(Pair) /\ Len(rest) = k /\ (k # 0 => rest[k] = <<ids[k], events[ids[k]].content>>)
  BY <1>1, <1>3
<1>5. Recomputed(start, ids, k) = start \o rest
  BY DEF Recomputed
<1>6. start \in Seq(Pair) /\ Len(start) \in Nat
  BY DEF Hash
<1> HIDE DEF rest
<1>7. /\ start \o rest \in Seq(Pair) /\ Len(start \o rest) = Len(start) + k
      /\ (k # 0 => (start \o rest)[Len(start) + k] = rest[k])
  <2>1. /\ start \o rest \in Seq(Pair) /\ Len(start \o rest) = Len(start) + Len(rest)
        /\ \A i \in 1..Len(start) + Len(rest) :
             (start \o rest)[i] = IF i <= Len(start) THEN start[i] ELSE rest[i - Len(start)]
    BY ONLY <1>4, <1>6, ConcatProperties
  <2>2. k # 0 => Len(start) + k \in 1..Len(start) + Len(rest)
    BY <1>1, <1>4, <1>6
  <2>3. k # 0 => ~(Len(start) + k <= Len(start)) /\ Len(start) + k - Len(start) = k
    BY <1>1, <1>6
  <2> QED
    BY ONLY <1>4, <2>1, <2>2, <2>3
<1> QED
  BY <1>1, <1>4, <1>5, <1>6, <1>7 DEF Hash

\* The rows of a query: committed, wanted, and all of those.
LEMMA RowsTyped ==
  ASSUME NEW wanted
  PROVE  /\ Rows(wanted) \in Seq(Ids) /\ Len(Rows(wanted)) \in Nat
         /\ \A k \in 1..Len(Rows(wanted)) : Rows(wanted)[k] \in Committed \cap wanted
         /\ \A i \in Committed \cap wanted : \E k \in 1..Len(Rows(wanted)) : Rows(wanted)[k] = i
<1> DEFINE S == Committed \cap wanted
<1>1. ById \in Seq(Ids) /\ Len(ById) = MaxEvents /\ \A i \in Ids : ById[i] = i
  BY AuditConstants DEF ById
<1>2. S \subseteq Ids
  BY DEF Committed
<1>3. Rows(wanted) = Kept(ById, S)
  BY DEF Rows
<1> HIDE DEF S
<1>4. /\ Kept(ById, S) \in Seq(Ids \cap S)
      /\ \A i \in 1..Len(ById) : ById[i] \in S =>
           \E k \in 1..Len(Kept(ById, S)) : Kept(ById, S)[k] = ById[i]
  <2>1. ById \in Seq(Ids)
    BY <1>1
  <2> QED
    BY ONLY <2>1, KeptElements
<1>5. ASSUME NEW i \in S PROVE \E k \in 1..Len(Rows(wanted)) : Rows(wanted)[k] = i
  <2>1. i \in 1..Len(ById) /\ ById[i] = i
    BY <1>1, <1>2, AuditConstants
  <2> QED
    BY <1>3, <1>4, <2>1
<1>6. Rows(wanted) \in Seq(Ids \cap S)
  BY <1>3, <1>4
<1>7. Ids \cap S \subseteq Ids
  OBVIOUS
<1>8. Rows(wanted) \in Seq(Ids) /\ Len(Rows(wanted)) \in Nat
  BY <1>6, <1>7
<1>9. \A k \in 1..Len(Rows(wanted)) : Rows(wanted)[k] \in S
  BY <1>6
<1> QED
  BY <1>5, <1>8, <1>9 DEF S

LEMMA NewestTyped ==
  ASSUME NEW chain \in Seq([last : Nat, head : Hash])
  PROVE  Newest(chain) \in [last : Nat, head : Hash]
<1>1. chain # <<>> => Len(chain) \in 1..Len(chain)
  OBVIOUS
<1> QED
  BY <1>1, HashesTyped, ElementOfSeq DEF Newest

LEMMA HeadTyped ==
  ASSUME AuditShape, NEW from, NEW to, NEW start \in Hash
  PROVE  HeadOf(from, to, start) \in Hash
<1>1. StretchRows(from, to) \in Seq(Ids) /\ Len(StretchRows(from, to)) \in Nat
  BY RowsTyped DEF StretchRows
<1>2. Len(StretchRows(from, to)) \in 0..Len(StretchRows(from, to))
  BY <1>1
<1> QED
  BY <1>1, <1>2, RecomputedTyped DEF HeadOf

\* A session's view of a row: with its own stamp, or as it is.
LEMMA ViewTyped ==
  ASSUME AuditInv, NEW s \in Schedulers
  PROVE  /\ View(s) \in [Ids -> [state : EventStates, content : 0..1, hash : Hash, prev : Hash]]
         /\ \A i \in Ids : /\ RowSound(View(s)[i], i) /\ View(s)[i].state = events[i].state
                           /\ View(s)[i].content = events[i].content
                           /\ events[i].hash # NoHash => View(s)[i].hash # NoHash
<1> DEFINE stamps == session[s].stamps
           Row == [state : EventStates, content : 0..1, hash : Hash, prev : Hash]
<1>1. /\ events \in [Ids -> Row] /\ stamps \in Seq(Stamp) /\ DOMAIN stamps = 1..Len(stamps)
      /\ \A i \in Ids : RowSound(events[i], i)
      /\ \A k \in 1..Len(stamps) : /\ stamps[k] \in Stamp
                                   /\ events[stamps[k].id].state = "committed"
                                   /\ Proves(stamps[k].hash, stamps[k].id)
  <2>1. events \in [Ids -> Row] /\ stamps \in Seq(Stamp)
    BY DEF AuditInv, AuditShape, SessionShape
  <2>2. /\ \A i \in Ids : RowSound(events[i], i)
        /\ \A k \in 1..Len(stamps) : /\ events[stamps[k].id].state = "committed"
                                     /\ Proves(stamps[k].hash, stamps[k].id)
    BY DEF AuditInv, RowsSound, StampsSound
  <2> HIDE DEF stamps, Row
  <2>3. DOMAIN stamps = 1..Len(stamps) /\ \A k \in 1..Len(stamps) : stamps[k] \in Stamp
    BY <2>1
  <2> QED
    BY <2>1, <2>2, <2>3
<1> DEFINE At(i) == StampOf(stamps, i)
           New(i) == [events[i] EXCEPT !.hash = stamps[At(i)].hash, !.prev = stamps[At(i)].prev]
           over == Overlaid(stamps)
<1>2. over = [i \in Ids |-> IF i \in Stamped(stamps) THEN New(i) ELSE events[i]]
  BY DEF Overlaid
<1> HIDE DEF stamps, over
<1>3. ASSUME NEW i \in Ids, i \in Stamped(stamps)
      PROVE  /\ New(i) \in Row /\ New(i).state = events[i].state /\ New(i).content = events[i].content
             /\ RowSound(New(i), i) /\ New(i).hash # NoHash
  <2>1. At(i) \in 1..Len(stamps) /\ stamps[At(i)].id = i
    <3>1. \E k \in DOMAIN stamps : stamps[k].id = i
      BY <1>3 DEF Stamped
    <3>2. At(i) \in DOMAIN stamps /\ stamps[At(i)].id = i
      BY <3>1 DEF StampOf
    <3> QED
      BY <1>1, <3>2
  <2> DEFINE k == At(i)
  <2> HIDE DEF At
  <2>2. /\ stamps[At(i)].hash \in Hash /\ stamps[At(i)].prev \in Hash
        /\ Proves(stamps[At(i)].hash, i) /\ events[i].state = "committed"
    BY <1>1, <2>1 DEF Stamp
  <2>3. events[i] \in Row
    BY <1>1
  <2>4. /\ New(i) \in Row /\ New(i).state = events[i].state /\ New(i).content = events[i].content
        /\ New(i).hash = stamps[At(i)].hash
    BY <2>2, <2>3
  <2>5. New(i).hash # NoHash
    BY <2>2, <2>4, ProofIsNotNothing
  <2>6. RowSound(New(i), i)
    <3>1. i \in rewritten => events[i].content = 1
      BY <1>1 DEF RowSound
    <3> HIDE DEF New
    <3> QED
      BY <2>2, <2>4, <2>5, <3>1 DEF RowSound
  <2> HIDE DEF New
  <2> QED
    BY <2>4, <2>5, <2>6
<1> HIDE DEF New
<1>4. over \in [Ids -> Row]
  BY <1>1, <1>2, <1>3
<1>5. ASSUME NEW i \in Ids
      PROVE  /\ RowSound(over[i], i) /\ over[i].state = events[i].state
             /\ over[i].content = events[i].content
             /\ events[i].hash # NoHash => over[i].hash # NoHash
  <2>1. over[i] = IF i \in Stamped(stamps) THEN New(i) ELSE events[i]
    BY <1>2
  <2> QED
    BY <1>1, <1>3, <2>1
<1> QED
  BY <1>1, <1>4, <1>5 DEF View, over, stamps

\* An anchor's stretch that holds has no rewritten row in it.
LEMMA HoldingIsUnrewritten ==
  ASSUME AuditInv, NEW s \in Schedulers, NEW from \in Nat, NEW to \in Nat, NEW start \in Hash,
         StretchHolds(s, from, to, start), NEW i \in rewritten, i > from
  PROVE  i > to
<1>1. SUFFICES ASSUME i <= to PROVE FALSE
  BY AuditConstants DEF AuditInv, AuditShape
<1> DEFINE ids == StretchRows(from, to)
<1>2. i \in Ids /\ AuditShape /\ i \in Int
  BY AuditConstants DEF AuditInv, AuditShape
<1>3. RowSound(events[i], i) /\ events[i].content = 1 /\ events[i].hash # NoHash
      /\ events[i].state = "committed"
  BY <1>2 DEF AuditInv, RowsSound, RowSound
<1>4. i \in Committed \cap (from + 1)..to
  BY <1>1, <1>2, <1>3 DEF Committed
<1>5. PICK k \in 1..Len(ids) : ids[k] = i
  BY <1>4, RowsTyped DEF StretchRows
<1>6. ids \in Seq(Ids) /\ Len(ids) \in Nat
  BY RowsTyped DEF StretchRows
<1>7. View(s)[i].hash = Recomputed(start, ids, k)
  BY <1>5 DEF StretchHolds
<1> HIDE DEF ids
<1> DEFINE h == Recomputed(start, ids, k)
<1>8. k \in 0..Len(ids) /\ k # 0
  BY <1>6
<1>9. Len(h) # 0 /\ h[Len(h)] = <<i, 1>>
  BY <1>2, <1>3, <1>5, <1>6, <1>8, RecomputedTyped
<1> HIDE DEF h
<1>10. Proves(View(s)[i].hash, i)
  BY <1>2, <1>3, ViewTyped DEF RowSound
<1> QED
  BY <1>7, <1>9, <1>10 DEF Proves, h

-----------------------------------------------------------------------------
(* The steps of a tick                                                      *)

SoundStamp(stamp) == events[stamp.id].state = "committed" /\ Proves(stamp.hash, stamp.id)

LEMMA SessionsAreShaped ==
  ASSUME AuditInv, NEW s \in Schedulers
  PROVE  /\ SessionShape(session[s]) /\ AuditShape
         /\ \A k \in 1..Len(session[s].stamps) : SoundStamp(session[s].stamps[k])
  BY DEF AuditInv, AuditShape, StampsSound, SoundStamp

LEMMA SessionChanges ==
  ASSUME AuditInv, NEW s \in Schedulers, NEW x, SessionShape(x),
         session' = [session EXCEPT ![s] = x], UNCHANGED <<events, cps, rewritten>>,
         verdict' \in {"none", "ok", "failed"},
         \A k \in 1..Len(x.stamps) : SoundStamp(x.stamps[k])
  PROVE  AuditInv'
<1>1. session' = [t \in Schedulers |-> IF t = s THEN x ELSE session[t]]
  BY DEF AuditInv, AuditShape
<1>2. AuditShape'
  BY <1>1 DEF AuditInv, AuditShape
<1>3. RowsSound'
  BY DEF AuditInv, RowsSound, RowSound
<1>4. StampsSound'
  BY <1>1 DEF AuditInv, StampsSound, SoundStamp
<1> QED
  BY <1>2, <1>3, <1>4 DEF AuditInv

LEMMA NewestIdExists ==
  ASSUME NEW S \in SUBSET Ids, S # {}
  PROVE  MaxId(S) \in S
<1>1. IsFiniteSet(S) /\ S \in SUBSET Int
  <2>1. IsFiniteSet(1..MaxEvents)
    BY AuditConstants, FS_Interval
  <2> QED
    BY <2>1, AuditConstants, FS_Subset
<1>2. \E i \in S : \A j \in S : j <= i
  BY <1>1, GreatestNumber
<1> QED
  BY <1>2 DEF MaxId

LEMMA ReadHeadKeeps ==
  ASSUME AuditInv, NEW s \in Schedulers, ReadHead(s)
  PROVE  AuditInv' /\ session'[s].anchor = NoAnchor
<1> DEFINE hashed == {i \in Committed : events[i].hash # NoHash}
           head == IF hashed = {} THEN Genesis ELSE events[MaxId(hashed)].hash
           x == [AtRest EXCEPT !.pc = "rows", !.running = head]
<1>1. session' = [session EXCEPT ![s] = x] /\ UNCHANGED <<events, cps, verdict, rewritten>>
  BY DEF ReadHead
<1>2. AuditShape
  BY DEF AuditInv
<1>3. head \in Hash
  <2>1. hashed \in SUBSET Ids
    BY DEF Committed
  <2> HIDE DEF hashed
  <2>2. CASE hashed = {}
    BY <2>2, HashesTyped
  <2>3. CASE hashed # {}
    BY <1>2, <2>1, <2>3, NewestIdExists DEF AuditShape
  <2> QED
    BY <2>2, <2>3
<1> HIDE DEF head
<1>4. x = Session("rows", head, <<>>, NoAnchor, 0)
  BY SessionStarts
<1> HIDE DEF x
<1>5. SessionShape(x) /\ Len(x.stamps) = 0 /\ x.anchor = NoAnchor
  <2>1. x.pc = "rows" /\ x.running = head /\ x.stamps = <<>> /\ x.anchor = NoAnchor /\ x.spot = 0
    BY <1>4, SessionFields
  <2> QED
    <3>1. x = Session(x.pc, x.running, x.stamps, x.anchor, x.spot)
      BY ONLY <1>4, <2>1
    <3>2. x.pc \in Places /\ x.running \in Hash /\ x.stamps \in Seq(Stamp)
          /\ x.anchor \in [last : Nat, head : Hash]
      BY <1>3, <2>1, HashesTyped DEF Places
    <3> QED
      BY <2>1, <3>1, <3>2 DEF SessionShape
<1>6. AuditInv'
  <2>1. verdict' \in {"none", "ok", "failed"} /\ \A k \in 1..Len(x.stamps) : SoundStamp(x.stamps[k])
    BY <1>1, <1>2, <1>5 DEF AuditShape
  <2> QED
    BY <1>1, <1>5, <2>1, SessionChanges
<1>7. session'[s] = x
  BY <1>1, <1>2 DEF AuditShape
<1> QED
  BY <1>5, <1>6, <1>7

LEMMA ReadRowsKeeps ==
  ASSUME AuditInv, NEW s \in Schedulers, ReadRows(s)
  PROVE  AuditInv' /\ session'[s].anchor = session[s].anchor
<1> DEFINE ids == Rows({i \in Ids : events[i].hash = NoHash})
           start == session[s].running
           stamps == [k \in 1..Len(ids) |-> [id |-> ids[k],
                        prev |-> Recomputed(start, ids, k - 1),
                        hash |-> Recomputed(start, ids, k)]]
           x == [session[s] EXCEPT !.pc = "flush", !.stamps = stamps]
<1>1. session' = [session EXCEPT ![s] = x] /\ UNCHANGED <<events, cps, verdict, rewritten>>
  BY DEF ReadRows
<1>2. SessionShape(session[s]) /\ AuditShape
  BY SessionsAreShaped
<1>3. start \in Hash
  BY <1>2 DEF SessionShape
<1>4. /\ ids \in Seq(Ids) /\ Len(ids) \in Nat
      /\ \A k \in 1..Len(ids) :
           ids[k] \in Ids /\ events[ids[k]].hash = NoHash /\ events[ids[k]].state = "committed"
  BY RowsTyped DEF Committed
<1> HIDE DEF ids, start
<1>5. ASSUME NEW k \in 1..Len(ids)
      PROVE  /\ Recomputed(start, ids, k - 1) \in Hash
             /\ Proves(Recomputed(start, ids, k), ids[k])
  <2>1. k \in 0..Len(ids) /\ k - 1 \in 0..Len(ids) /\ k # 0
    BY <1>4
  <2>2. /\ Recomputed(start, ids, k - 1) \in Hash /\ Recomputed(start, ids, k) \in Hash
    BY <1>2, <1>3, <1>4, <2>1, RecomputedTyped
  <2>3. LET h == Recomputed(start, ids, k)
        IN Len(h) # 0 /\ h[Len(h)] = <<ids[k], events[ids[k]].content>>
    BY <1>2, <1>3, <1>4, <2>1, RecomputedTyped
  <2>4. events[ids[k]].content = 0
    BY <1>4 DEF AuditInv, RowsSound, RowSound
  <2> QED
    BY <2>2, <2>3, <2>4 DEF Proves
<1>6. stamps \in Seq(Stamp) /\ \A k \in 1..Len(stamps) : SoundStamp(stamps[k])
  <2>1. \A k \in 1..Len(ids) : stamps[k] \in Stamp /\ SoundStamp(stamps[k])
    BY <1>4, <1>5 DEF Stamp, SoundStamp, Proves
  <2>2. stamps = [k \in 1..Len(ids) |-> stamps[k]]
    OBVIOUS
  <2> HIDE DEF stamps
  <2> QED
    BY <1>4, <2>1, <2>2
<1> HIDE DEF stamps
<1>7. SessionShape(x) /\ x.stamps = stamps /\ x.anchor = session[s].anchor
  <2>1. x = Session("flush", start, stamps, session[s].anchor, session[s].spot)
    BY <1>2, SessionStamps DEF start
  <2> HIDE DEF x
  <2>2. /\ x.pc = "flush" /\ x.running = start /\ x.stamps = stamps
        /\ x.anchor = session[s].anchor /\ x.spot = session[s].spot
    BY <2>1, SessionFields
  <2>3. session[s].anchor \in [last : Nat, head : Hash]
    BY <1>2 DEF SessionShape
  <2> QED
    BY <1>3, <1>6, <2>1, <2>2, <2>3 DEF SessionShape, Places
<1> HIDE DEF x
<1>8. AuditInv'
  <2>1. verdict' \in {"none", "ok", "failed"} /\ \A k \in 1..Len(x.stamps) : SoundStamp(x.stamps[k])
    BY <1>1, <1>2, <1>6, <1>7 DEF AuditShape
  <2> QED
    BY <1>1, <1>7, <2>1, SessionChanges
<1>9. session'[s] = x
  BY <1>1, <1>2 DEF AuditShape
<1> QED
  BY <1>7, <1>8, <1>9

\* A session that goes on to its next place, whatever it notes of anchor and spot.
Follows(s, pc, anchor, spot, y) ==
  y = Session(pc, session[s].running, session[s].stamps, anchor, spot)
LEMMA GoesOn ==
  ASSUME AuditInv, NEW s \in Schedulers, NEW pc \in Places,
         NEW anchor \in [last : Nat, head : Hash], NEW spot, NEW y,
         Follows(s, pc, anchor, spot, y), session' = [session EXCEPT ![s] = y],
         UNCHANGED <<events, cps, rewritten>>, verdict' \in {"none", "ok", "failed"}
  PROVE  AuditInv' /\ session'[s].anchor = anchor
<1>1. SessionShape(session[s]) /\ AuditShape
      /\ \A k \in 1..Len(session[s].stamps) : SoundStamp(session[s].stamps[k])
  BY SessionsAreShaped
<1>2. /\ y.pc = pc /\ y.running = session[s].running /\ y.stamps = session[s].stamps
      /\ y.anchor = anchor /\ y.spot = spot
  BY SessionFields DEF Follows
<1>3. SessionShape(y)
  BY <1>1, <1>2 DEF SessionShape, Follows
<1>4. AuditInv'
  <2>1. \A k \in 1..Len(y.stamps) : SoundStamp(y.stamps[k])
    BY <1>1, <1>2
  <2> QED
    BY <1>3, <2>1, SessionChanges
<1>5. session'[s] = y
  BY <1>1 DEF AuditShape
<1> QED
  BY <1>2, <1>4, <1>5

LEMMA FlushKeeps ==
  ASSUME AuditInv, NEW s \in Schedulers, FlushStamps(s)
  PROVE  AuditInv' /\ session'[s].anchor = session[s].anchor
<1>1. SessionShape(session[s]) /\ AuditShape
  BY SessionsAreShaped
<1>2. PICK y : y = [session[s] EXCEPT !.pc = "anchor"]
  OBVIOUS
<1>3. session' = [session EXCEPT ![s] = y]
  BY <1>2 DEF FlushStamps
<1>4. Follows(s, "anchor", session[s].anchor, session[s].spot, y)
  BY <1>1, <1>2, SessionMoves DEF Follows
<1>5. UNCHANGED <<events, cps, verdict, rewritten>> /\ verdict' \in {"none", "ok", "failed"}
      /\ session[s].anchor \in [last : Nat, head : Hash] /\ "anchor" \in Places
  BY <1>1 DEF FlushStamps, AuditShape, SessionShape, Places
<1> QED
  BY ONLY AuditInv, s \in Schedulers, <1>3, <1>4, <1>5, GoesOn

LEMMA TickEnds ==
  ASSUME AuditInv, NEW s \in Schedulers, session' = [session EXCEPT ![s] = AtRest]
  PROVE  /\ session' = [t \in Schedulers |-> session'[t]]
         /\ session'[s].anchor = NoAnchor
         /\ \A t \in Schedulers : SessionShape(session'[t])
         /\ \A t \in Schedulers : \A k \in 1..Len(session'[t].stamps) :
              t # s /\ session'[t].stamps = session[t].stamps
<1>1. session' = [t \in Schedulers |-> IF t = s THEN AtRest ELSE session[t]]
  BY DEF AuditInv, AuditShape
<1> QED
  BY <1>1, RestIsShaped DEF AuditInv, AuditShape

LEMMA AnchorKeeps ==
  ASSUME AuditInv, NEW s \in Schedulers, Anchor(s)
  PROVE  /\ AuditInv'
         /\ session'[s].anchor # NoAnchor =>
              /\ session'[s].anchor.last = Newest(cps).last + Interval
              /\ \A i \in rewritten : i <= Newest(cps).last \/ i > session'[s].anchor.last
<1> DEFINE last == Newest(cps).last
           head == Newest(cps).head
           boundary == last + Interval
           hashed == {i \in Committed : View(s)[i].hash # NoHash}
           grown == hashed # {} /\ MaxId(hashed) >= boundary
           new == [last |-> boundary, head |-> HeadOf(last, boundary, head)]
           anchor == IF grown /\ Provable(s, last, boundary, head) THEN new ELSE NoAnchor
           raises == grown /\ Doubled(cps, last)
<1>1. SessionShape(session[s]) /\ AuditShape
  BY SessionsAreShaped
<1>0. CASE raises
  <2>1. session' = [session EXCEPT ![s] = AtRest] /\ UNCHANGED <<events, cps, verdict, rewritten>>
    BY <1>0 DEF Anchor
  <2>2. verdict' \in {"none", "ok", "failed"} /\ \A k \in 1..Len(AtRest.stamps) : SoundStamp(AtRest.stamps[k])
    BY <1>1, <2>1, RestIsShaped DEF AuditShape
  <2>3. AuditInv'
    BY <2>1, <2>2, RestIsShaped, SessionChanges
  <2> QED
    BY <2>1, <2>3, TickEnds
<1> SUFFICES ASSUME ~raises
             PROVE  /\ AuditInv'
                    /\ session'[s].anchor # NoAnchor =>
                         /\ session'[s].anchor.last = last + Interval
                         /\ \A i \in rewritten : i <= last \/ i > session'[s].anchor.last
  BY <1>0
<1>2. last \in Nat /\ head \in Hash /\ boundary \in Nat
  <2>1. Newest(cps) \in [last : Nat, head : Hash]
    BY <1>1, NewestTyped DEF AuditShape
  <2> QED
    BY <2>1, AuditConstants
<1>3. session' = [session EXCEPT ![s] = [session[s] EXCEPT !.pc = "verify", !.anchor = anchor]]
      /\ UNCHANGED <<events, cps, verdict, rewritten>>
  BY DEF Anchor
<1>4. anchor # NoAnchor =>
        anchor = new /\ StretchHolds(s, last, boundary, head)
  BY DEF Provable
<1> HIDE DEF last, head, boundary
<1>5. new \in [last : Nat, head : Hash] /\ new.last = boundary
  BY <1>1, <1>2, HeadTyped
<1> HIDE DEF new
<1>6. anchor \in [last : Nat, head : Hash]
  BY <1>5, HashesTyped
<1> HIDE DEF anchor
<1>7. PICK y : y = [session[s] EXCEPT !.pc = "verify", !.anchor = anchor]
  OBVIOUS
<1>8. AuditInv' /\ session'[s].anchor = anchor
  <2>1. verdict' \in {"none", "ok", "failed"} /\ "verify" \in Places
    BY <1>1, <1>3 DEF AuditShape, Places
  <2>2. Follows(s, "verify", anchor, session[s].spot, y)
    BY <1>1, <1>7, SessionMoves DEF Follows
  <2>3. session' = [session EXCEPT ![s] = y]
    BY <1>3, <1>7
  <2> QED
    BY ONLY AuditInv, s \in Schedulers, <1>3, <1>6, <2>1, <2>2, <2>3, GoesOn
<1>9. ASSUME anchor # NoAnchor, NEW i \in rewritten
      PROVE  i <= last \/ i > boundary
  <2>1. i \in Int
    BY <1>1, AuditConstants DEF AuditShape
  <2>2. i > last => i > boundary
    BY <1>2, <1>4, <1>9, HoldingIsUnrewritten
  <2> QED
    BY <1>2, <2>1, <2>2
<1> QED
  BY <1>4, <1>5, <1>8, <1>9 DEF last, boundary

LEMMA VerifyKeeps ==
  ASSUME AuditInv, NEW s \in Schedulers, Verify(s)
  PROVE  AuditInv' /\ session'[s].anchor = session[s].anchor
<1>1. SessionShape(session[s]) /\ AuditShape
  BY SessionsAreShaped
<1>2. PICK spot : session' = [session EXCEPT ![s].pc = "commit", ![s].spot = spot]
  BY DEF Verify
<1>3. PICK y : y = [session[s] EXCEPT !.pc = "commit", !.spot = spot]
  OBVIOUS
<1>4. session' = [session EXCEPT ![s] = y]
  BY <1>2, <1>3
<1>5. Follows(s, "commit", session[s].anchor, spot, y)
  <2>1. SessionShape(session[s])
    BY <1>1
  <2>2. y = Session("commit", session[s].running, session[s].stamps, session[s].anchor, spot)
    <3> DEFINE x == session[s]
    <3>1. SessionShape(x) /\ y = [x EXCEPT !.pc = "commit", !.spot = spot]
      BY <1>3, <2>1
    <3> HIDE DEF x
    <3>2. [x EXCEPT !.pc = "commit", !.spot = spot]
            = Session("commit", x.running, x.stamps, x.anchor, spot)
      BY ONLY <3>1, SessionMarks
    <3>3. y = Session("commit", x.running, x.stamps, x.anchor, spot)
      BY ONLY <3>1, <3>2
    <3> QED
      BY <3>3 DEF x
  <2> QED
    BY <2>2 DEF Follows
<1>6. verdict' \in {"none", "ok", "failed"} /\ UNCHANGED <<events, cps, rewritten>>
  BY DEF Verify
<1>7. session[s].anchor \in [last : Nat, head : Hash] /\ "commit" \in Places
  BY <1>1 DEF SessionShape, Places
<1> QED
  BY ONLY AuditInv, s \in Schedulers, <1>4, <1>5, <1>6, <1>7, GoesOn

\* The first n numbers are n.
LEMMA FirstNumbers == ASSUME NEW n \in Nat PROVE IsFiniteSet(1..n) /\ Cardinality(1..n) = n
<1>1. n \in Int /\ 1 \in Int
  OBVIOUS
<1>2. IsFiniteSet(1..n) /\ Cardinality(1..n) = IF 1 > n THEN 0 ELSE n - 1 + 1
  BY ONLY <1>1, FS_Interval
<1>3. (IF 1 > n THEN 0 ELSE n - 1 + 1) = n
  OBVIOUS
<1> QED
  BY ONLY <1>2, <1>3

\* Where an anchor goes among the others, and that a list takes it there.
LEMMA PlaceExists ==
  ASSUME AuditInv, NEW last
  PROVE  Place(last) \in 1..(Len(cps) + 1)
<1> DEFINE upTo == {k \in 1..Len(cps) : cps[k].last <= last}
<1>1. Len(cps) \in Nat /\ DOMAIN cps = 1..Len(cps)
  BY DEF AuditInv, AuditShape
<1>2. IsFiniteSet(1..Len(cps)) /\ Cardinality(1..Len(cps)) = Len(cps)
  BY ONLY <1>1, FirstNumbers
<1>3. IsFiniteSet(upTo) /\ Cardinality(upTo) <= Len(cps)
  BY <1>2, FS_Subset
<1>4. Cardinality(upTo) \in Nat
  BY <1>3, FS_CardinalityType
<1>5. Place(last) = Cardinality(upTo) + 1
  BY <1>1 DEF Place
<1> HIDE DEF upTo
<1> QED
  BY <1>1, <1>3, <1>4, <1>5

LEMMA InsertTyped ==
  ASSUME NEW T, NEW list \in Seq(T), NEW k \in 1..(Len(list) + 1), NEW e \in T
  PROVE  InsertAt(list, k, e) \in Seq(T)
<1>1. Len(list) \in Nat
  OBVIOUS
<1>2. SubSeq(list, 1, k - 1) \in Seq(T) /\ SubSeq(list, k, Len(list)) \in Seq(T)
  BY <1>1
<1> QED
  BY <1>2 DEF InsertAt

LEMMA InsertLast ==
  ASSUME NEW T, NEW list \in Seq(T), NEW e \in T
  PROVE  InsertAt(list, Len(list) + 1, e) = Append(list, e)
<1> DEFINE n == Len(list)
<1>1. n \in Nat /\ (n + 1) - 1 = n
  OBVIOUS
<1>2. SubSeq(list, 1, n) = list
  BY <1>1
<1>3. SubSeq(list, n + 1, n) = <<>>
  BY <1>1
<1>4. (list \o <<e>>) \o <<>> = Append(list, e)
  OBVIOUS
<1> QED
  BY <1>1, <1>2, <1>3, <1>4 DEF InsertAt

LEMMA CommitKeeps ==
  ASSUME AuditInv, NEW s \in Schedulers, CommitTick(s)
  PROVE  AuditInv' /\ session'[s].anchor = NoAnchor
<1>1. /\ events' = View(s) /\ cps' = Epochs(s) /\ session' = [session EXCEPT ![s] = AtRest]
      /\ UNCHANGED <<verdict, rewritten>>
  BY DEF CommitTick
<1>2. SessionShape(session[s]) /\ AuditShape
  BY SessionsAreShaped
<1>3. /\ session' = [t \in Schedulers |-> session'[t]]
      /\ session'[s].anchor = NoAnchor
      /\ \A t \in Schedulers : SessionShape(session'[t])
      /\ \A t \in Schedulers : \A k \in 1..Len(session'[t].stamps) :
           t # s /\ session'[t].stamps = session[t].stamps
  BY <1>1, TickEnds
<1>4. /\ View(s) \in [Ids -> [state : EventStates, content : 0..1, hash : Hash, prev : Hash]]
      /\ \A i \in Ids : RowSound(View(s)[i], i) /\ View(s)[i].state = events[i].state
  BY ViewTyped
<1>5. cps' \in Seq([last : Nat, head : Hash])
  <2> DEFINE A == [last : Nat, head : Hash]
  <2>1. cps \in Seq(A) /\ session[s].anchor \in A
    BY <1>2 DEF AuditShape, SessionShape
  <2> HIDE DEF A
  <2>2. cps' \in Seq(A)
    BY <1>1, <2>1, PlaceExists, InsertTyped DEF Epochs
  <2> QED
    BY <2>2 DEF A
<1>6. AuditShape'
  BY <1>1, <1>2, <1>3, <1>4, <1>5 DEF AuditShape
<1>7. RowsSound'
  BY <1>1, <1>4 DEF RowsSound, RowSound
<1>8. StampsSound'
  <2>1. ASSUME NEW t \in Schedulers, NEW k \in 1..Len(session'[t].stamps)
        PROVE  /\ events'[session'[t].stamps[k].id].state = "committed"
               /\ Proves(session'[t].stamps[k].hash, session'[t].stamps[k].id)
    <3>1. session'[t].stamps = session[t].stamps
      BY <1>3
    <3>2. session[t].stamps \in Seq(Stamp) /\ k \in 1..Len(session[t].stamps)
      BY <1>2, <3>1 DEF AuditShape, SessionShape
    <3>3. session[t].stamps[k].id \in Ids
      <4>1. session[t].stamps[k] \in Stamp
        BY <3>2, ElementOfSeq
      <4> QED
        BY <4>1 DEF Stamp
    <3>4. SoundStamp(session[t].stamps[k])
      BY <3>2, SessionsAreShaped
    <3> QED
      BY <1>1, <1>4, <3>1, <3>3, <3>4 DEF SoundStamp
  <2> QED
    BY <2>1 DEF StampsSound
<1> QED
  BY <1>3, <1>6, <1>7, <1>8 DEF AuditInv

LEMMA TickDiesKeeps ==
  ASSUME AuditInv, NEW s \in Schedulers, TickDies(s)
  PROVE  AuditInv' /\ session'[s].anchor = NoAnchor
<1>1. session' = [session EXCEPT ![s] = AtRest] /\ UNCHANGED <<events, cps, verdict, rewritten>>
  BY DEF TickDies
<1>2. AuditInv'
  <2>1. verdict' \in {"none", "ok", "failed"}
    BY <1>1 DEF AuditInv, AuditShape
  <2>2. \A k \in 1..Len(AtRest.stamps) : SoundStamp(AtRest.stamps[k])
    BY RestIsShaped
  <2> QED
    BY <1>1, <2>1, <2>2, RestIsShaped, SessionChanges
<1> QED
  BY <1>1, <1>2, TickEnds

-----------------------------------------------------------------------------
(* What is logged, and rewritten                                            *)

\* One row changes: no stamp is about it, or it only gets other content.
LEMMA RowChanges ==
  ASSUME AuditInv, NEW i \in Ids, NEW e, events' = [events EXCEPT ![i] = e],
         e \in [state : EventStates, content : 0..1, hash : Hash, prev : Hash],
         rewritten' \in SUBSET Ids, rewritten \subseteq rewritten', rewritten' \subseteq rewritten \cup {i},
         e.hash = events[i].hash, events[i].state = "committed" => e.state = "committed",
         e.content # 0 => e.hash # NoHash, i \in rewritten' => e.content = 1,
         UNCHANGED <<cps, session, verdict>>
  PROVE  AuditInv'
<1>1. AuditShape'
  BY DEF AuditInv, AuditShape
<1>2. \A j \in Ids : events'[j] = IF j = i THEN e ELSE events[j]
  BY DEF AuditInv, AuditShape
<1>3. RowsSound'
  <2>1. ASSUME NEW j \in Ids
        PROVE  /\ events'[j].hash # NoHash =>
                    events'[j].state = "committed" /\ Proves(events'[j].hash, j)
               /\ events'[j].content # 0 => events'[j].hash # NoHash
               /\ j \in rewritten' => events'[j].content = 1
    <3>1. RowSound(events[j], j)
      BY DEF AuditInv, RowsSound
    <3> QED
      BY <1>2, <3>1 DEF RowSound
  <2> QED
    BY <2>1 DEF RowsSound, RowSound
<1>4. StampsSound'
  <2>1. ASSUME NEW t \in Schedulers, NEW k \in 1..Len(session[t].stamps)
        PROVE  /\ events'[session[t].stamps[k].id].state = "committed"
               /\ Proves(session[t].stamps[k].hash, session[t].stamps[k].id)
    <3>1. session[t].stamps \in Seq(Stamp)
      BY DEF AuditInv, AuditShape, SessionShape
    <3>2. session[t].stamps[k].id \in Ids
      <4>1. session[t].stamps[k] \in Stamp
        BY <3>1, ElementOfSeq
      <4> QED
        BY <4>1 DEF Stamp
    <3>3. SoundStamp(session[t].stamps[k])
      BY SessionsAreShaped
    <3> QED
      BY <1>2, <3>2, <3>3 DEF SoundStamp
  <2> QED
    BY <2>1 DEF StampsSound
<1> QED
  BY <1>1, <1>3, <1>4 DEF AuditInv

LEMMA EventKeeps ==
  ASSUME AuditInv, NEW i \in Ids, LogEvent(i) \/ Rewrite(i) \/ \E ending \in EventStates : EndEvent(i, ending)
  PROVE  AuditInv' /\ session' = session
<1> DEFINE Row == [state : EventStates, content : 0..1, hash : Hash, prev : Hash]
<1>1. events \in [Ids -> Row] /\ events[i] \in Row /\ RowSound(events[i], i) /\ rewritten \in SUBSET Ids
  BY DEF AuditInv, AuditShape, RowsSound
<1>2. CASE LogEvent(i)
  <2> DEFINE e == [events[i] EXCEPT !.state = "flushed"]
  <2>1. events' = [events EXCEPT ![i] = e] /\ UNCHANGED <<cps, session, verdict, rewritten>>
        /\ events[i].state = "none"
    BY <1>2 DEF LogEvent
  <2>2. e \in Row /\ e.hash = events[i].hash /\ e.content = events[i].content
    BY <1>1 DEF EventStates
  <2> HIDE DEF e
  <2> QED
    BY <1>1, <2>1, <2>2, RowChanges DEF RowSound
<1>3. ASSUME NEW ending \in EventStates, EndEvent(i, ending) PROVE AuditInv' /\ session' = session
  <2> DEFINE e == [events[i] EXCEPT !.state = ending]
  <2>1. events' = [events EXCEPT ![i] = e] /\ UNCHANGED <<cps, session, verdict, rewritten>>
        /\ events[i].state = "flushed"
    BY <1>3 DEF EndEvent
  <2>2. e \in Row /\ e.hash = events[i].hash /\ e.content = events[i].content
    BY <1>1
  <2> HIDE DEF e
  <2> QED
    BY <1>1, <2>1, <2>2, RowChanges DEF RowSound
<1>4. CASE Rewrite(i)
  <2> DEFINE e == [events[i] EXCEPT !.content = 1]
  <2>1. events' = [events EXCEPT ![i] = e] /\ UNCHANGED <<cps, session, verdict>>
        /\ events[i].hash # NoHash /\ rewritten' = rewritten \cup {i}
    BY <1>4 DEF Rewrite
  <2>2. e \in Row /\ e.hash = events[i].hash /\ e.content = 1 /\ e.state = events[i].state
    BY <1>1
  <2> HIDE DEF e
  <2> QED
    BY <1>1, <2>1, <2>2, RowChanges
<1> QED
  BY <1>2, <1>3, <1>4

-----------------------------------------------------------------------------
(* The results                                                              *)

LEMMA AuditStarts == AuditInit => AuditInv
<1> SUFFICES ASSUME AuditInit PROVE AuditInv
  OBVIOUS
<1> DEFINE e == [state |-> "none", content |-> 0, hash |-> NoHash, prev |-> NoHash]
<1>1. /\ events = [i \in Ids |-> e] /\ cps = <<>> /\ verdict = "none"
      /\ session = [s \in Schedulers |-> AtRest] /\ rewritten = {}
  BY DEF AuditInit
<1>2. e \in [state : EventStates, content : 0..1, hash : Hash, prev : Hash]
      /\ e.hash = NoHash /\ e.content = 0
  BY HashesTyped DEF EventStates
<1> HIDE DEF e
<1>3. AuditShape
  BY <1>1, <1>2, RestIsShaped DEF AuditShape
<1>4. RowsSound
  BY <1>1, <1>2 DEF RowsSound, RowSound
<1>5. StampsSound
  <2>1. \A s \in Schedulers : Len(session[s].stamps) = 0
    BY <1>1, RestIsShaped
  <2> QED
    BY <2>1 DEF StampsSound
<1> QED
  BY <1>3, <1>4, <1>5 DEF AuditInv

LEMMA AuditInvSteps == AuditInv /\ [AuditNext]_auditVars => AuditInv'
<1> SUFFICES ASSUME AuditInv, [AuditNext]_auditVars PROVE AuditInv'
  OBVIOUS
<1>1. CASE UNCHANGED auditVars
  BY <1>1 DEF auditVars, AuditInv, AuditShape, RowsSound, RowSound, StampsSound
<1>2. ASSUME NEW i \in Ids,
             LogEvent(i) \/ Rewrite(i) \/ \E ending \in EventStates : EndEvent(i, ending)
      PROVE  AuditInv'
  BY <1>2, EventKeeps
<1>3. ASSUME NEW s \in Schedulers, TickTail(s) \/ TickDies(s) PROVE AuditInv'
  BY <1>3, ReadHeadKeeps, ReadRowsKeeps, FlushKeeps, AnchorKeeps, VerifyKeeps, CommitKeeps,
     TickDiesKeeps DEF TickTail
<1> QED
  BY <1>1, <1>2, <1>3 DEF AuditNext

\* An epoch is anchored only over rows whose content was never rewritten, however many
\* schedulers tick at once, whatever they had read before the others committed and wherever
\* they die.
AnchorsProven ==
  \A s \in Schedulers : session'[s].anchor \notin {NoAnchor, session[s].anchor} =>
    \A i \in rewritten : i <= Newest(cps).last \/ i > session'[s].anchor.last

\* The step of the theorem below.
LEMMA AnchorsStep == AuditInv /\ [AuditNext]_auditVars => AnchorsProven
<1> SUFFICES ASSUME AuditInv, [AuditNext]_auditVars,
                    NEW s \in Schedulers, session'[s].anchor \notin {NoAnchor, session[s].anchor}
             PROVE  \A i \in rewritten : i <= Newest(cps).last \/ i > session'[s].anchor.last
  BY DEF AnchorsProven
<1>1. CASE UNCHANGED auditVars
  BY <1>1 DEF auditVars
<1>2. ASSUME NEW i \in Ids,
             LogEvent(i) \/ Rewrite(i) \/ \E ending \in EventStates : EndEvent(i, ending)
      PROVE  FALSE
  BY <1>2, EventKeeps
<1>3. ASSUME NEW t \in Schedulers, TickTail(t) \/ TickDies(t), t # s PROVE FALSE
  <2>1. session = [r \in Schedulers |-> session[r]]
    BY DEF AuditInv, AuditShape
  <2>2. \E x : session' = [session EXCEPT ![t] = x]
    <3>1. ReadRows(t) => \E x : session' = [session EXCEPT ![t] = x]
      BY DEF ReadRows
    <3>2. FlushStamps(t) => \E x : session' = [session EXCEPT ![t] = x]
      BY DEF FlushStamps
    <3>3. Anchor(t) => \E x : session' = [session EXCEPT ![t] = x]
      BY DEF Anchor
    <3>4. Verify(t) => \E x : session' = [session EXCEPT ![t] = x]
      BY DEF Verify
    <3>5. ReadHead(t) \/ CommitTick(t) \/ TickDies(t) =>
            \E x : session' = [session EXCEPT ![t] = x]
      BY DEF ReadHead, CommitTick, TickDies
    <3> QED
      BY <1>3, <3>1, <3>2, <3>3, <3>4, <3>5 DEF TickTail
  <2>3. session'[s] = session[s]
    BY <1>3, <2>1, <2>2
  <2> QED
    BY <2>3
<1>4. CASE TickTail(s) \/ TickDies(s)
  BY <1>4, ReadHeadKeeps, ReadRowsKeeps, FlushKeeps, AnchorKeeps, VerifyKeeps, CommitKeeps,
     TickDiesKeeps DEF TickTail
<1> QED
  BY <1>1, <1>2, <1>3, <1>4 DEF AuditNext

\* AnchorsAreProven: "an anchor over stored-but-tampered hashes would certify an attack".
THEOREM NoAnchorOverRewrites == AuditSpec => AnchorsAreProven
<1>1. AuditInv /\ [AuditNext]_auditVars => [AnchorsProven]_auditVars
  BY AnchorsStep
<1>2. AuditSpec => [][AnchorsProven]_auditVars
  BY <1>1, AuditStarts, AuditInvSteps, PTL DEF AuditSpec
<1> QED
  BY <1>2 DEF AnchorsAreProven, AnchorsProven

-----------------------------------------------------------------------------
(* One scheduler: the boundaries                                            *)

\* One scheduler: two that read the same newest boundary would each anchor the next one.
LoneScheduler == \A s, t \in Schedulers : s = t

\* The anchors stand at the multiples of Interval, and one in hand is for the next.
BoundariesInOrder ==
  /\ \A k \in 1..Len(cps) : cps[k].last = k * Interval
  /\ \A s \in Schedulers : session[s].anchor # NoAnchor =>
       session[s].anchor.last = (Len(cps) + 1) * Interval

LEMMA NewestIsLast ==
  ASSUME AuditInv, BoundariesInOrder
  PROVE  Newest(cps).last + Interval = (Len(cps) + 1) * Interval
<1>1. cps \in Seq([last : Nat, head : Hash]) /\ Len(cps) \in Nat /\ Interval \in Nat
  BY AuditConstants DEF AuditInv, AuditShape
<1>2. CASE cps = <<>>
  <2>1. Newest(cps).last = 0 /\ Len(cps) = 0
    BY <1>2 DEF Newest, NoAnchor
  <2> QED
    BY <1>1, <2>1
<1>3. CASE cps # <<>>
  <2>1. Len(cps) \in 1..Len(cps)
    BY <1>1, <1>3
  <2>2. Newest(cps).last = Len(cps) * Interval
    BY <1>3, <2>1 DEF Newest, BoundariesInOrder
  <2> QED
    BY <1>1, <2>2
<1> QED
  BY <1>2, <1>3

\* The next boundary is past every anchor.
LEMMA PlaceIsLast ==
  ASSUME AuditInv, BoundariesInOrder, NEW last, last = (Len(cps) + 1) * Interval
  PROVE  Place(last) = Len(cps) + 1
<1>1. Len(cps) \in Nat /\ DOMAIN cps = 1..Len(cps) /\ Interval \in Nat
  BY AuditConstants DEF AuditInv, AuditShape
<1>2. ASSUME NEW k \in 1..Len(cps) PROVE cps[k].last <= last
  <2>1. cps[k].last = k * Interval
    BY DEF BoundariesInOrder
  <2>2. k * Interval <= (Len(cps) + 1) * Interval
    <3>1. Len(cps) + 1 = k + ((Len(cps) + 1) - k) /\ (Len(cps) + 1) - k \in Nat /\ k \in Nat
      BY <1>1
    <3> DEFINE d == (Len(cps) + 1) - k
    <3> HIDE DEF d
    <3>2. Len(cps) + 1 = k + d /\ d \in Nat
      BY <3>1 DEF d
    <3>3. (k + d) * Interval = k * Interval + d * Interval /\ d * Interval \in Nat
          /\ k * Interval \in Nat
      BY <1>1, <3>1, <3>2
    <3> QED
      BY <3>2, <3>3
  <2> QED
    BY <2>1, <2>2
<1>3. {k \in DOMAIN cps : cps[k].last <= last} = 1..Len(cps)
  BY <1>1, <1>2
<1>4. Cardinality(1..Len(cps)) = Len(cps)
  BY ONLY <1>1, FirstNumbers
<1> QED
  BY <1>3, <1>4 DEF Place

LEMMA BoundariesStep ==
  ASSUME LoneScheduler, AuditInv, BoundariesInOrder, [AuditNext]_auditVars
  PROVE  BoundariesInOrder'
<1>1. CASE UNCHANGED auditVars
  BY <1>1 DEF auditVars, BoundariesInOrder
<1>2. ASSUME NEW i \in Ids,
             LogEvent(i) \/ Rewrite(i) \/ \E ending \in EventStates : EndEvent(i, ending)
      PROVE  BoundariesInOrder'
  <2>1. UNCHANGED <<cps, session>>
    BY <1>2 DEF LogEvent, Rewrite, EndEvent
  <2> QED
    BY <2>1 DEF BoundariesInOrder
<1>3. ASSUME NEW s \in Schedulers, cps' = cps,
             session'[s].anchor \in {NoAnchor, session[s].anchor}
             \/ session'[s].anchor.last = (Len(cps) + 1) * Interval
      PROVE  BoundariesInOrder'
  BY <1>3 DEF BoundariesInOrder, LoneScheduler
<1>4. ASSUME NEW s \in Schedulers, ReadHead(s) \/ ReadRows(s) \/ FlushStamps(s) \/ Verify(s) \/ TickDies(s)
      PROVE  BoundariesInOrder'
  <2>1. cps' = cps
    BY <1>4 DEF ReadHead, ReadRows, FlushStamps, Verify, TickDies
  <2>2. session'[s].anchor \in {NoAnchor, session[s].anchor}
    BY <1>4, ReadHeadKeeps, ReadRowsKeeps, FlushKeeps, VerifyKeeps, TickDiesKeeps
  <2> QED
    BY <1>3, <2>1, <2>2
<1>5. ASSUME NEW s \in Schedulers, Anchor(s) PROVE BoundariesInOrder'
  <2>1. cps' = cps
    BY <1>5 DEF Anchor
  <2>2. session'[s].anchor = NoAnchor \/ session'[s].anchor.last = (Len(cps) + 1) * Interval
    BY <1>5, AnchorKeeps, NewestIsLast
  <2> QED
    BY <1>3, <2>1, <2>2
<1>6. ASSUME NEW s \in Schedulers, CommitTick(s) PROVE BoundariesInOrder'
  <2> DEFINE A == [last : Nat, head : Hash]
             a == session[s].anchor
  <2>2. cps \in Seq(A) /\ a \in A
    BY DEF AuditInv, AuditShape, SessionShape
  <2>3. a # NoAnchor => a.last = (Len(cps) + 1) * Interval
    BY DEF BoundariesInOrder
  <2>1. /\ cps' = IF a = NoAnchor THEN cps ELSE Append(cps, a)
        /\ session'[s].anchor = NoAnchor
    <3>1. cps' = (IF a = NoAnchor THEN cps ELSE InsertAt(cps, Place(a.last), a))
          /\ session'[s].anchor = NoAnchor
      BY <1>6, CommitKeeps DEF CommitTick, Epochs
    <3> HIDE DEF A, a
    <3>2. a # NoAnchor => Place(a.last) = Len(cps) + 1
      BY <2>3, PlaceIsLast
    <3>3. InsertAt(cps, Len(cps) + 1, a) = Append(cps, a)
      BY <2>2, InsertLast
    <3> QED
      BY <3>1, <3>2, <3>3
  <2> HIDE DEF A, a
  <2>4. ASSUME NEW k \in 1..Len(cps') PROVE cps'[k].last = k * Interval
    <3>1. CASE a = NoAnchor
      BY <2>1, <3>1 DEF BoundariesInOrder
    <3>2. CASE a # NoAnchor
      <4>1. Len(cps') = Len(cps) + 1 /\ Len(cps) \in Nat
            /\ (k <= Len(cps) => cps'[k] = cps[k]) /\ (k = Len(cps) + 1 => cps'[k] = a)
        BY <2>1, <2>2, <3>2
      <4>2. k = Len(cps) + 1 \/ k \in 1..Len(cps)
        BY <4>1
      <4>3. CASE k = Len(cps) + 1
        BY <2>3, <3>2, <4>1, <4>3
      <4>4. CASE k \in 1..Len(cps)
        BY <4>1, <4>4 DEF BoundariesInOrder
      <4> QED
        BY <4>2, <4>3, <4>4
    <3> QED
      BY <3>1, <3>2
  <2>5. \A t \in Schedulers : session'[t].anchor = NoAnchor
    BY <2>1 DEF LoneScheduler
  <2> QED
    BY <2>4, <2>5 DEF BoundariesInOrder
<1> QED
  BY <1>1, <1>2, <1>4, <1>5, <1>6 DEF AuditNext, TickTail

LEMMA BoundariesStart == AuditInit => BoundariesInOrder
<1> SUFFICES ASSUME AuditInit PROVE BoundariesInOrder
  OBVIOUS
<1>1. cps = <<>> /\ Len(cps) = 0
  BY DEF AuditInit
<1>2. \A s \in Schedulers : session[s].anchor = NoAnchor
  BY RestIsShaped DEF AuditInit
<1> QED
  BY <1>1, <1>2 DEF BoundariesInOrder

\* What the invariants say of the types.
LEMMA AuditInvTypes == AuditInv /\ BoundariesInOrder => AuditTypeOK
<1> SUFFICES ASSUME AuditInv, BoundariesInOrder PROVE AuditTypeOK
  OBVIOUS
<1>1. ASSUME NEW i \in Ids
      PROVE  events[i].state \in EventStates
             /\ (events[i].hash # NoHash => events[i].state = "committed")
  BY DEF AuditInv, AuditShape, RowsSound, RowSound
<1>2. \A s \in Schedulers : session[s].pc \in Places
  BY DEF AuditInv, AuditShape, SessionShape
<1>3. \A k \in DOMAIN cps : cps[k].last = k * Interval
  BY DEF AuditInv, AuditShape, BoundariesInOrder
<1>4. verdict \in {"none", "ok", "failed"} /\ rewritten \subseteq Ids
  BY DEF AuditInv, AuditShape
<1> QED
  BY <1>1, <1>2, <1>3, <1>4 DEF AuditTypeOK, Places

\* With one scheduler, a hashed row is a committed one and the anchors stand at the
\* multiples of the interval: a boundary is anchored once, and none is passed over.
THEOREM AuditTypeCorrect == ASSUME LoneScheduler PROVE AuditSpec => []AuditTypeOK
<1>1. AuditInv /\ BoundariesInOrder /\ [AuditNext]_auditVars => BoundariesInOrder'
  BY BoundariesStep
<1>2. AuditInit => AuditInv /\ BoundariesInOrder
  BY AuditStarts, BoundariesStart
<1> QED
  BY <1>1, <1>2, AuditInvSteps, AuditInvTypes, PTL DEF AuditSpec

-----------------------------------------------------------------------------
(* The five parts side by side                                              *)

\* Each step of the composition is one of its part, and leaves the four others alone.
LEMMA PartSteps ==
  [Next]_surfaceVars =>
    /\ [VoiceNext]_voiceVars /\ [OutboxNext]_outboxVars /\ [AuditNext]_auditVars
    /\ [DoorNext]_doorVars /\ [SignNext]_signVars
<1> SUFFICES ASSUME [Next]_surfaceVars
             PROVE  /\ [VoiceNext]_voiceVars /\ [OutboxNext]_outboxVars /\ [AuditNext]_auditVars
                    /\ [DoorNext]_doorVars /\ [SignNext]_signVars
  OBVIOUS
<1>1. CASE UNCHANGED surfaceVars
  BY <1>1 DEF surfaceVars
<1>2. CASE Next
  BY <1>2 DEF Next
<1> QED
  BY <1>1, <1>2

\* A behaviour of the five is a behaviour of each: what is proved of a part holds of it there.
THEOREM EachPartIsItself ==
  Spec => VoiceSpec /\ OutboxSpec /\ AuditSpec /\ DoorSpec /\ SignSpec
<1>1. Init => VoiceInit /\ OutboxInit /\ AuditInit /\ DoorInit /\ SignInit
  BY DEF Init
<1> QED
  BY <1>1, PartSteps, PTL DEF Spec, VoiceSpec, OutboxSpec, AuditSpec, DoorSpec, SignSpec

\* The types of all five, with the one scheduler that keeps the boundaries of the anchors apart.
THEOREM SurfacesTypeCorrect == ASSUME LoneScheduler PROVE Spec => []SurfacesTypeOK
<1>1. VoiceTypeOK /\ OutboxTypeOK /\ AuditTypeOK /\ (DoorTypeOK /\ BurstBounded)
        /\ (SignTypeOK /\ GuessesBounded) => SurfacesTypeOK
  BY DEF SurfacesTypeOK
<1>2. AuditSpec => []AuditTypeOK
  BY AuditTypeCorrect
<1> QED
  BY <1>1, <1>2, EachPartIsItself, VoiceTypeCorrect, OutboxTypeCorrect, CustomerBurstIsBounded,
     GuessingIsBounded, PTL

\* Neither door lets more through than its budget: requests of a customer in any window,
\* whatever Redis and the workers go through, and guesses before a lockout, from whatever
\* addresses.
THEOREM DoorsHold == Spec => []DoorsBounded
<1>1. (DoorTypeOK /\ BurstBounded) /\ (SignTypeOK /\ GuessesBounded) => DoorsBounded
  BY DEF DoorsBounded
<1> QED
  BY <1>1, EachPartIsItself, CustomerBurstIsBounded, GuessingIsBounded, PTL
=============================================================================
