----------------------------- MODULE VoiceLine -----------------------------
(***************************************************************************)
(* The voice follow-up call (src/src/voice): the queue the chase writes,   *)
(* the bridge processes that claim a row, have the provider dial it and    *)
(* answer the provider's callbacks, the signed turn and report endpoints   *)
(* of the engine. All calls are to one customer, each row about one case.  *)
(*                                                                         *)
(* What the caller says is abstracted to the verdict the pipeline reaches  *)
(* on it; the bridge's memory (_CALLS, _PENDING) is lost on a restart, a   *)
(* report is lost when its POST fails (_report swallows the error).        *)
(***************************************************************************)
EXTENDS Integers, FiniteSets

CONSTANTS
  Calls,        \* queue rows, numbered in order of created_at
  Bridges,      \* bridge processes
  MaxTurns,     \* MAX_TURNS
  MaxAbstains,  \* abstentions that end a call
  MaxRestarts,  \* bound: bridge restarts
  MaxLost       \* bound: reports whose POST fails

ASSUME VoiceAssumption ==
  /\ Calls \subseteq Nat \ {0} /\ MaxTurns \in Nat \ {0} /\ MaxAbstains \in Nat \ {0}
  /\ MaxRestarts \in Nat /\ MaxLost \in Nat

VARIABLES
  row,       \* voice_call_queue: "none" before the chase queues it
  case,      \* the case behind each row: "open", "opted_out" or "closed"
  promised,  \* cases with a voice promise recorded
  hand,      \* per worker: the row its claim returned, not dialled yet
  line,      \* provider's side: "none", "ringing", "live" (between callbacks), "over"
  turn,      \* the n signed into the action URL of the live call's next callback
  mind,      \* the bridge's memory of the call
  dials,     \* per row: how often the provider was asked to dial it
  stopped,   \* calls on which the caller was told the stop request is noted
  restarts, lost
voiceVars == <<row, case, promised, hand, line, turn, mind, dials, stopped,
               restarts, lost>>

NoCall == 0
RowState == {"none", "queued", "claimed", "done", "failed", "opted_out"}
\* A call's entry in _CALLS: absent, or whether it holds the queue row's id.
Unknown == [known |-> FALSE, bound |-> FALSE, nudged |-> FALSE, abstains |-> 0,
            reported |-> FALSE]
Fresh == [Unknown EXCEPT !.known = TRUE]

VoiceTypeOK ==
  /\ row \in [Calls -> RowState] /\ case \in [Calls -> {"open", "opted_out", "closed"}]
  /\ promised \subseteq Calls /\ stopped \subseteq Calls
  /\ hand \in [Bridges -> Calls \cup {NoCall}]
  /\ line \in [Calls -> {"none", "ringing", "live", "over"}]
  /\ turn \in [Calls -> 0..MaxTurns] /\ dials \in [Calls -> 0..2]
  /\ \A c \in Calls : mind[c].abstains <= MaxAbstains
  /\ restarts \in 0..MaxRestarts /\ lost \in 0..MaxLost

VoiceInit ==
  /\ row = [c \in Calls |-> "none"] /\ case = [c \in Calls |-> "open"]
  /\ promised = {} /\ stopped = {} /\ hand = [w \in Bridges |-> NoCall]
  /\ line = [c \in Calls |-> "none"] /\ turn = [c \in Calls |-> 0]
  /\ mind = [c \in Calls |-> Unknown] /\ dials = [c \in Calls |-> 0]
  /\ restarts = 0 /\ lost = 0

----------------------------------------------------------------------------
\* _queue_voice_call: with the outcome of a delivered nudge, one per attempt.
QueueVoiceCall(c) ==
  /\ row[c] = "none" /\ case[c] = "open"
  /\ row' = [row EXCEPT ![c] = "queued"]
  /\ UNCHANGED <<case, promised, hand, line, turn, mind, dials, stopped, restarts, lost>>

\* A capture, an opt-out on another channel, an expiry.
CaseCloses(c) ==
  /\ case[c] = "open" /\ case' = [case EXCEPT ![c] = "closed"]
  /\ UNCHANGED <<row, promised, hand, line, turn, mind, dials, stopped, restarts, lost>>

\* voice_queue_claim: one UPDATE takes the oldest queued row of an open case.
\* Variant: the row is read first and written by the next request.
ClaimableStale(w, c) ==
  /\ row[c] \in {"queued", "claimed"} /\ case[c] = "open" /\ line[c] = "none"
Claimable(w, c) ==
  /\ row[c] = "queued" /\ case[c] = "open"
  /\ \A d \in Calls : row[d] = "queued" /\ case[d] = "open" => c <= d

ClaimCall(w, c) ==
  /\ hand[w] = NoCall /\ Claimable(w, c)
  /\ row' = [row EXCEPT ![c] = "claimed"] /\ hand' = [hand EXCEPT ![w] = c]
  /\ UNCHANGED <<case, promised, line, turn, mind, dials, stopped, restarts, lost>>

\* claim_and_dial asks the provider to dial; when that fails the bridge exits.
Dial(w) ==
  LET c == hand[w]
  IN /\ c # NoCall /\ hand' = [hand EXCEPT ![w] = NoCall]
     /\ \/ /\ line' = [line EXCEPT ![c] = "ringing"]
           /\ dials' = [dials EXCEPT ![c] = IF @ = 2 THEN 2 ELSE @ + 1]
        \/ UNCHANGED <<line, dials>>
     /\ UNCHANGED <<row, case, promised, turn, mind, stopped, restarts, lost>>

----------------------------------------------------------------------------
\* The engine's endpoints

\* record_opt_out closes every open case of the customer.
OptedOut(cs) == [c \in Calls |-> IF cs # {} /\ case[c] = "open" THEN "opted_out" ELSE case[c]]

\* voice_queue_report: 404 for an id that is no queue row (the provider's
\* CallUUID), 409 for a terminal row; only "done" and its like are done.
Reported(c, known, result) ==
  IF ~known \/ row[c] \notin {"claimed", "queued"} THEN UNCHANGED <<row, case>>
  ELSE /\ row' = [row EXCEPT ![c] = result]
       /\ case' = IF result = "opted_out" THEN OptedOut({c}) ELSE case

\* _report: by the queue row's id if _CALLS still holds it, else by CallUUID.
\* The POST may fail, and nothing repeats it.
Report(c, result) ==
  \/ Reported(c, mind[c].known /\ mind[c].bound, result) /\ UNCHANGED lost
  \/ lost < MaxLost /\ lost' = lost + 1 /\ UNCHANGED <<row, case>>

----------------------------------------------------------------------------
\* The provider's callbacks

\* plivo_answer: greet, bind the queue row named in "client".
Answered(c) ==
  /\ line[c] = "ringing" /\ line' = [line EXCEPT ![c] = "live"]
  /\ mind' = [mind EXCEPT ![c] = [Fresh EXCEPT !.bound = TRUE]]
  /\ turn' = [turn EXCEPT ![c] = 1]
  /\ UNCHANGED <<row, case, promised, hand, dials, stopped, restarts, lost>>

\* _call_state: an unknown CallUUID gets a fresh entry without the row's id.
Remembered(c) == IF mind[c].known THEN mind[c] ELSE Fresh

\* The bridge asks the next question: turn n + 1 in the signed URL.
\* Variant: a turn without speech is asked again under the same number.
NextTurnOnSpeech(c, heard) == IF heard THEN turn[c] + 1 ELSE turn[c]
NextTurn(c, heard) == turn[c] + 1

Ask(c, entry, heard) ==
  /\ mind' = [mind EXCEPT ![c] = entry] /\ turn' = [turn EXCEPT ![c] = NextTurn(c, heard)]
  /\ UNCHANGED <<row, case, line, lost>>
HangUp(c, entry) ==
  /\ mind' = [mind EXCEPT ![c] = entry] /\ line' = [line EXCEPT ![c] = "over"]
  /\ UNCHANGED turn

\* A callback below the cap on turns. Variant: one turn past the cap.
CallbackPastCap(c) == /\ line[c] = "live" /\ turn[c] <= MaxTurns
                      /\ UNCHANGED <<hand, dials, restarts>>
Callback(c) == /\ line[c] = "live" /\ turn[c] < MaxTurns
               /\ UNCHANGED <<hand, dials, restarts>>

TurnCap(c) ==
  /\ line[c] = "live" /\ turn[c] >= MaxTurns
  /\ HangUp(c, Remembered(c))
  /\ UNCHANGED <<row, case, promised, hand, dials, stopped, restarts, lost>>

\* No recording: one nudge, then the farewell.
Silence(c) ==
  /\ Callback(c)
  /\ IF Remembered(c).nudged
     THEN HangUp(c, Remembered(c)) /\ UNCHANGED <<row, case, lost>>
     ELSE Ask(c, [Remembered(c) EXCEPT !.nudged = TRUE], FALSE)
  /\ UNCHANGED <<promised, stopped>>

\* The recording cannot be fetched or transcribed.
SttFails(c) ==
  /\ Callback(c) /\ Ask(c, [Remembered(c) EXCEPT !.nudged = FALSE], FALSE)
  /\ UNCHANGED <<promised, stopped>>

\* The engine's turn fails: the callback is a 500 and the provider gives up.
EngineFails(c) ==
  /\ Callback(c) /\ HangUp(c, [Remembered(c) EXCEPT !.nudged = FALSE])
  /\ UNCHANGED <<row, case, promised, stopped, lost>>

Heard(c) == [Remembered(c) EXCEPT !.nudged = FALSE]
Closing(c) == [Heard(c) EXCEPT !.reported = TRUE]

\* "band karo": the turn names no customer, so the report has to close the cases.
SaysStop(c) ==
  /\ Callback(c) /\ HangUp(c, Closing(c)) /\ Report(c, "opted_out")
  /\ stopped' = stopped \cup {c} /\ UNCHANGED promised

\* A promise on the bound, open case; without the row's id no case is bound and
\* the caller is asked again. "promise_captured" is no word for done, so the
\* row reads "failed"; a refused promise reports "done".
SaysPromise(c) ==
  /\ Callback(c) /\ UNCHANGED stopped
  /\ IF ~Heard(c).bound
     THEN Ask(c, Heard(c), TRUE) /\ UNCHANGED promised
     ELSE \/ /\ HangUp(c, Closing(c)) /\ Report(c, "failed")
             /\ promised' = IF case[c] = "open" THEN promised \cup {c} ELSE promised
          \/ /\ case[c] = "open" /\ HangUp(c, Closing(c)) /\ Report(c, "done")
             /\ UNCHANGED promised

\* Answers, refused injections, clarifications: ask on; so does an abstention
\* until there have been too many.
SaysSomething(c) ==
  /\ Callback(c) /\ Ask(c, Heard(c), TRUE) /\ UNCHANGED <<promised, stopped>>
Abstains(c) ==
  LET n == Heard(c).abstains + 1
  IN /\ Callback(c) /\ UNCHANGED <<promised, stopped>>
     /\ IF n < MaxAbstains THEN Ask(c, [Heard(c) EXCEPT !.abstains = n], TRUE)
        ELSE HangUp(c, [Closing(c) EXCEPT !.abstains = n]) /\ Report(c, "failed")

\* plivo_hangup: the entry leaves _CALLS before _report looks the row's id up in
\* it. "reported" entries have had their report. The caller may hang up at any
\* time; no answer, busy and failed come without an answer callback.
HangupCallback(c) ==
  /\ line[c] \in {"ringing", "live", "over"}
  /\ line' = [line EXCEPT ![c] = "none"] /\ mind' = [mind EXCEPT ![c] = Unknown]
  /\ IF mind[c].known /\ mind[c].reported THEN UNCHANGED <<row, case, lost>>
     ELSE Reported(c, FALSE, "done") /\ UNCHANGED lost
  /\ UNCHANGED <<promised, hand, turn, dials, stopped, restarts>>

BridgeRestarts ==
  /\ restarts < MaxRestarts /\ restarts' = restarts + 1
  /\ mind' = [c \in Calls |-> Unknown] /\ hand' = [w \in Bridges |-> NoCall]
  /\ UNCHANGED <<row, case, promised, line, turn, dials, stopped, lost>>

----------------------------------------------------------------------------
TurnCallback(c) == \/ TurnCap(c) \/ Silence(c) \/ SttFails(c) \/ EngineFails(c)
                   \/ SaysStop(c) \/ SaysPromise(c) \/ SaysSomething(c) \/ Abstains(c)
VoiceNext ==
  \/ \E c \in Calls : \/ QueueVoiceCall(c) \/ CaseCloses(c) \/ Answered(c)
                      \/ TurnCallback(c) \/ HangupCallback(c)
  \/ \E w \in Bridges : Dial(w) \/ \E c \in Calls : ClaimCall(w, c)
  \/ BridgeRestarts
VoiceSpec == VoiceInit /\ [][VoiceNext]_voiceVars

\* The bridge dials what it claimed; the provider makes each callback: a turn at
\* the latest when its input timeout (7 s) ends, the hangup after the call.
VoiceFairness ==
  /\ \A w \in Bridges : WF_voiceVars(Dial(w))
  /\ \A c \in Calls : /\ WF_voiceVars(TurnCallback(c) \/ Answered(c))
                      /\ WF_voiceVars(line[c] = "over" /\ HangupCallback(c))
FairVoiceSpec == VoiceSpec /\ VoiceFairness

----------------------------------------------------------------------------
\* Properties

\* A queued call is dialled once, whatever claims race for its row
\* (voice_queue_claim: "two workers racing for the same row cannot both win").
DialledOnce == \A c \in Calls : dials[c] <= 1

\* No caller is trapped in the question loop: the lines fall silent, through
\* silence, failed transcriptions, endless questions and a bridge that restarted
\* and forgot the call (MAX_TURNS, "a trapped customer").
NoTrappedCaller ==
  (\E c \in Calls : line[c] = "live") ~> (\A c \in Calls : line[c] # "live")
=============================================================================
