---------------------------- MODULE MCSurfaces ----------------------------
(***************************************************************************)
(* One small instance each of the parts around the pipeline that share no  *)
(* state with it: the voice line, the alert outbox, the audit trail, the   *)
(* front door and the sign-in. A behaviour picks one and leaves the others *)
(* at rest.                                                                *)
(***************************************************************************)
EXTENDS VoiceLine, AlertOutbox, AuditTrail, FrontDoor, SignIn

CONSTANTS v1, v2, k1, k2, t1, w1, w2, g1, g2

VARIABLE part
surfaceVars == <<voiceVars, outboxVars, auditVars, doorVars, signVars, part>>

Init ==
  /\ VoiceInit /\ OutboxInit /\ AuditInit /\ DoorInit /\ SignInit
  /\ part \in {"voice", "outbox", "audit", "door", "signin"}
  /\ part # "signin" => screen = "console"

Next ==
  \/ /\ part = "voice" /\ VoiceNext
     /\ UNCHANGED <<outboxVars, auditVars, doorVars, signVars, part>>
  \/ /\ part = "outbox" /\ OutboxNext
     /\ UNCHANGED <<voiceVars, auditVars, doorVars, signVars, part>>
  \/ /\ part = "audit" /\ AuditNext
     /\ UNCHANGED <<voiceVars, outboxVars, doorVars, signVars, part>>
  \/ /\ part = "door" /\ DoorNext
     /\ UNCHANGED <<voiceVars, outboxVars, auditVars, signVars, part>>
  \/ /\ part = "signin" /\ SignNext
     /\ UNCHANGED <<voiceVars, outboxVars, auditVars, doorVars, part>>

\* The fairness of each part, for the part that runs.
PartFairness ==
  /\ \A w \in Bridges : WF_voiceVars(part = "voice" /\ Dial(w))
  /\ \A c \in Calls :
       /\ WF_voiceVars(part = "voice" /\ (TurnCallback(c) \/ Answered(c)))
       /\ WF_voiceVars(part = "voice" /\ line[c] = "over" /\ HangupCallback(c))
  /\ \A c \in Couriers : WF_outboxVars(part = "outbox" /\ Drain(c))
  /\ \A s \in Schedulers : WF_auditVars(part = "audit" /\ TickTail(s))
  /\ \A i \in Ids :
       WF_auditVars(part = "audit" /\ \E ending \in EventStates : EndEvent(i, ending))
  /\ \A w \in Workers : /\ WF_doorVars(part = "door" /\ Command(w))
                        /\ WF_doorVars(part = "door" /\ Arrives(w))
  /\ WF_doorVars(part = "door" /\ ClockTicks)
Spec == Init /\ [][Next]_surfaceVars /\ PartFairness

\* The type invariants of the five parts.
SurfacesTypeOK == VoiceTypeOK /\ OutboxTypeOK /\ AuditTypeOK /\ DoorTypeOK /\ SignTypeOK

\* Both budgets at the doors hold: of requests in a window (FrontDoor), of guesses before a
\* lockout (SignIn).
DoorsBounded == BurstBounded /\ GuessesBounded
=============================================================================
