--------------------------- MODULE MCCommitments ----------------------------
(***************************************************************************)
(* What is agreed about one case, and the links of another: small          *)
(* instances of Commitments and of PaymentRail, which share no state.  A   *)
(* behaviour picks one and leaves the other at rest.                       *)
(***************************************************************************)
EXTENDS Commitments, PaymentRail

CONSTANTS a1, c1, w1, w2, t1, s1
\* Beside the scheduler, a chase of the case or the voice agent that takes promises.
ChasedOrCalled == {{a1, c1}, {a1, "voice"}}

VARIABLE part
bothVars == <<commitVars, payVars, part>>

Init ==
  /\ part \in {"agreements", "links"} /\ CommitInit /\ PayInit
  /\ part = "links" => up = CHOOSE deployment \in Deployments : TRUE
Next ==
  \/ /\ part = "agreements" /\ CommitNext /\ UNCHANGED <<payVars, part>>
  \/ /\ part = "links" /\ PayNext /\ UNCHANGED <<commitVars, part>>

\* The fairness of both, for the one that runs; of the rail, only that some
\* session and some row go on.
PartFairness ==
  /\ \A s \in Schedulers :
       WF_commitVars(/\ part = "agreements"
                     /\ (SweepStep(s) /\ UNCHANGED agreementVars) \/ ReconcilePlans(s))
  /\ <>(part = "agreements" => clock = MaxClock)
  /\ WF_payVars(/\ part = "links"
                /\ \/ \E w \in Webhooks : HandlerStep(w)
                   \/ \E t \in Taps : PageStep(t)
                   \/ \E s \in Sessions : Execute(s))
  /\ WF_payVars(part = "links" /\ (FireStep \/ \E n \in DOMAIN rows : RowStep(n)))
  /\ WF_payVars(part = "links" /\ LinkSweep({n \in ClosedPage : ~rows[n].stamped}))
Spec == Init /\ [][Next]_bothVars /\ PartFairness

\* The type invariants of both.
BothTypeOK == CommitTypeOK /\ PayTypeOK

\* What was agreed gets its verdict: every promise on the clock if by nothing else, and a
\* broken instalment reaches the merchant (PromisesSettle, DefaultsSurface of its parts).
CommitmentsSettle == PromisesSettle /\ DefaultsSurface

\* What the sweeps owe the payment rail, whichever process died on the way: the links on
\* record of a closed case die, and no attempt stays open (LinksDieWithCase, RowsSettle).
RailSettles == LinksDieWithCase /\ RowsSettle
=============================================================================
