---------------------------- MODULE MCBackOffice ----------------------------
(****************************************************************************)
(* One small instance each of the parts behind a case that share no state:  *)
(* the account desk, the books, the contact tally, the rules of contact,    *)
(* the policy agent, batch recovery and the customer's pages.  A behaviour  *)
(* picks one and leaves the others at rest.                                 *)
(****************************************************************************)
EXTENDS AccountDesk, MCCaptureAttribution, ContactLedger, MCContactRules,
        PolicyDesk, BatchRun, MCCustomerPages

CONSTANTS inv1, inv2

\* A ladder of one-day rungs; invoices two days late, on their way to the last rung.
ShortLadder == [l \in 0..Top |-> l]
Reports == {[dated |-> TRUE, late |-> 2]}

VARIABLE part
officeVars == <<deskVars, captureVars, tallyVars, rulesVars, policyVars, batchVars,
                pagesVars, part>>

Init ==
  /\ part \in {"desk", "capture", "tally", "rules", "policy", "batch", "pages"}
  /\ DeskInit /\ CaptureInit /\ TallyInit /\ RulesInit /\ PolicyInit /\ BatchInit
  /\ PagesInit
  \* A part at rest has one initial state.
  /\ part # "rules" => case = Unopened(CHOOSE c \in RuleCases : TRUE)
  /\ part # "policy" => agent
  /\ part # "pages" => tie = CHOOSE t \in Ties : TRUE

Next ==
  \/ /\ part = "desk" /\ DeskNext
     /\ UNCHANGED <<captureVars, tallyVars, rulesVars, policyVars, batchVars, pagesVars, part>>
  \/ /\ part = "capture" /\ CaptureNext
     /\ UNCHANGED <<deskVars, tallyVars, rulesVars, policyVars, batchVars, pagesVars, part>>
  \/ /\ part = "tally" /\ TallyNext
     /\ UNCHANGED <<deskVars, captureVars, rulesVars, policyVars, batchVars, pagesVars, part>>
  \/ /\ part = "rules" /\ RulesNext
     /\ UNCHANGED <<deskVars, captureVars, tallyVars, policyVars, batchVars, pagesVars, part>>
  \/ /\ part = "policy" /\ PolicyNext
     /\ UNCHANGED <<deskVars, captureVars, tallyVars, rulesVars, batchVars, pagesVars, part>>
  \/ /\ part = "batch" /\ BatchNext
     /\ UNCHANGED <<deskVars, captureVars, tallyVars, rulesVars, policyVars, pagesVars, part>>
  \/ /\ part = "pages" /\ PagesNext
     /\ UNCHANGED <<deskVars, captureVars, tallyVars, rulesVars, policyVars, batchVars, part>>

\* The desk's fairness, when it is the part that runs.
PartFairness ==
  /\ WF_deskVars(part = "desk" /\ AccountSweep) /\ WF_deskVars(part = "desk" /\ EndTick)
  /\ SF_deskVars(part = "desk" /\ DayPasses)
  /\ \A i \in Invoices : SF_deskVars(part = "desk" /\ ChaseCloses(i))
Spec == Init /\ [][Next]_officeVars /\ PartFairness

\* The type invariants of the seven parts.
OfficeTypeOK ==
  /\ DeskTypeOK /\ CaptureTypeOK /\ TallyTypeOK /\ RulesTypeOK
  /\ PolicyTypeOK /\ BatchTypeOK /\ PagesTypeOK
=============================================================================
