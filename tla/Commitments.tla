---------------------------- MODULE Commitments -----------------------------
(****************************************************************************)
(* What else a merchant and a customer agree about a case, composed with    *)
(* its promises (PromiseLedger): a payment plan, whose instalments are      *)
(* promises and whose verdict is the last sweep of the tick; a dispute,     *)
(* which holds the chaser back; and a payment made outside the gateway.     *)
(****************************************************************************)
EXTENDS PromiseLedger

CONSTANT PlanSpan  \* MAX_PLAN_HORIZON_DAYS

VARIABLES
  plan,        \* payment_plans.status of the case's plan; "none" before one is made
  instalments, \* the promises of the plan
  disputed     \* the case has an open row in case_disputes

agreementVars == <<plan, instalments, disputed>>
commitVars == <<promiseVars, agreementVars>>

CommitTypeOK ==
  /\ PromiseTypeOK
  /\ plan \in {"none", "active", "defaulted", "completed"}
  /\ instalments \subseteq Rows /\ disputed \in BOOLEAN

CommitInit ==
  /\ PromiseInit
  /\ plan = "none" /\ instalments = {} /\ disputed = FALSE

\* validate_plan_shape, for the two instalments of the instance: in order, and not too far
\* apart. Nothing asks how far from today they are, or on which side of it.
LegalShape(d1, d2) == d1 < d2 /\ d2 - d1 <= PlanSpan

\* create_plan: on an open case with something owed and no active plan, one
\* promise per instalment; each pushes next_action_at out.
CreatePlan(d1, d2) ==
  /\ cState = "open" /\ plan # "active" /\ LegalShape(d1, d2) /\ RowsLeft >= 2
  /\ \E p, q \in Promises \ Rows :
       /\ p < q /\ \A r \in Promises \ Rows : r \in {p, q} \/ r > q
       /\ instalments' = {p, q}
       /\ status' = [status EXCEPT ![p] = "pending", ![q] = "pending"]
       /\ due' = [due EXCEPT ![p] = d1, ![q] = d2]
       /\ channel' = [channel EXCEPT ![p] = "payment_plan", ![q] = "payment_plan"]
  /\ nextAt' = Later(nextAt, d2)
  /\ plan' = "active"
  /\ UNCHANGED <<up, clock, cState, used, level, booked, mandate, chargedAt, reminded, attemptRows,
                 bankVars, workVars, sessionVars, crashes, disputed>>

\* request_a_plan, the page's form: the dates are midnights IST.
RequestPlan(d1, d2) == Night(d1) /\ Night(d2) /\ CreatePlan(d1, d2)

Instalment(verdicts) == {p \in instalments : status[p] \in verdicts}

\* Variant: a plan defaults on an open case only.
DefaultedOpenOnly == cState = "open" /\ Instalment({"broken"}) # {}
Defaulted == Instalment({"broken"}) # {}

\* Variant: the default leaves the instalments still to come alone.
DefaultedAlone == status
\* A default cancels what an open case still has pending, plan or not.
AfterDefault == IF cState = "open" THEN Resolved("cancelled") ELSE status

\* The case recovered, every instalment has its verdict, and the target is met.
Complete ==
  /\ cState = "recovered" /\ Instalment({"kept", "broken"}) = instalments
  /\ booked = "full"

\* reconcile_plans, after the other sweeps of the tick.
ReconcilePlans(s) ==
  /\ pc[s] = "remind" /\ page[s] = {}
  /\ Stay(s, "idle")
  /\ \/ /\ plan = "active" /\ Defaulted
        /\ plan' = "defaulted" /\ status' = AfterDefault
     \/ /\ plan = "active" /\ ~Defaulted /\ Complete
        /\ plan' = "completed" /\ UNCHANGED status
     \/ /\ plan # "active" \/ ~(Defaulted \/ Complete)
        /\ UNCHANGED <<plan, status>>
  /\ UNCHANGED <<up, clock, caseVars, due, channel, mandate, chargedAt, reminded, attemptRows,
                 bankVars, sessionVars, crashes, instalments, disputed>>

\* open_dispute: one at a time, on a case still open.
OpenDispute ==
  /\ ~disputed /\ cState = "open"
  /\ disputed' = TRUE
  /\ UNCHANGED <<promiseVars, plan, instalments>>

\* resolve_dispute: the first verdict stands; upheld closes the case.
ResolveDispute(verdict) ==
  /\ disputed
  /\ disputed' = FALSE
  /\ cState' = IF verdict = "upheld" /\ cState = "open" THEN "abandoned" ELSE cState
  /\ UNCHANGED <<up, clock, used, level, nextAt, booked, promiseRows, attemptRows, bankVars,
                 workVars, sessionVars, crashes, plan, instalments>>

\* record_external_payment, asked for by mark_case_paid: any positive amount closes an open
\* case; its promises are not touched.
PayOutside(full) ==
  /\ cState = "open"
  /\ cState' = "recovered" /\ booked' = IF full THEN "full" ELSE "part"
  /\ UNCHANGED <<up, clock, used, level, nextAt, promiseRows, attemptRows, bankVars, workVars,
                 sessionVars, crashes, plan, instalments, disputed>>

\* chase_case asks the agent only with no dispute open.
AskUndisputed == ~disputed /\ (\E c \in Chasers : ChaseAsks(c)) /\ UNCHANGED agreementVars

CommitNext ==
  \/ LedgerStep /\ UNCHANGED agreementVars
  \/ \E s \in Schedulers : ReconcilePlans(s)
  \/ \E d1, d2 \in 0 .. LastDue : RequestPlan(d1, d2)
  \/ OpenDispute \/ (\E v \in {"upheld", "rejected"} : ResolveDispute(v))
  \/ (\E full \in BOOLEAN : PayOutside(full)) \/ AskUndisputed

\* The scheduler loop goes on, and the clock runs: requests and chases are short against its
\* unit, so each has ended when it moves.
CommitFairness ==
  /\ \A s \in Schedulers :
       WF_commitVars((SweepStep(s) /\ UNCHANGED agreementVars) \/ ReconcilePlans(s))
  /\ <>(clock = MaxClock)

CommitSpec == CommitInit /\ [][CommitNext]_commitVars
FairCommitSpec == CommitSpec /\ CommitFairness

-----------------------------------------------------------------------------
(* Properties                                                               *)

\* A plan that defaulted has a broken instalment and leaves the customer no
\* instalment still to be reminded of or debited; one that completed has all
\* its instalments answered and its case paid in full.
PlanVerdictFits ==
  /\ plan = "defaulted" =>
       /\ Instalment({"broken"}) # {}
       /\ cState = "open" => Instalment({"pending"}) = {}
  /\ plan = "completed" =>
       cState # "open" /\ booked = "full" /\ Instalment({"pending"}) = {}

\* Every promise gets a verdict, on the clock if by nothing else.
PromisesSettle == \A p \in Promises : status[p] = "pending" ~> status[p] # "pending"

\* A broken instalment reaches the merchant: its plan does not stay active.
DefaultsSurface == (plan = "active" /\ Instalment({"broken"}) # {}) ~> plan # "active"
=============================================================================
