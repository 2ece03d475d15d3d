--------------------------- MODULE DebitContract ----------------------------
(****************************************************************************)
(* What the engine owes a customer who authorised an automatic debit, with  *)
(* nothing of how the sweeps keep it: one request to the bank per promise,  *)
(* after consent, on or after the date.  PromiseLedger implements it.       *)
(****************************************************************************)
EXTENDS Integers

CONSTANT Promises

VARIABLES
  today,
  date,   \* the date of each promise, or a negative number before it is made
  stage   \* "idle", "consented", "over" (no debit will follow), "asked", "taken"

vars == <<today, date, stage>>

Init ==
  /\ today \in Nat
  /\ date \in [Promises -> {-1}]
  /\ stage = [p \in Promises |-> "idle"]

Move(p, from, to) == stage[p] = from /\ stage' = [stage EXCEPT ![p] = to]

\* The gateway's verdict on the mandates asked about, all in one pass.
Verdicts ==
  /\ \A p \in Promises :
       \/ stage'[p] = stage[p]
       \/ stage[p] = "idle" /\ date[p] > today /\ stage'[p] \in {"consented", "over"}
  /\ stage' \in [Promises -> {"idle", "consented", "over", "asked", "taken"}]
  /\ UNCHANGED <<today, date>>

\* No request will be made: the order could not be created.
GiveUp(p) == Move(p, "consented", "over") /\ UNCHANGED <<today, date>>

\* The one request; the bank may take the money at once.
Ask(p) ==
  /\ date[p] <= today
  /\ \E outcome \in {"asked", "taken"} : Move(p, "consented", outcome)
  /\ UNCHANGED <<today, date>>

\* Promises are dated in the future, once.
Dates == \E p \in Promises : date[p] = -1 /\ date'[p] > today
                             /\ date' = [date EXCEPT ![p] = date'[p]]
                             /\ UNCHANGED <<today, stage>>

TimePasses == today' > today /\ UNCHANGED <<date, stage>>

Next ==
  \/ Verdicts \/ Dates \/ TimePasses
  \/ \E p \in Promises : GiveUp(p) \/ Ask(p)

Spec == Init /\ [][Next]_vars

=============================================================================
