------------------------ MODULE MCCaptureAttribution ------------------------
(****************************************************************************)
(* Two cases of one order.  Payments: "link" pays our link on the first     *)
(* case in part, "part" is a part payment of the customer's own on the      *)
(* order, "note" carries the merchant's reference to the second case,       *)
(* "neft" is recorded by an operator, "void" carries a negative amount.     *)
(****************************************************************************)
EXTENDS CaptureAttribution

CONSTANTS c1, c2

TwoCases == {c1, c2}
OneCase == {c1}

DueInFull == [c \in Cases |-> 3]
Rank == [c \in Cases |-> IF c = c1 THEN 1 ELSE 2]

Money == [p \in Payments |->
            CASE p \in {"link", "part"} -> 1
              [] p = "void" -> -1
              [] OTHER -> 3]
LinkCase == [p \in Payments |->
               IF p \in {"link", "neft", "void"} THEN c1 ELSE NoCase]
OrderCasesOf == [p \in Payments |-> IF p = "part" THEN Cases ELSE {}]
NoteCase == [p \in Payments |->
               IF p = "note" /\ c2 \in Cases THEN c2 ELSE NoCase]
Neft == {"neft"} \cap Payments
=============================================================================
