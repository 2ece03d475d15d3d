-------------------------- MODULE MCCustomerPages --------------------------
(* One person with an invoice and an order; two people with an invoice of   *)
(* one firm each; a person and an order of nobody's.                        *)
EXTENDS CustomerPages
CONSTANTS page1, page2, ann, bob, firm
Both(x, y) == [c \in PageCases |-> IF c = page1 THEN x ELSE y]
SmallTies ==
  {[owner |-> Both(ann, ann), book |-> Both(firm, NoBook)],
   [owner |-> Both(ann, bob), book |-> Both(firm, firm)],
   [owner |-> Both(ann, Anyone), book |-> Both(NoBook, NoBook)]}
Ages == Both(1, 2)
=============================================================================
