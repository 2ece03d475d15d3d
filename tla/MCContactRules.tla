--------------------------- MODULE MCContactRules ---------------------------
EXTENDS ContactRules
Policy1(window, first, gap, budget, rail) ==
  [window |-> window, first |-> first, gap |-> gap, budget |-> budget, rail |-> rail]
SmallPolicies ==
  [k \in Chasers |->
     CASE k = "checkout_abandonment" -> Policy1(8, 0, 4, 2, NoRail)
       [] k = "subscription_failure" -> Policy1(8, 0, 1, 4, "upi")
       [] k = "invoice_overdue" -> Policy1(8, 0, 3, 4, NoRail)
       [] OTHER -> Policy1(11, 2, 4, 3, "upi")]
Kind(k, m) == [kind |-> k, method |-> m, huge |-> FALSE]
SmallCases == {Kind("mandate_failure", "unknown"), Kind("checkout_abandonment", "unknown"),
   Kind("bank_downtime", "card"), Kind("risk_check_failed", "card"),
   [Kind("issuer_decline", "upi") EXCEPT !.huge = TRUE], Kind("fraud_block", "card")}
Renewal == {Kind("subscription_failure", "card")}
=============================================================================
