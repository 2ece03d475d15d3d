---------------------------- MODULE MCPaymentRail ----------------------------
(* Small instances of PaymentRail.                                          *)
EXTENDS PaymentRail
CONSTANTS w1, w2, t1, s1
=============================================================================
