----------------------------- MODULE MCCheckout -----------------------------
(* A small till: one payment in cash that may exceed what is due, and one   *)
(* by card.                                                                 *)
EXTENDS Checkout, TLC
CONSTANTS t1, t2, k1, k2
TwoAndOne == k1 :> 2 @@ k2 :> 1
=============================================================================
