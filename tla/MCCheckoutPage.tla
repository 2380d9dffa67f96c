--------------------------- MODULE MCCheckoutPage ---------------------------
(* Values of the constants of CheckoutPage for TLC.                        *)
EXTENDS CheckoutPage

CONSTANT s1
=============================================================================
