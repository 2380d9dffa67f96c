---------------------------- MODULE MCAfterSale ----------------------------
(***************************************************************************)
(* Small instances of AfterSale for TLC.                                   *)
(***************************************************************************)
EXTENDS AfterSale, TLC

CONSTANTS c1

OneOwner == [p \in Purchases |-> c1]
Rising == [p \in Purchases |-> 100 * p]   \* every sum of totals is different
=============================================================================
