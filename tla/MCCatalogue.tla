---------------------------- MODULE MCCatalogue ----------------------------
(* Values of the constants of Catalogue for TLC.                           *)
EXTENDS Catalogue

CONSTANTS u1, u2, k1, k2
=============================================================================
