------------------------------ MODULE MCAccess ------------------------------
(***************************************************************************)
(* Small instances of Access for TLC.                                      *)
(***************************************************************************)
EXTENDS Access, TLC

(* Attempts overlap one another, and so do forgotten passwords and resets. *)
(* Left out: an attempt beside a request about links, which touches nothing*)
(* the attempt reads or writes, and, as the one restriction the code does  *)
(* not justify, root's setting a status during an attempt.                 *)
AttemptsOverlap ==
  {{"login", op} : op \in {"activate", "deactivate", "forgot", "reset"}}
=============================================================================
