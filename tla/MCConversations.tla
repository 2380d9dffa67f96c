-------------------------- MODULE MCConversations --------------------------
(***************************************************************************)
(* Small instances of Conversations for TLC.                               *)
(***************************************************************************)
EXTENDS Conversations, TLC

(* Two administrators do not accept, and a client does not open, at once.  *)
OneClaimOneCreate == {{"claim"}, {"create"}}
=============================================================================
