---------------------------- MODULE MCAgentChat ----------------------------
(* Two messages, of one chat or of different ones. *)
EXTENDS AgentChat
AnyChat == [Requests -> Chats]
=============================================================================
