---------------------------- MODULE MCChatClient ----------------------------
(***************************************************************************)
(* Instances of ChatClient: one conversation of at most three blocks.      *)
(***************************************************************************)
EXTENDS ChatClient

CONSTANTS m1, m2, m3

\* A system prompt with the first message, then one more message.
TwoTurns == <<<<m1, m2>>, <<m3>>>>
=============================================================================
