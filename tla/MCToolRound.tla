---------------------------- MODULE MCToolRound ----------------------------
(* An answer with two tool calls.                                          *)
EXTENDS ToolRound
=============================================================================
