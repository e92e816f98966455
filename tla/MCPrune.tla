------------------------------ MODULE MCPrune ------------------------------
(***************************************************************************)
(* Logs for the jobs that scan them: one block of each kind, and messages  *)
(* of three lengths.                                                       *)
(***************************************************************************)
EXTENDS PruneScheduler

Blk(kind, len) == [kind |-> kind, len |-> len]

Mixed == {Blk("System", 1), Blk("ToolResult", 1), Blk("Message", 0), Blk("Message", 1), Blk("Message", 2)}
=============================================================================
