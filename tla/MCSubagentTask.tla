--------------------------- MODULE MCSubagentTask ---------------------------
(* Small instances of SubagentTask. *)
EXTENDS SubagentTask, TLC
=============================================================================
