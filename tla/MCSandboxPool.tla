---------------------------- MODULE MCSandboxPool ----------------------------
(* Small instances of SandboxPool. *)
EXTENDS SandboxPool, TLC

Symmetries == Permutations(Worker) \cup Permutations(Scope)
=============================================================================
