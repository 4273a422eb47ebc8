--------------------------- MODULE MCMemoryUpdate ---------------------------
(* Three calls in any mix: three turns of two conversations or flushes for  *)
(* the queue; two requests, or a request and a write of another process,    *)
(* beside an update for the storage.  A thread serves a turn or a flush, so *)
(* that three suffice.                                                      *)
EXTENDS MemoryUpdate
=============================================================================
