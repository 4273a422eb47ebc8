-------------------------- MODULE MCScheduledTasks --------------------------
(* Small instances of ScheduledTasks. *)
EXTENDS ScheduledTasks, TLC

CONSTANTS d1, d2

Slots == {d1, d2}

Symmetry == Permutations(Slot)

\* The names of free slots mean nothing: d1 is taken first.
InOrder == Free(d1) /\ Free(d2) => dpc'[d2] = dpc[d2]

\* Clients, with one request, or trouble: the two are explored side by side.
OneKind == manuals + edits <= IF faults + exits = 0 THEN 1 ELSE 0

\* Two of the three outcomes of a run.
TwoOutcomes == \A d \in Slot : run'[d] # "interrupted"

\* One fault or one exit.
OneTrouble == faults + exits <= 1
=============================================================================
