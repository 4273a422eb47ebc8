--------------------------- MODULE MCRunLifecycle ---------------------------
(* Small instances of RunLifecycle: every run on one conversation thread.   *)
EXTENDS RunLifecycle, TLC

OneThread == [r \in Run |-> CHOOSE t \in Thread : TRUE]
Symmetry  == Permutations(Run)

\* Executions in which a client cancels a run, or a store fails and the process
\* shuts down or dies, but not both.  (A replacing run cancels the other one in
\* any case.)
CancelOrTrouble == ~(cancels' > 0 /\ (failures' > 0 \/ proc' # "up" \/ exits' > 0))

\* Without SQLite the exit and the restart are explored, without failing stores.
PlainExits == database = "postgres" => failures = 0

\* Threads without earlier work.
FreshThreads == \A t \in Thread : Prior \notin ckpt[t]
=============================================================================
