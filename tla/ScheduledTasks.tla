--------------------------- MODULE ScheduledTasks ---------------------------
(***************************************************************************)
(* The scheduler of the gateway: ScheduledTaskService polls the task table *)
(* and dispatches due tasks, clients trigger, edit, pause and delete tasks *)
(* over HTTP, a launched run reports its outcome through a completion hook,*)
(* and a restarted process reconciles what a dead one left.                *)
(*                                                                         *)
(* A repository method is one database transaction.  One that writes what  *)
(* does not depend on what it read is one step; update_status and          *)
(* update_after_launch, which read a row, decide by it and commit without  *)
(* a lock on it, are a step that loads and a step that commits.  The claim *)
(* is one step, as its FOR UPDATE makes it on Postgres.                    *)
(* Everything else (the poller, the dispatches, the hooks, the handlers of *)
(* clients) interleaves between them.  A dispatch and its run occupy a     *)
(* slot; a slot whose row is settled and that nobody drives is reused.     *)
(* The overlap policy is "skip", the only one the program sets.            *)
(***************************************************************************)
EXTENDS Naturals, FiniteSets

CONSTANTS
    Task,           \* scheduled tasks
    Once,           \* those that fire once; the others follow a cron schedule
    Fresh,          \* those that run on a fresh thread each time
    Slot,           \* dispatches that can be open together
    None,           \* no task
    MaxConcurrent,  \* max_concurrent_runs of the configuration
    MaxManual,      \* bound on manual triggers
    MaxEdits,       \* bound on pauses, resumes, patches and deletions
    MaxFaults,      \* bound on failing transactions and lost hooks
    MaxExits        \* bound on process exits

ASSUME SchedulerAssumption ==
    /\ Once \subseteq Task
    /\ Fresh \subseteq Task
    /\ None \notin Task
    /\ IsFiniteSet(Task) /\ IsFiniteSet(Slot)
    /\ {MaxConcurrent, MaxManual, MaxEdits, MaxFaults, MaxExits} \subseteq Nat

ActiveRow    == {"queued", "running"}
TerminalRow  == {"success", "failed", "skipped", "interrupted"}
TerminalTask == {"completed", "failed", "cancelled"}
TaskStatus   == {"absent", "enabled", "running", "paused", "deleted"} \cup TerminalTask
Outcome      == {"success", "failed", "interrupted"}
Disturbance  == {"manual", "edit", "fault", "race", "gone"}
DispatchPc   == {"checking", "creating", "creatingSkip", "launching",
                 "rowRunning", "rowWriting", "rowSkipped", "rowFailed",
                 "taskLaunched", "taskSkipped", "taskFailed",
                 "writeLaunched", "writeSkipped", "writeFailed"}
Column       == {"status", "next", "lease"}
Bookkeeping  == {"taskLaunched", "taskSkipped", "taskFailed"}
Writes       == {"writeLaunched", "writeSkipped", "writeFailed"}
EditKind     == {"pause", "resume", "patch"}

VARIABLES
    status, next, lease,              \* a task's row
    row,                              \* status of a slot's task-run row
    taskOf, trigger, seen, ahead, dpc,\* a dispatch: what it read, where it is
    dirty,                            \* columns its open transaction will write
    run, hook,                        \* its run and the run's completion hook
    budget, batch,                    \* the poller: room it counted, its claims
    edit,                             \* edits checked and not yet written
    proc, manuals, edits, faults, exits,
    \* history: what disturbed a task (a "race": its hook committed between load
    \* and commit of the launch's write; "gone": deleted between them); scheduled
    \* launches of a once task
    touch, fired

tasks    == <<status, next, lease>>
dispatch == <<taskOf, trigger, seen, ahead>>
place    == <<dpc, dirty>>
runs     == <<run, hook>>
poller   == <<budget, batch>>
bounds   == <<manuals, edits, faults, exits>>
history  == <<touch, fired>>
vars     == <<tasks, row, dispatch, place, runs, poller, edit, proc, bounds, history>>

-----------------------------------------------------------------------------
(* Views of the state. *)

Exists(t)    == status[t] \notin {"absent", "deleted"}
Attended(d)  == dpc[d] # "done" \/ run[d] = "live" \/ hook[d] # "none"
Free(d)      == ~Attended(d) /\ row[d] \notin ActiveRow
ActiveRows   == {d \in Slot : row[d] \in ActiveRow}
PollerBusy   == batch # {} \/ \E d \in Slot : trigger[d] = "scheduled" /\ dpc[d] # "done"
Spared(d)    == touch[taskOf[d]] \cap {"fault", "race", "gone"} = {}
RunsOf(t)    == {d \in Slot : taskOf[d] = t /\ run[d] = "live"}

\* Mutation: only rows that wait for their launch count as active.
HasActiveRunsQueued(t) == \E d \in Slot : taskOf[d] = t /\ row[d] = "queued"

HasActiveRuns(t) == \E d \in Slot : taskOf[d] = t /\ row[d] \in ActiveRow

\* Mutation: the cap bounds a batch of claims only.
RoomPerBatch == MaxConcurrent

\* What a poll may still claim.
Room == IF Cardinality(ActiveRows) < MaxConcurrent
        THEN MaxConcurrent - Cardinality(ActiveRows) ELSE 0

\* Mutation: a claim whose process died is never taken over.
ClaimableEnabled(t) == next[t] = "due" /\ status[t] = "enabled" /\ lease[t] # "held"

\* The rows claim_due_tasks selects.
Claimable(t) ==
    /\ next[t] = "due"
    /\ \/ status[t] = "enabled" /\ lease[t] # "held"
       \/ status[t] = "running" /\ lease[t] = "expired"

\* next_run_at of a dispatch's schedule at the time of the dispatch.
NextOf(d) == IF taskOf[d] \in Once /\ ~ahead[d] THEN "none" ELSE "future"

StatusForFailure(d) ==
    IF trigger[d] = "manual" THEN seen[d]
    ELSE IF taskOf[d] \in Once THEN "failed" ELSE "enabled"

StatusForSkip(d) == IF taskOf[d] \in Once THEN "failed" ELSE "enabled"

StatusForLaunch(d) ==
    IF taskOf[d] \in Once THEN "running"
    ELSE IF trigger[d] = "manual" /\ seen[d] = "paused" THEN "paused"
    ELSE "enabled"

\* The status the bookkeeping of a dispatch gives its task.
StatusFor(d) == CASE dpc[d] \in {"taskLaunched", "writeLaunched"} -> StatusForLaunch(d)
                  [] dpc[d] \in {"taskSkipped", "writeSkipped"} -> StatusForSkip(d)
                  [] dpc[d] \in {"taskFailed", "writeFailed"} -> StatusForFailure(d)

\* Mutation: the hook stores the outcome of the run itself.
OnceStatusRaw(o) == o

\* The status a once task takes from the outcome of its run.
OnceStatus(o) == CASE o = "success" -> "completed"
                   [] o = "interrupted" -> "cancelled"
                   [] o = "failed" -> "failed"

Touch(T, what) == touch' = [t \in Task |-> IF t \in T THEN touch[t] \cup {what} ELSE touch[t]]

\* One of the bounded faults, charged to the tasks T.
Fault(T) == faults < MaxFaults /\ faults' = faults + 1 /\ Touch(T, "fault")

\* A dispatch moves on with no transaction open, or with one that loaded its
\* row and will write the columns C.
Goto(d, p) == dpc' = [dpc EXCEPT ![d] = p] /\ dirty' = [dirty EXCEPT ![d] = {}]
Open(d, p, C) == dpc' = [dpc EXCEPT ![d] = p] /\ dirty' = [dirty EXCEPT ![d] = C]


-----------------------------------------------------------------------------
Init ==
    /\ status = [t \in Task |-> "absent"]
    /\ next = [t \in Task |-> "none"]
    /\ lease = [t \in Task |-> "none"]
    /\ row = [d \in Slot |-> "none"]
    /\ taskOf = [d \in Slot |-> None]
    /\ trigger = [d \in Slot |-> "none"]
    /\ seen = [d \in Slot |-> "enabled"]
    /\ ahead = [d \in Slot |-> FALSE]
    /\ dpc = [d \in Slot |-> "done"]
    /\ dirty = [d \in Slot |-> {}]
    /\ run = [d \in Slot |-> "none"]
    /\ hook = [d \in Slot |-> "none"]
    /\ budget = 0
    /\ batch = {}
    /\ edit = {}
    /\ proc = "up"
    /\ manuals = 0 /\ edits = 0 /\ faults = 0 /\ exits = 0
    /\ touch = [t \in Task |-> {}]
    /\ fired = [t \in Task |-> 0]

-----------------------------------------------------------------------------
(* Clients: create, pause, resume, patch and delete a task. *)

Create(t) ==
    /\ proc = "up" /\ status[t] = "absent"
    /\ status' = [status EXCEPT ![t] = "enabled"]
    /\ next' = [next EXCEPT ![t] = "future"]
    /\ UNCHANGED <<lease, row, dispatch, place, runs, poller, edit, proc, bounds, history>>

\* A handler reads the task, refuses a running one, and remembers what it read.
CheckEdit(t, kind) ==
    /\ proc = "up" /\ edits < MaxEdits
    /\ Exists(t) /\ status[t] # "running"
    /\ edits' = edits + 1
    /\ edit' = edit \cup {[task |-> t, kind |-> kind, rearm |-> status[t] \in TerminalTask]}
    /\ Touch({t}, "edit")
    /\ UNCHANGED <<tasks, row, dispatch, place, runs, poller, proc, manuals, faults, exits, fired>>

\* ... and writes in another transaction.  A patched schedule lies ahead.
WriteEdit(e) ==
    LET t == e.task IN
    /\ edit' = edit \ {e}
    /\ status' = [status EXCEPT ![t] =
           IF ~Exists(t) THEN @
           ELSE CASE e.kind = "pause" -> "paused"
                  [] e.kind = "resume" -> "enabled"
                  [] e.kind = "patch" -> IF e.rearm THEN "enabled" ELSE @]
    /\ next' = [next EXCEPT ![t] = IF e.kind = "patch" /\ Exists(t) THEN "future" ELSE @]
    /\ fired' = [fired EXCEPT ![t] = IF e.kind = "patch" THEN 0 ELSE @]
    /\ UNCHANGED <<lease, row, dispatch, place, runs, poller, proc, bounds, touch>>

Delete(t) ==
    /\ proc = "up" /\ edits < MaxEdits /\ Exists(t)
    /\ status' = [status EXCEPT ![t] = "deleted"]
    /\ next' = [next EXCEPT ![t] = "none"]
    /\ lease' = [lease EXCEPT ![t] = "none"]
    /\ edits' = edits + 1
    /\ UNCHANGED <<row, dispatch, place, runs, poller, edit, proc, manuals, faults, exits, history>>

-----------------------------------------------------------------------------
(* Dispatches: dispatch_task, called by the poller or by a manual trigger. *)

Start(d, t, how) ==
    /\ Free(d)
    /\ taskOf' = [taskOf EXCEPT ![d] = t]
    /\ trigger' = [trigger EXCEPT ![d] = how]
    /\ Goto(d, "checking")
    /\ row' = [row EXCEPT ![d] = "none"]
    /\ run' = [run EXCEPT ![d] = "none"]

\* The poller counts the active rows, and goes on if there is room.
PollCount ==
    /\ proc = "up" /\ ~PollerBusy /\ budget = 0
    /\ Room > 0 /\ budget' = Room
    /\ UNCHANGED <<tasks, row, dispatch, place, runs, batch, edit, proc, bounds, history>>

\* ... and claims due tasks into that room, in one transaction.
PollClaim ==
    /\ proc = "up" /\ budget > 0
    /\ \E C \in SUBSET {t \in Task : Claimable(t)} :
         /\ Cardinality(C) <= budget
         /\ Cardinality(C) = budget \/ C = {t \in Task : Claimable(t)}
         /\ batch' = C
         /\ status' = [t \in Task |-> IF t \in C THEN "running" ELSE status[t]]
         /\ lease' = [t \in Task |-> IF t \in C THEN "held" ELSE lease[t]]
    /\ budget' = 0
    /\ UNCHANGED <<next, row, dispatch, place, runs, edit, proc, bounds, history>>

\* Claimed tasks are dispatched one after the other, as they were claimed.
PollDispatch(d, t) ==
    /\ proc = "up" /\ t \in batch
    /\ \A o \in Slot : trigger[o] = "scheduled" => dpc[o] = "done"
    /\ Start(d, t, "scheduled")
    /\ seen' = [seen EXCEPT ![d] = "running"]
    /\ ahead' = [ahead EXCEPT ![d] = FALSE]
    /\ batch' = batch \ {t}
    /\ UNCHANGED <<tasks, hook, budget, edit, proc, bounds, history>>

\* A client triggers a task by hand, whatever its status.
Trigger(d, t) ==
    /\ proc = "up" /\ manuals < MaxManual /\ Exists(t)
    /\ Start(d, t, "manual")
    /\ seen' = [seen EXCEPT ![d] = status[t]]
    /\ ahead' = [ahead EXCEPT ![d] = next[t] = "future"]
    /\ manuals' = manuals + 1
    /\ Touch({t}, "manual")
    /\ UNCHANGED <<tasks, hook, poller, edit, proc, edits, faults, exits, fired>>

\* An error outside the try block ends the dispatch, and with it the batch.
Escape(d) ==
    /\ dpc[d] \in {"checking", "creating", "creatingSkip",
                   "rowSkipped", "taskSkipped", "writeSkipped",
                   "rowFailed", "taskFailed", "writeFailed"}
    /\ Fault({taskOf[d]} \cup (IF trigger[d] = "scheduled" THEN batch ELSE {}))
    /\ batch' = IF trigger[d] = "scheduled" THEN {} ELSE batch
    /\ Goto(d, "done")
    /\ UNCHANGED <<tasks, row, dispatch, runs, budget, edit, proc, manuals, edits, exits, fired>>

CheckOverlap(d) ==
    /\ dpc[d] = "checking"
    /\ Goto(d, IF ~HasActiveRuns(taskOf[d]) THEN "creating"
               ELSE IF trigger[d] = "manual" THEN "done" ELSE "creatingSkip")
    /\ UNCHANGED <<tasks, row, dispatch, runs, poller, edit, proc, bounds, history>>

CreateRow(d) ==
    /\ dpc[d] \in {"creating", "creatingSkip"}
    /\ row' = [row EXCEPT ![d] = "queued"]
    /\ Goto(d, IF dpc[d] = "creating" THEN "launching" ELSE "rowSkipped")
    /\ UNCHANGED <<tasks, dispatch, runs, poller, edit, proc, bounds, history>>

\* start_run admits the run; on a reused thread only if none is in flight.
LaunchOk(d) ==
    /\ dpc[d] = "launching"
    /\ taskOf[d] \in Fresh \/ RunsOf(taskOf[d]) = {}
    /\ run' = [run EXCEPT ![d] = "live"]
    /\ fired' = [fired EXCEPT ![taskOf[d]] =
           IF taskOf[d] \in Once /\ trigger[d] = "scheduled" /\ @ < 2 THEN @ + 1 ELSE @]
    /\ Goto(d, "rowRunning")
    /\ UNCHANGED <<tasks, row, dispatch, hook, poller, edit, proc, bounds, touch>>

\* A reused thread is busy, with a run of the task or with somebody else's.
LaunchConflicts(d) ==
    /\ dpc[d] = "launching" /\ taskOf[d] \notin Fresh
    /\ Goto(d, IF trigger[d] = "scheduled" THEN "rowSkipped" ELSE "rowFailed")
    /\ UNCHANGED <<tasks, row, dispatch, runs, poller, edit, proc, bounds, history>>

\* Any other error of the try block: the launch, or a write after it.
LaunchError(d) ==
    /\ dpc[d] \in {"launching", "rowRunning", "rowWriting", "taskLaunched", "writeLaunched"}
    /\ Fault({taskOf[d]})
    /\ Goto(d, "rowFailed")
    /\ UNCHANGED <<tasks, row, dispatch, runs, poller, edit, proc, manuals, edits, exits, fired>>

\* Mutation: the launch bookkeeping clobbers what the hook already wrote.
WriteRunningClobbers(d) == row[d] # "none"

\* protect_terminal of update_status: does the launch write still apply?
WriteRunning(d) == row[d] \notin TerminalRow

\* update_status for the launch: the row is loaded ...
RowRunning(d) ==
    /\ dpc[d] = "rowRunning"
    /\ Goto(d, IF WriteRunning(d) THEN "rowWriting" ELSE "taskLaunched")
    /\ UNCHANGED <<tasks, row, dispatch, runs, poller, edit, proc, bounds, history>>

\* ... and committed, over whatever the hook committed in between.
CommitRunning(d) ==
    /\ dpc[d] = "rowWriting"
    /\ row' = [row EXCEPT ![d] = "running"]
    /\ Goto(d, "taskLaunched")
    /\ UNCHANGED <<tasks, dispatch, runs, poller, edit, proc, bounds, history>>

\* A skipped or failed dispatch settles its row, then its task.
RowSettled(d) ==
    /\ dpc[d] \in {"rowSkipped", "rowFailed"}
    /\ row' = [row EXCEPT ![d] = IF dpc[d] = "rowSkipped" THEN "skipped" ELSE "failed"]
    /\ Goto(d, IF dpc[d] = "rowSkipped" THEN "taskSkipped" ELSE "taskFailed")
    /\ UNCHANGED <<tasks, dispatch, runs, poller, edit, proc, bounds, history>>

\* Mutation: the launch status of a task overwrites a terminal one.
ProtectedNever(d) == FALSE

\* protect_terminal of update_after_launch.
Protected(d) == dpc[d] = "taskLaunched" /\ status[taskOf[d]] \in TerminalTask

WriteAfter(d) == CASE dpc[d] = "taskLaunched" -> "writeLaunched"
                   [] dpc[d] = "taskSkipped" -> "writeSkipped"
                   [] dpc[d] = "taskFailed" -> "writeFailed"

\* The columns that the bookkeeping changes in the row it loaded.
Changed(d) ==
    LET t == taskOf[d] IN
    {c \in Column : \/ c = "status" /\ ~Protected(d) /\ StatusFor(d) # status[t]
                    \/ c = "next" /\ NextOf(d) # next[t]
                    \/ c = "lease" /\ lease[t] # "none"}

\* update_after_launch: the task is loaded, if it is still there ...  Another
\* time ahead need not be the one that was loaded.
LoadTask(d) ==
    /\ dpc[d] \in Bookkeeping
    /\ \/ /\ Exists(taskOf[d])
          /\ \E C \in {Changed(d), Changed(d) \cup {"next"}} :
                /\ C = Changed(d) \/ NextOf(d) = "future"
                /\ Open(d, WriteAfter(d), C)
       \/ ~Exists(taskOf[d]) /\ Goto(d, "done")
    /\ UNCHANGED <<tasks, row, dispatch, runs, poller, edit, proc, bounds, history>>

\* ... and what changed is committed, the end of the lease included.
CommitTask(d) ==
    LET t == taskOf[d] IN
    /\ dpc[d] \in Writes /\ Exists(t)
    /\ status' = [status EXCEPT ![t] = IF "status" \in dirty[d] THEN StatusFor(d) ELSE @]
    /\ next' = [next EXCEPT ![t] = IF "next" \in dirty[d] THEN NextOf(d) ELSE @]
    /\ lease' = [lease EXCEPT ![t] = IF "lease" \in dirty[d] THEN "none" ELSE @]
    /\ Goto(d, "done")
    /\ UNCHANGED <<row, dispatch, runs, poller, edit, proc, bounds, history>>

\* The task was deleted in between: the commit raises.
CommitGone(d) ==
    /\ dpc[d] \in Writes /\ ~Exists(taskOf[d])
    /\ Goto(d, IF dpc[d] = "writeLaunched" THEN "rowFailed" ELSE "done")
    /\ batch' = IF trigger[d] = "scheduled" /\ dpc[d] # "writeLaunched" THEN {} ELSE batch
    /\ Touch({taskOf[d]}, "gone")
    /\ UNCHANGED <<tasks, row, dispatch, runs, budget, edit, proc, bounds, fired>>

-----------------------------------------------------------------------------
(* Runs and their completion hook, called by run_agent's finally block. *)

RunEnds(d) ==
    /\ run[d] = "live"
    /\ \E o \in Outcome : run' = [run EXCEPT ![d] = o]
    /\ hook' = [hook EXCEPT ![d] = "row"]
    /\ UNCHANGED <<tasks, row, dispatch, place, poller, edit, proc, bounds, history>>

\* Cancelled before its task's first step, a run has no finally block.
RunNeverRan(d) ==
    /\ run[d] = "live"
    /\ Fault({taskOf[d]})
    /\ run' = [run EXCEPT ![d] = "lost"]
    /\ UNCHANGED <<tasks, row, dispatch, place, hook, poller, edit, proc, manuals, edits, exits, fired>>

\* It writes the outcome whatever the row says; a launch that has loaded the
\* row and not committed yet will not notice: a race.
HookRow(d) ==
    /\ hook[d] = "row"
    /\ row' = [row EXCEPT ![d] = run[d]]
    /\ hook' = [hook EXCEPT ![d] = "task"]
    /\ IF dpc[d] = "rowWriting" THEN Touch({taskOf[d]}, "race") ELSE UNCHANGED touch
    /\ UNCHANGED <<tasks, dispatch, place, run, poller, edit, proc, bounds, fired>>

HookTask(d) ==
    LET t == taskOf[d] IN
    /\ hook[d] = "task"
    /\ status' = [status EXCEPT ![t] =
           IF Exists(t) /\ t \in Once THEN OnceStatus(run[d]) ELSE @]
    /\ hook' = [hook EXCEPT ![d] = "none"]
    /\ UNCHANGED <<next, lease, row, dispatch, place, run, poller, edit, proc, bounds, history>>

\* run_agent swallows what the hook raises.
HookError(d) ==
    /\ hook[d] # "none"
    /\ Fault({taskOf[d]})
    /\ hook' = [hook EXCEPT ![d] = "none"]
    /\ UNCHANGED <<tasks, row, dispatch, place, run, poller, edit, proc, manuals, edits, exits, fired>>

-----------------------------------------------------------------------------
(* Time, exits and restarts. *)

BecomesDue(t) ==
    /\ next[t] = "future"
    /\ next' = [next EXCEPT ![t] = "due"]
    /\ UNCHANGED <<status, lease, row, dispatch, place, runs, poller, edit, proc, bounds, history>>

LeaseExpires(t) ==
    /\ lease[t] = "held"
    /\ lease' = [lease EXCEPT ![t] = "expired"]
    /\ UNCHANGED <<status, next, row, dispatch, place, runs, poller, edit, proc, bounds, history>>

\* The process is gone, after a stop or a crash: nothing in memory survives.
Exit ==
    /\ proc \in {"up", "reconciling"} /\ exits < MaxExits
    /\ proc' = "down" /\ exits' = exits + 1
    /\ dpc' = [d \in Slot |-> "done"] /\ dirty' = [d \in Slot |-> {}]
    /\ run' = [d \in Slot |-> IF run[d] = "live" \/ hook[d] # "none" THEN "lost" ELSE run[d]]
    /\ hook' = [d \in Slot |-> "none"]
    /\ budget' = 0 /\ batch' = {} /\ edit' = {}
    /\ UNCHANGED <<tasks, row, dispatch, manuals, edits, faults, history>>

\* Mutation: the sweep forgets the rows whose run was not launched.
StaleRunning == {d \in Slot : row[d] = "running"}

\* The rows mark_stale_active_runs settles.
Stale == ActiveRows

\* start(): settle the rows of runs that died with the process ...
SweepRuns ==
    /\ proc = "down" /\ proc' = "reconciling"
    /\ \/ /\ row' = [d \in Slot |-> IF d \in Stale THEN "interrupted" ELSE row[d]]
          /\ UNCHANGED <<faults, touch>>
       \/ Fault(Task) /\ UNCHANGED row
    /\ UNCHANGED <<tasks, dispatch, place, runs, poller, edit, manuals, edits, exits, fired>>

\* The tasks cancel_stuck_once_tasks cancels.
Stuck == {t \in Once : status[t] = "running" /\ lease[t] = "none"}

\* ... and the once tasks that waited for them; then the poller starts.
CancelStuck ==
    /\ proc = "reconciling" /\ proc' = "up"
    /\ \/ /\ status' = [t \in Task |-> IF t \in Stuck THEN "cancelled" ELSE status[t]]
          /\ UNCHANGED <<faults, touch>>
       \/ Fault(Task) /\ UNCHANGED status
    /\ UNCHANGED <<next, lease, row, dispatch, place, runs, poller, edit, manuals, edits, exits, fired>>

-----------------------------------------------------------------------------
Client(t) ==
    \/ Create(t) \/ Delete(t)
    \/ \E kind \in EditKind : CheckEdit(t, kind)
    \/ \E d \in Slot : Trigger(d, t)

Poll == PollCount \/ PollClaim \/ \E d \in Slot, t \in Task : PollDispatch(d, t)

Dispatch(d) ==
    \/ CheckOverlap(d) \/ CreateRow(d) \/ LaunchOk(d) \/ LaunchConflicts(d)
    \/ RowRunning(d) \/ CommitRunning(d) \/ RowSettled(d)
    \/ LoadTask(d) \/ CommitTask(d) \/ CommitGone(d)

Hook(d) == HookRow(d) \/ HookTask(d)

Trouble(d) == Escape(d) \/ LaunchError(d) \/ RunNeverRan(d) \/ HookError(d)

Restart == SweepRuns \/ CancelStuck

Next ==
    \/ \E t \in Task : Client(t) \/ BecomesDue(t) \/ LeaseExpires(t)
    \/ \E e \in edit : WriteEdit(e)
    \/ \E d \in Slot : Dispatch(d) \/ RunEnds(d) \/ Hook(d) \/ Trouble(d)
    \/ Poll \/ Exit \/ Restart

Spec == Init /\ [][Next]_vars

Claims(t) == PollClaim /\ t \in batch'

\* The event loop resumes every coroutine, timers fire, a run ends some day
\* and a supervisor restarts the process.  Claims go by next_run_at, oldest
\* first, so a task that is due at poll after poll is claimed at one of them.
Fairness ==
    /\ WF_vars(Poll) /\ WF_vars(Restart)
    /\ \A d \in Slot : WF_vars(Dispatch(d)) /\ WF_vars(RunEnds(d)) /\ WF_vars(Hook(d))
    /\ \A t \in Task : WF_vars(BecomesDue(t)) /\ WF_vars(LeaseExpires(t)) /\ SF_vars(Claims(t))

FairSpec == Spec /\ Fairness

-----------------------------------------------------------------------------
(* Properties. *)

\* Every variable has its type: rows, tasks and dispatches take the statuses
\* of the two tables and of dispatch_task's control flow only.
TypeOK ==
    /\ status \in [Task -> TaskStatus]
    /\ next \in [Task -> {"none", "future", "due"}]
    /\ lease \in [Task -> {"none", "held", "expired"}]
    /\ row \in [Slot -> ActiveRow \cup TerminalRow \cup {"none"}]
    /\ taskOf \in [Slot -> Task \cup {None}]
    /\ trigger \in [Slot -> {"none", "scheduled", "manual"}]
    /\ seen \in [Slot -> TaskStatus \ {"absent", "deleted"}]
    /\ ahead \in [Slot -> BOOLEAN]
    /\ dpc \in [Slot -> DispatchPc \cup {"done"}]
    /\ dirty \in [Slot -> SUBSET Column]
    /\ run \in [Slot -> Outcome \cup {"none", "live", "lost"}]
    /\ hook \in [Slot -> {"none", "row", "task"}]
    /\ budget \in 0..MaxConcurrent
    /\ batch \subseteq Task
    /\ edit \subseteq [task : Task, kind : EditKind, rearm : BOOLEAN]
    /\ proc \in {"up", "down", "reconciling"}
    /\ manuals \in 0..MaxManual
    /\ edits \in 0..MaxEdits
    /\ faults \in 0..MaxFaults
    /\ exits \in 0..MaxExits
    /\ touch \in [Task -> SUBSET Disturbance]
    /\ fired \in [Task -> 0..2]

\* The rows of scheduled dispatches that are active never exceed
\* max_concurrent_runs: run_once claims only into the room it counted, across
\* polls, overlapping runs, faults and restarts.
ScheduledCap ==
    Cardinality({d \in ActiveRows : trigger[d] = "scheduled"}) <= MaxConcurrent

\* An active row has somebody who will settle it, a dispatch, a run or its
\* hook: protect_terminal keeps a hook that was first, mark_stale_active_runs
\* settles what an exit left.  Not so if a fault hit the task, or a hook that
\* committed between the load and the commit of the launch's write.
ActiveRowAttended ==
    \A d \in Slot : row[d] \in ActiveRow /\ proc = "up" /\ Spared(d) => Attended(d)

\* When a dispatch, its run and the hook are over, the task-run row shows the
\* run's outcome, whichever of launch bookkeeping and hook came first, unless
\* one committed between the other's load and commit.
RowShowsOutcome ==
    \A d \in Slot : ~Attended(d) /\ run[d] \in Outcome /\ Spared(d) => row[d] = run[d]

\* ... and a once task nobody interfered with takes the outcome's status, even
\* then: its launch loads and writes "running", so the commit leaves it alone.
OnceShowsOutcome ==
    \A d \in Slot : LET t == taskOf[d] IN
        ~Attended(d) /\ run[d] \in Outcome /\ t \in Once /\ touch[t] \subseteq {"race"} /\ Exists(t)
        => status[t] = OnceStatus(run[d])

\* Runs of one task do not overlap, not even on fresh threads, as long as
\* nobody triggers it by hand or deletes it under way and no write is lost
\* ("skip").
ScheduledRunsDoNotOverlap ==
    \A t \in Task : touch[t] \cap {"manual", "fault", "gone"} = {} =>
        Cardinality(RunsOf(t)) <= 1

\* A once task is launched at most once each time it is armed: without
\* manual triggers and exits a single failing write does not launch it again.
OnceFiresOnce ==
    \A t \in Once : "manual" \notin touch[t] /\ exits = 0 /\ faults <= 1 => fired[t] <= 1

\* One launch and its outcome: what a once task promises.
OnceTaskHolds == OnceShowsOutcome /\ OnceFiresOnce

\* A task claimed by the poller does not stay "running" for ever, across
\* exits and restarts, when no fault, edit or manual trigger hits it, and no
\* row of any task was left active by a race: such a row takes up room for ever.
ClaimedTaskSettles ==
    \A t \in Task : (status[t] = "running") ~>
        \/ status[t] # "running" \/ touch[t] # {}
        \/ \E u \in Task : "race" \in touch[u]

-----------------------------------------------------------------------------
(* What comments, docs and tests say and the code does not keep. *)

\* service.py: the single occurrence of a once task is consumed when its run
\* launched, whatever triggered, failed or died around it.
OccurrenceConsumedOnce == \A t \in Once : fired[t] <= 1

\* service.py: the skip policy holds for runs on fresh threads too.
SkipHolds == \A t \in Task : Cardinality(RunsOf(t)) <= 1

\* sql.py: a task in "running" stays reclaimable, or else somebody works for
\* it; otherwise it is dead for ever.
RunningStaysReclaimable ==
    \A t \in Task : status[t] = "running" /\ proc = "up" =>
        lease[t] # "none" \/ \E d \in Slot : taskOf[d] = t /\ Attended(d)

\* service.py, update_status: the launch's write never clobbers the terminal
\* status that the hook of a fast run committed.
TerminalRowKept == [][\A d \in Slot : row[d] \in TerminalRow => row'[d] # "running"]_vars
=============================================================================
