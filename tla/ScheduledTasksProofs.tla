------------------------ MODULE ScheduledTasksProofs ------------------------
(***************************************************************************)
(* Theorems of ScheduledTasks for every set of tasks, every number of open *)
(* dispatches and every bound.                                             *)
(***************************************************************************)
EXTENDS ScheduledTasks, FiniteSetTheorems, TLAPS

-----------------------------------------------------------------------------
(* The inductive invariant: what a dispatch, its run and the hook know of  *)
(* each other at every point of their control flow.                        *)

Early    == {"checking", "creating", "creatingSkip", "launching",
             "rowSkipped", "taskSkipped", "writeSkipped"}
Quiet(d) == run[d] = "none" /\ hook[d] = "none"
Sound(d) == taskOf[d] \in Task /\ touch[taskOf[d]] \cap {"fault", "gone"} = {}

\* A dispatch that has not launched has no run, hook or (at first) row; a
\* hook reports a run that ended; whatever was dispatched is of some task.
FlowOf(d) ==
    /\ hook[d] # "none" => run[d] \in Outcome
    /\ dpc[d] \in Early => Quiet(d)
    /\ dpc[d] \in {"checking", "creating", "creatingSkip"} => row[d] = "none"
    /\ (dpc[d] # "done" \/ row[d] # "none" \/ run[d] # "none") => taskOf[d] \in Task

FlowInv == \A d \in Slot : FlowOf(d)

\* Where no fault struck: a failed dispatch has no run, a launched one has.
\* Where no hook committed between load and commit of the launch's write
\* either: the hook is about to write the outcome, or the row already shows
\* it; an active row is attended, until the process exits.
ShownOf(d) ==
    /\ run[d] \in Outcome => hook[d] = "row" \/ row[d] = run[d]
    /\ dpc[d] = "rowWriting" /\ run[d] \in Outcome => hook[d] = "row"
    /\ row[d] \in ActiveRow /\ proc # "down" => Attended(d)

SettledOf(d) ==
    /\ dpc[d] \in {"rowFailed", "taskFailed", "writeFailed"} => Quiet(d)
    /\ dpc[d] \in {"taskSkipped", "taskFailed", "writeSkipped", "writeFailed"} => row[d] \in TerminalRow
    /\ dpc[d] \in {"rowRunning", "rowWriting", "taskLaunched", "writeLaunched"} =>
          run[d] \in Outcome \cup {"live"}
    /\ "race" \notin touch[taskOf[d]] => ShownOf(d)

SettleInv == \A d \in Slot : Sound(d) => SettledOf(d)

Pending(d) == trigger[d] = "scheduled" /\ dpc[d] # "done"

\* Nothing runs in a dead process; a dispatch that no client asked for is the
\* poller's; its row exists before it launches; and the poller neither counts
\* nor keeps a claim on the task while it dispatches it.
WorkOf(d) ==
    /\ Attended(d) => proc = "up"
    /\ taskOf[d] \in Task => status[taskOf[d]] # "absent"
    /\ taskOf[d] \in Task /\ trigger[d] # "scheduled" => "manual" \in touch[taskOf[d]]
    /\ trigger[d] = "scheduled" => ~ahead[d]
    /\ dpc[d] = "launching" => row[d] = "queued"
    /\ dpc[d] \in {"rowRunning", "rowWriting"} => row[d] # "none"
    /\ Pending(d) => taskOf[d] \notin batch /\ budget = 0
    /\ Pending(d) /\ dpc[d] \in {"rowFailed", "taskFailed", "writeFailed"} =>
          faults >= 1 \/ status[taskOf[d]] = "deleted"

\* The poller counts, claims and dispatches in turn, one dispatch at a time.
PollInv ==
    /\ batch # {} => budget = 0
    /\ \A t \in batch : status[t] # "absent"
    /\ \A d, e \in Slot : Pending(d) /\ Pending(e) => d = e

\* A task that is not there has no schedule; a pending edit has left a trace.
TaskInv ==
    /\ \A t \in Task : ~Exists(t) => next[t] = "none"
    /\ \A t \in Task : status[t] = "absent" => fired[t] = 0
    /\ \A e \in edit : "edit" \in touch[e.task]

WorkInv == (\A d \in Slot : WorkOf(d)) /\ PollInv /\ TaskInv

\* The scheduled dispatches that have an active row or are about to make one;
\* with what the poller may still dispatch they stay within the limit.
Launches ==
    {d \in Slot : /\ trigger[d] = "scheduled"
                  /\ \/ row[d] \in ActiveRow
                     \/ dpc[d] \in {"checking", "creating", "creatingSkip", "rowWriting"}}
CapInv == Cardinality(Launches) + Cardinality(batch) + budget <= MaxConcurrent

\* Where only the poller dispatches, a live run shows in its row, and a
\* dispatch that passed the check has the task for itself.
OverlapOf(t) ==
    /\ \A d \in RunsOf(t) : row[d] \in ActiveRow
    /\ \A d \in Slot : taskOf[d] = t /\ dpc[d] \in {"creating", "launching"} => RunsOf(t) = {}
    /\ \A d, e \in RunsOf(t) : d = e

OverlapInv == \A t \in Task : touch[t] \cap {"manual", "fault", "gone"} = {} => OverlapOf(t)

Recording ==
    {"rowRunning", "rowWriting", "taskLaunched", "rowFailed", "taskFailed", "writeLaunched", "writeFailed"}

\* A once task that was launched is not on its way to another launch, and is
\* no longer scheduled when the bookkeeping of that launch is done.
FiredOf(t) ==
    /\ fired[t] <= 1
    /\ fired[t] = 1 =>
        /\ t \notin batch
        /\ \A d \in Slot : taskOf[d] = t => dpc[d] \notin {"checking", "creating", "launching"}
        /\ \/ next[t] = "none"
           \/ \E d \in Slot : /\ taskOf[d] = t
                              /\ dpc[d] \in Recording
                              /\ dpc[d] \in Writes => "next" \in dirty[d]

FiredInv ==
    exits = 0 /\ faults <= 1 => \A t \in Once : "manual" \notin touch[t] => FiredOf(t)

\* An undisturbed once task that is claimed shows it, or the outcome of a run:
\* the bookkeeping of its launch writes the end of the schedule, not a status.
ClaimOf(t) ==
    /\ t \in batch => status[t] \in {"running", "deleted"} \cup TerminalTask
    /\ \A d \in Slot : taskOf[d] = t /\ dpc[d] # "done" =>
          /\ status[t] \in {"running", "deleted"} \cup TerminalTask
          /\ dpc[d] \in Writes => "next" \in dirty[d] \/ next[t] = "none"
          /\ dpc[d] = "writeLaunched" => "status" \notin dirty[d]

Calm(t) == touch[t] \subseteq {"race"}
ClaimInv == \A t \in Once : Calm(t) => ClaimOf(t)

\* The one launch of an undisturbed once task: its outcome is the status of
\* the task once the hook is over, and nothing dispatches the task again.
Launched(d) == run[d] \in Outcome \cup {"live"}
OutcomeOf(d) ==
    LET t == taskOf[d] IN
    /\ hook[d] = "none" /\ run[d] \in Outcome /\ Exists(t) => status[t] = OnceStatus(run[d])
    /\ next[t] = "none" \/ dpc[d] # "done" \/ status[t] \in TerminalTask
    /\ t \notin batch
    /\ \A e \in Slot : taskOf[e] = t /\ e # d => dpc[e] = "done" /\ ~Launched(e)

OutcomeInv ==
    \A d \in Slot : taskOf[d] \in Once /\ Calm(taskOf[d]) /\ Launched(d) => OutcomeOf(d)

-----------------------------------------------------------------------------
(* Types. *)

\* A fault keeps its counter and the history of the tasks in their types.
LEMMA FaultType ==
  ASSUME TypeOK, NEW T, Fault(T)
  PROVE  faults' \in 0..MaxFaults /\ touch' \in [Task -> SUBSET Disturbance]
<1>1. faults' \in 0..MaxFaults
  BY SchedulerAssumption DEF TypeOK, Fault
<1>2. touch' \in [Task -> SUBSET Disturbance]
  BY DEF TypeOK, Fault, Touch, Disturbance
<1> QED BY <1>1, <1>2

\* A move of a dispatch keeps the type of the dispatches.
LEMMA GotoType ==
  ASSUME TypeOK, NEW d \in Slot, NEW p \in DispatchPc \cup {"done"}, Goto(d, p)
  PROVE  dpc' \in [Slot -> DispatchPc \cup {"done"}] /\ dirty' \in [Slot -> SUBSET Column]
BY DEF TypeOK, Goto

\* What a dispatch will write to its task has the type of a status, and the
\* columns it changes are columns.
LEMMA BookkeepingType ==
  ASSUME TypeOK, NEW d \in Slot
  PROVE  /\ dpc[d] \in Bookkeeping \cup Writes => StatusFor(d) \in TaskStatus \ {"absent", "deleted"}
         /\ NextOf(d) \in {"none", "future"}
         /\ Changed(d) \in SUBSET Column
<1>1. ASSUME dpc[d] \in Bookkeeping \cup Writes PROVE StatusFor(d) \in TaskStatus \ {"absent", "deleted"}
  <2>1. /\ StatusForLaunch(d) \in {"running", "paused", "enabled"}
        /\ StatusForSkip(d) \in {"failed", "enabled"}
        /\ StatusForFailure(d) \in TaskStatus \ {"absent", "deleted"}
    BY DEF StatusForLaunch, StatusForSkip, StatusForFailure, TypeOK, TaskStatus, TerminalTask
  <2> QED BY <1>1, <2>1 DEF StatusFor, Bookkeeping, Writes, TaskStatus, TerminalTask
<1>2. NextOf(d) \in {"none", "future"}
  BY DEF NextOf
<1>3. Changed(d) \in SUBSET Column
  BY DEF Changed
<1> QED BY <1>1, <1>2, <1>3

\* Where the load of the bookkeeping leads.
LEMMA LoadCases ==
  ASSUME TypeOK, NEW d \in Slot, LoadTask(d)
  PROVE  \/ dpc[d] \in Bookkeeping /\ ~Exists(taskOf[d]) /\ Goto(d, "done")
         \/ /\ Exists(taskOf[d])
            /\ \E C \in SUBSET Column :
                 /\ Changed(d) \subseteq C
                 /\ C \subseteq Changed(d) \cup {"next"}
                 /\ \/ dpc[d] = "taskLaunched" /\ Open(d, "writeLaunched", C)
                    \/ dpc[d] = "taskSkipped" /\ Open(d, "writeSkipped", C)
                    \/ dpc[d] = "taskFailed" /\ Open(d, "writeFailed", C)
<1>1. CASE ~Exists(taskOf[d])
  BY <1>1 DEF LoadTask
<1>2. CASE Exists(taskOf[d])
  <2>1. PICK C \in {Changed(d), Changed(d) \cup {"next"}} : Open(d, WriteAfter(d), C)
    BY <1>2 DEF LoadTask
  <2>2. C \in SUBSET Column /\ Changed(d) \subseteq C /\ C \subseteq Changed(d) \cup {"next"}
    BY BookkeepingType DEF Column
  <2>3. \/ dpc[d] = "taskLaunched" /\ WriteAfter(d) = "writeLaunched"
        \/ dpc[d] = "taskSkipped" /\ WriteAfter(d) = "writeSkipped"
        \/ dpc[d] = "taskFailed" /\ WriteAfter(d) = "writeFailed"
    BY DEF LoadTask, WriteAfter, Bookkeeping
  <2> QED BY <1>2, <2>1, <2>2, <2>3
<1> QED BY <1>1, <1>2

\* What a free slot is given keeps its types.
LEMMA StartType ==
  ASSUME TypeOK, NEW d \in Slot, NEW t \in Task, NEW how \in {"scheduled", "manual"},
         Start(d, t, how)
  PROVE  /\ taskOf' \in [Slot -> Task \cup {None}]
         /\ trigger' \in [Slot -> {"none", "scheduled", "manual"}]
         /\ dpc' \in [Slot -> DispatchPc \cup {"done"}] /\ dirty' \in [Slot -> SUBSET Column]
         /\ row' \in [Slot -> ActiveRow \cup TerminalRow \cup {"none"}]
         /\ run' \in [Slot -> Outcome \cup {"none", "live", "lost"}]
BY DEF TypeOK, Start, Goto, DispatchPc

LEMMA TypeStep == TypeOK /\ FlowInv /\ [Next]_vars => TypeOK'
<1> SUFFICES ASSUME TypeOK, FlowInv, [Next]_vars PROVE TypeOK'
  OBVIOUS
<1> USE SchedulerAssumption
    DEF TypeOK, tasks, dispatch, place, runs, poller, bounds, history
<1>1. CASE UNCHANGED vars
  BY <1>1 DEF vars
<1>2. ASSUME NEW t \in Task, Create(t) PROVE TypeOK'
  BY <1>2 DEF Create, TaskStatus
<1>3. ASSUME NEW t \in Task, Delete(t) PROVE TypeOK'
  BY <1>3 DEF Delete, TaskStatus
<1>4. ASSUME NEW t \in Task, NEW kind \in EditKind, CheckEdit(t, kind) PROVE TypeOK'
  <2>1. edit' \subseteq [task : Task, kind : EditKind, rearm : BOOLEAN]
    <3>1. (status[t] \in TerminalTask) \in BOOLEAN
      OBVIOUS
    <3>2. [task |-> t, kind |-> kind, rearm |-> status[t] \in TerminalTask]
            \in [task : Task, kind : EditKind, rearm : BOOLEAN]
      BY <3>1
    <3>3. edit' = edit \cup {[task |-> t, kind |-> kind, rearm |-> status[t] \in TerminalTask]}
      BY <1>4 DEF CheckEdit
    <3> HIDE DEF EditKind
    <3> QED BY <3>2, <3>3
  <2>2. touch' \in [Task -> SUBSET Disturbance]
    BY <1>4 DEF CheckEdit, Touch, Disturbance
  <2>3. edits' \in 0..MaxEdits
    BY <1>4 DEF CheckEdit
  <2> QED BY <1>4, <2>1, <2>2, <2>3 DEF CheckEdit
<1>5. ASSUME NEW e \in edit, WriteEdit(e) PROVE TypeOK'
  <2>1. e.task \in Task
    OBVIOUS
  <2>2. status' \in [Task -> TaskStatus]
    <3>1. ASSUME NEW t \in Task PROVE status'[t] \in TaskStatus
      <4>1. e.kind \in {"pause", "resume", "patch"}
        BY DEF EditKind
      <4> QED BY <1>5, <4>1 DEF WriteEdit, TaskStatus
    <3>2. PICK v : status' = [status EXCEPT ![e.task] = v]
      BY <1>5, Zenon DEF WriteEdit
    <3> QED BY <3>1, <3>2
  <2>3. next' \in [Task -> {"none", "future", "due"}] /\ fired' \in [Task -> 0..2]
    BY <1>5 DEF WriteEdit
  <2>4. edit' \subseteq edit
    BY <1>5 DEF WriteEdit
  <2> QED BY <1>5, <2>2, <2>3, <2>4 DEF WriteEdit
<1>6. CASE PollCount
  <2>1. Cardinality(ActiveRows) \in Nat
    <3>1. ActiveRows \subseteq Slot
      BY DEF ActiveRows
    <3> QED BY <3>1, FS_Subset, FS_CardinalityType
  <2>2. Room \in 0..MaxConcurrent
    BY <2>1 DEF Room
  <2> QED BY <1>6, <2>2 DEF PollCount
<1>7. CASE PollClaim
  <2>1. PICK C \in SUBSET {t \in Task : Claimable(t)} :
          /\ batch' = C
          /\ status' = [t \in Task |-> IF t \in C THEN "running" ELSE status[t]]
          /\ lease' = [t \in Task |-> IF t \in C THEN "held" ELSE lease[t]]
    BY <1>7 DEF PollClaim
  <2> QED BY <1>7, <2>1 DEF PollClaim, TaskStatus
<1>8. ASSUME NEW d \in Slot, NEW t \in Task, PollDispatch(d, t) PROVE TypeOK'
  <2>1. Start(d, t, "scheduled")
    BY <1>8 DEF PollDispatch
  <2>2. seen' \in [Slot -> TaskStatus \ {"absent", "deleted"}] /\ ahead' \in [Slot -> BOOLEAN]
    BY <1>8 DEF PollDispatch, TaskStatus
  <2> QED BY <1>8, <2>1, <2>2, StartType DEF PollDispatch
<1>9. ASSUME NEW d \in Slot, NEW t \in Task, Trigger(d, t) PROVE TypeOK'
  <2>1. Start(d, t, "manual")
    BY <1>9 DEF Trigger
  <2>2. seen' \in [Slot -> TaskStatus \ {"absent", "deleted"}]
    BY <1>9 DEF Trigger, Exists
  <2>3. ahead' \in [Slot -> BOOLEAN]
    BY <1>9 DEF Trigger
  <2>4. touch' \in [Task -> SUBSET Disturbance]
    BY <1>9 DEF Trigger, Touch, Disturbance
  <2>5. manuals' \in 0..MaxManual
    BY <1>9 DEF Trigger
  <2> QED BY <1>9, <2>1, <2>2, <2>3, <2>4, <2>5, StartType DEF Trigger
<1>10. ASSUME NEW d \in Slot, Escape(d) PROVE TypeOK'
  <2>1. Fault({taskOf[d]} \cup (IF trigger[d] = "scheduled" THEN batch ELSE {}))
    BY <1>10 DEF Escape
  <2>2. Goto(d, "done") /\ batch' \subseteq Task
    BY <1>10 DEF Escape
  <2> QED BY <1>10, <2>1, <2>2, FaultType, GotoType DEF Escape
<1>11. ASSUME NEW d \in Slot, CheckOverlap(d) PROVE TypeOK'
  <2>1. PICK p \in DispatchPc \cup {"done"} : Goto(d, p)
    BY <1>11 DEF CheckOverlap, DispatchPc
  <2> QED BY <1>11, <2>1, GotoType DEF CheckOverlap
<1>12. ASSUME NEW d \in Slot, CreateRow(d) PROVE TypeOK'
  <2>1. PICK p \in DispatchPc : Goto(d, p)
    BY <1>12 DEF CreateRow, DispatchPc
  <2>2. row' \in [Slot -> ActiveRow \cup TerminalRow \cup {"none"}]
    BY <1>12 DEF CreateRow, ActiveRow
  <2> QED BY <1>12, <2>1, <2>2, GotoType DEF CreateRow
<1>13. ASSUME NEW d \in Slot, LaunchOk(d) PROVE TypeOK'
  <2>1. Goto(d, "rowRunning") /\ "rowRunning" \in DispatchPc
    BY <1>13 DEF LaunchOk, DispatchPc
  <2>2. run' \in [Slot -> Outcome \cup {"none", "live", "lost"}]
    BY <1>13 DEF LaunchOk
  <2>3. fired' \in [Task -> 0..2]
    <3>1. PICK v : /\ fired' = [fired EXCEPT ![taskOf[d]] = v]
                   /\ v = fired[taskOf[d]] \/ (fired[taskOf[d]] < 2 /\ v = fired[taskOf[d]] + 1)
      BY <1>13, Zenon DEF LaunchOk
    <3>2. taskOf[d] \in Task
      BY <1>13 DEF LaunchOk, FlowInv, FlowOf
    <3> QED BY <3>1, <3>2
  <2> QED BY <1>13, <2>1, <2>2, <2>3, GotoType DEF LaunchOk
<1>14. ASSUME NEW d \in Slot, LaunchConflicts(d) PROVE TypeOK'
  <2>1. PICK p \in DispatchPc : Goto(d, p)
    BY <1>14 DEF LaunchConflicts, DispatchPc
  <2> QED BY <1>14, <2>1, GotoType DEF LaunchConflicts
<1>15. ASSUME NEW d \in Slot, LaunchError(d) PROVE TypeOK'
  <2>1. Goto(d, "rowFailed") /\ "rowFailed" \in DispatchPc /\ Fault({taskOf[d]})
    BY <1>15 DEF LaunchError, DispatchPc
  <2> QED BY <1>15, <2>1, GotoType, FaultType DEF LaunchError
<1>16. ASSUME NEW d \in Slot, RowRunning(d) PROVE TypeOK'
  <2>1. PICK p \in DispatchPc : Goto(d, p)
    BY <1>16 DEF RowRunning, DispatchPc
  <2> QED BY <1>16, <2>1, GotoType DEF RowRunning
<1>17. ASSUME NEW d \in Slot, LoadTask(d) PROVE TypeOK'
  <2>1. dpc' \in [Slot -> DispatchPc \cup {"done"}] /\ dirty' \in [Slot -> SUBSET Column]
    <3>1. CASE Goto(d, "done")
      BY <3>1, GotoType
    <3>2. CASE \E C \in SUBSET Column, p \in Writes : Open(d, p, C)
      BY <3>2 DEF Open, Writes, DispatchPc
    <3> QED BY <1>17, <3>1, <3>2, LoadCases DEF Writes
  <2> QED BY <1>17, <2>1 DEF LoadTask
<1>18. ASSUME NEW d \in Slot, RowSettled(d) PROVE TypeOK'
  <2>1. PICK p \in DispatchPc : Goto(d, p)
    BY <1>18 DEF RowSettled, DispatchPc
  <2>2. row' \in [Slot -> ActiveRow \cup TerminalRow \cup {"none"}]
    BY <1>18 DEF RowSettled, TerminalRow
  <2> QED BY <1>18, <2>1, <2>2, GotoType DEF RowSettled
<1>19. ASSUME NEW d \in Slot, CommitTask(d) PROVE TypeOK'
  <2>1. StatusFor(d) \in TaskStatus /\ NextOf(d) \in {"none", "future"}
    BY <1>19, BookkeepingType DEF CommitTask
  <2>2. Goto(d, "done")
    BY <1>19 DEF CommitTask
  <2>3. /\ status' \in [Task -> TaskStatus]
        /\ next' \in [Task -> {"none", "future", "due"}]
        /\ lease' \in [Task -> {"none", "held", "expired"}]
    BY <1>19, <2>1 DEF CommitTask
  <2> QED BY <1>19, <2>2, <2>3, GotoType DEF CommitTask
<1>20. ASSUME NEW d \in Slot, RunEnds(d) PROVE TypeOK'
  BY <1>20 DEF RunEnds
<1>21. ASSUME NEW d \in Slot, RunNeverRan(d) PROVE TypeOK'
  BY <1>21, FaultType DEF RunNeverRan
<1>22. ASSUME NEW d \in Slot, HookRow(d) PROVE TypeOK'
  <2>1. run[d] \in Outcome
    BY <1>22 DEF HookRow, FlowInv, FlowOf
  <2>2. touch' \in [Task -> SUBSET Disturbance]
    BY <1>22 DEF HookRow, Touch, Disturbance
  <2>3. row' \in [Slot -> ActiveRow \cup TerminalRow \cup {"none"}]
    BY <1>22, <2>1 DEF HookRow, Outcome, TerminalRow
  <2> QED BY <1>22, <2>2, <2>3 DEF HookRow
<1>23. ASSUME NEW d \in Slot, HookTask(d) PROVE TypeOK'
  <2>1. OnceStatus(run[d]) \in TaskStatus
    <3>1. run[d] \in Outcome
      BY <1>23 DEF HookTask, FlowInv, FlowOf
    <3> QED BY <3>1 DEF OnceStatus, Outcome, TaskStatus, TerminalTask
  <2> QED BY <1>23, <2>1 DEF HookTask
<1>24. ASSUME NEW d \in Slot, HookError(d) PROVE TypeOK'
  BY <1>24, FaultType DEF HookError
<1>25. ASSUME NEW t \in Task, BecomesDue(t) PROVE TypeOK'
  BY <1>25 DEF BecomesDue
<1>26. ASSUME NEW t \in Task, LeaseExpires(t) PROVE TypeOK'
  BY <1>26 DEF LeaseExpires
<1>27. CASE Exit
  BY <1>27 DEF Exit
<1>28. CASE SweepRuns
  <2>1. row' \in [Slot -> ActiveRow \cup TerminalRow \cup {"none"}]
    BY <1>28 DEF SweepRuns, TerminalRow
  <2>2. faults' \in 0..MaxFaults /\ touch' \in [Task -> SUBSET Disturbance]
    BY <1>28, FaultType DEF SweepRuns
  <2> QED BY <1>28, <2>1, <2>2 DEF SweepRuns
<1>29. CASE CancelStuck
  <2>1. status' \in [Task -> TaskStatus]
    BY <1>29 DEF CancelStuck, TaskStatus, TerminalTask
  <2>2. faults' \in 0..MaxFaults /\ touch' \in [Task -> SUBSET Disturbance]
    BY <1>29, FaultType DEF CancelStuck
  <2> QED BY <1>29, <2>1, <2>2 DEF CancelStuck
<1>31. ASSUME NEW d \in Slot, CommitRunning(d) PROVE TypeOK'
  <2>1. Goto(d, "taskLaunched") /\ "taskLaunched" \in DispatchPc
    BY <1>31 DEF CommitRunning, DispatchPc
  <2>2. row' \in [Slot -> ActiveRow \cup TerminalRow \cup {"none"}]
    BY <1>31 DEF CommitRunning, ActiveRow
  <2> QED BY <1>31, <2>1, <2>2, GotoType DEF CommitRunning
<1>32. ASSUME NEW d \in Slot, CommitGone(d) PROVE TypeOK'
  <2>1. PICK p \in DispatchPc \cup {"done"} : Goto(d, p)
    BY <1>32 DEF CommitGone, DispatchPc
  <2>2. touch' \in [Task -> SUBSET Disturbance]
    BY <1>32 DEF CommitGone, Touch, Disturbance
  <2>3. batch' \subseteq Task
    BY <1>32 DEF CommitGone
  <2> QED BY <1>32, <2>1, <2>2, <2>3, GotoType DEF CommitGone
<1> QED
  BY <1>1, <1>2, <1>3, <1>4, <1>5, <1>6, <1>7, <1>8, <1>9, <1>10, <1>11, <1>12, <1>13, <1>14, <1>15, <1>16, <1>17, <1>18, <1>19, <1>20, <1>21, <1>22, <1>23, <1>24, <1>25, <1>26, <1>27, <1>28, <1>29, <1>31, <1>32
  DEF Next, Client, Poll, Dispatch, Hook, Trouble, Restart

LEMMA TypeInit == Init => TypeOK
  BY SchedulerAssumption DEF Init, TypeOK, TaskStatus

\* The control flow of dispatches, runs and hooks is kept by every step.
LEMMA FlowStep == TypeOK /\ FlowInv /\ [Next]_vars => FlowInv'
<1> SUFFICES ASSUME TypeOK, FlowInv, [Next]_vars, NEW e \in Slot
             PROVE  FlowOf(e)'
  BY DEF FlowInv
<1>0. FlowOf(e)
  BY DEF FlowInv
<1> USE <1>0 DEF FlowOf, TypeOK, Early, Quiet, tasks, dispatch, place, runs, poller, bounds, history
<1>1. CASE UNCHANGED vars
  BY <1>1 DEF vars
<1>2. ASSUME NEW t \in Task, Create(t) PROVE FlowOf(e)'
  BY <1>2 DEF Create
<1>3. ASSUME NEW t \in Task, Delete(t) PROVE FlowOf(e)'
  BY <1>3 DEF Delete
<1>4. ASSUME NEW t \in Task, BecomesDue(t) PROVE FlowOf(e)'
  BY <1>4 DEF BecomesDue
<1>5. ASSUME NEW t \in Task, LeaseExpires(t) PROVE FlowOf(e)'
  BY <1>5 DEF LeaseExpires
<1>6. ASSUME NEW t \in Task, NEW kind \in EditKind, CheckEdit(t, kind) PROVE FlowOf(e)'
  BY <1>6 DEF CheckEdit
<1>7. ASSUME NEW f \in edit, WriteEdit(f) PROVE FlowOf(e)'
  BY <1>7 DEF WriteEdit
<1>8. CASE PollCount
  BY <1>8 DEF PollCount
<1>9. CASE PollClaim
  BY <1>9 DEF PollClaim
<1>10. ASSUME NEW d \in Slot, NEW t \in Task, PollDispatch(d, t) PROVE FlowOf(e)'
  BY <1>10 DEF PollDispatch, Start, Goto, Free, Attended
<1>11. ASSUME NEW d \in Slot, NEW t \in Task, Trigger(d, t) PROVE FlowOf(e)'
  BY <1>11 DEF Trigger, Start, Goto, Free, Attended
<1>12. ASSUME NEW d \in Slot, Escape(d) PROVE FlowOf(e)'
  BY <1>12 DEF Escape, Goto
<1>13. ASSUME NEW d \in Slot, CheckOverlap(d) PROVE FlowOf(e)'
  BY <1>13 DEF CheckOverlap, Goto
<1>14. ASSUME NEW d \in Slot, CreateRow(d) PROVE FlowOf(e)'
  BY <1>14 DEF CreateRow, Goto
<1>15. ASSUME NEW d \in Slot, LaunchOk(d) PROVE FlowOf(e)'
  BY <1>15 DEF LaunchOk, Goto
<1>16. ASSUME NEW d \in Slot, LaunchConflicts(d) PROVE FlowOf(e)'
  BY <1>16 DEF LaunchConflicts, Goto
<1>17. ASSUME NEW d \in Slot, LaunchError(d) PROVE FlowOf(e)'
  BY <1>17 DEF LaunchError, Goto
<1>18. ASSUME NEW d \in Slot, RowRunning(d) PROVE FlowOf(e)'
  BY <1>18 DEF RowRunning, Goto
<1>19. ASSUME NEW d \in Slot, LoadTask(d) PROVE FlowOf(e)'
  <2>1. UNCHANGED <<tasks, row, dispatch, runs, poller, edit, proc, bounds, history>>
    BY <1>19 DEF LoadTask
  <2> QED BY <1>19, <2>1, LoadCases DEF Goto, Open, Bookkeeping
<1>20. ASSUME NEW d \in Slot, RowSettled(d) PROVE FlowOf(e)'
  BY <1>20 DEF RowSettled, Goto
<1>21. ASSUME NEW d \in Slot, CommitTask(d) PROVE FlowOf(e)'
  BY <1>21 DEF CommitTask, Goto, Writes
<1>22. ASSUME NEW d \in Slot, RunEnds(d) PROVE FlowOf(e)'
  BY <1>22 DEF RunEnds
<1>23. ASSUME NEW d \in Slot, RunNeverRan(d) PROVE FlowOf(e)'
  BY <1>23 DEF RunNeverRan, Outcome
<1>24. ASSUME NEW d \in Slot, HookRow(d) PROVE FlowOf(e)'
  BY <1>24 DEF HookRow
<1>25. ASSUME NEW d \in Slot, HookTask(d) PROVE FlowOf(e)'
  BY <1>25 DEF HookTask
<1>26. ASSUME NEW d \in Slot, HookError(d) PROVE FlowOf(e)'
  BY <1>26 DEF HookError
<1>27. CASE Exit
  BY <1>27 DEF Exit, Outcome
<1>28. CASE SweepRuns
  BY <1>28 DEF SweepRuns, Stale, ActiveRows, ActiveRow
<1>29. CASE CancelStuck
  BY <1>29 DEF CancelStuck
<1>31. ASSUME NEW d \in Slot, CommitRunning(d) PROVE FlowOf(e)'
  BY <1>31 DEF CommitRunning, Goto
<1>32. ASSUME NEW d \in Slot, CommitGone(d) PROVE FlowOf(e)'
  BY <1>32 DEF CommitGone, Goto, Touch, Writes
<1> QED
  BY <1>1, <1>2, <1>3, <1>4, <1>5, <1>6, <1>7, <1>8, <1>9, <1>10, <1>11, <1>12, <1>13, <1>14, <1>15, <1>16, <1>17, <1>18, <1>19, <1>20, <1>21, <1>22, <1>23, <1>24, <1>25, <1>26, <1>27, <1>28, <1>29, <1>31, <1>32
  DEF Next, Client, Poll, Dispatch, Hook, Trouble, Restart

\* So is what they have settled, where no fault struck.
LEMMA SettleStep == TypeOK /\ FlowInv /\ SettleInv /\ [Next]_vars => SettleInv'
<1> SUFFICES ASSUME TypeOK, FlowInv, SettleInv, [Next]_vars, NEW e \in Slot, Sound(e)'
             PROVE  SettledOf(e)'
  BY DEF SettleInv
<1>0. FlowOf(e) /\ (Sound(e) => SettledOf(e))
  BY DEF FlowInv, SettleInv
<1> USE <1>0 DEF FlowOf, SettledOf, ShownOf, Sound, TypeOK, Early, Quiet, Attended, ActiveRow, TerminalRow,
                 Outcome, tasks, dispatch, place, runs, poller, bounds, history
<1>1. CASE UNCHANGED vars
  BY <1>1 DEF vars
<1>2. ASSUME NEW t \in Task, Create(t) PROVE SettledOf(e)'
  BY <1>2 DEF Create
<1>3. ASSUME NEW t \in Task, Delete(t) PROVE SettledOf(e)'
  BY <1>3 DEF Delete
<1>4. ASSUME NEW t \in Task, BecomesDue(t) PROVE SettledOf(e)'
  BY <1>4 DEF BecomesDue
<1>5. ASSUME NEW t \in Task, LeaseExpires(t) PROVE SettledOf(e)'
  BY <1>5 DEF LeaseExpires
<1>6. ASSUME NEW t \in Task, NEW kind \in EditKind, CheckEdit(t, kind) PROVE SettledOf(e)'
  BY <1>6 DEF CheckEdit, Touch
<1>7. ASSUME NEW f \in edit, WriteEdit(f) PROVE SettledOf(e)'
  BY <1>7 DEF WriteEdit
<1>8. CASE PollCount
  BY <1>8 DEF PollCount
<1>9. CASE PollClaim
  BY <1>9 DEF PollClaim
<1>10. ASSUME NEW d \in Slot, NEW t \in Task, PollDispatch(d, t) PROVE SettledOf(e)'
  BY <1>10 DEF PollDispatch, Start, Goto, Free
<1>11. ASSUME NEW d \in Slot, NEW t \in Task, Trigger(d, t) PROVE SettledOf(e)'
  BY <1>11 DEF Trigger, Start, Goto, Free, Touch
<1>12. ASSUME NEW d \in Slot, Escape(d) PROVE SettledOf(e)'
  BY <1>12 DEF Escape, Goto, Fault, Touch
<1>13. ASSUME NEW d \in Slot, CheckOverlap(d) PROVE SettledOf(e)'
  BY <1>13 DEF CheckOverlap, Goto
<1>14. ASSUME NEW d \in Slot, CreateRow(d) PROVE SettledOf(e)'
  BY <1>14 DEF CreateRow, Goto
<1>15. ASSUME NEW d \in Slot, LaunchOk(d) PROVE SettledOf(e)'
  BY <1>15 DEF LaunchOk, Goto
<1>16. ASSUME NEW d \in Slot, LaunchConflicts(d) PROVE SettledOf(e)'
  BY <1>16 DEF LaunchConflicts, Goto
<1>17. ASSUME NEW d \in Slot, LaunchError(d) PROVE SettledOf(e)'
  BY <1>17 DEF LaunchError, Goto, Fault, Touch
<1>18. ASSUME NEW d \in Slot, RowRunning(d) PROVE SettledOf(e)'
  BY <1>18 DEF RowRunning, Goto, WriteRunning
<1>19. ASSUME NEW d \in Slot, LoadTask(d) PROVE SettledOf(e)'
  <2>1. UNCHANGED <<tasks, row, dispatch, runs, poller, edit, proc, bounds, history>>
    BY <1>19 DEF LoadTask
  <2> QED BY <1>19, <2>1, LoadCases DEF Goto, Open, Bookkeeping
<1>20. ASSUME NEW d \in Slot, RowSettled(d) PROVE SettledOf(e)'
  BY <1>20 DEF RowSettled, Goto
<1>21. ASSUME NEW d \in Slot, CommitTask(d) PROVE SettledOf(e)'
  BY <1>21 DEF CommitTask, Goto, Writes
<1>22. ASSUME NEW d \in Slot, RunEnds(d) PROVE SettledOf(e)'
  BY <1>22 DEF RunEnds
<1>23. ASSUME NEW d \in Slot, RunNeverRan(d) PROVE SettledOf(e)'
  BY <1>23 DEF RunNeverRan, Fault, Touch
<1>24. ASSUME NEW d \in Slot, HookRow(d) PROVE SettledOf(e)'
  BY <1>24 DEF Touch, HookRow
<1>25. ASSUME NEW d \in Slot, HookTask(d) PROVE SettledOf(e)'
  BY <1>25 DEF HookTask
<1>26. ASSUME NEW d \in Slot, HookError(d) PROVE SettledOf(e)'
  BY <1>26 DEF HookError, Fault, Touch
<1>27. CASE Exit
  BY <1>27 DEF Exit
<1>28. CASE SweepRuns
  <2>1. UNCHANGED <<taskOf, dpc, run, hook>> /\ proc = "down" /\ proc' = "reconciling"
    BY <1>28 DEF SweepRuns
  <2>2. CASE row' = [d \in Slot |-> IF d \in Stale THEN "interrupted" ELSE row[d]] /\ touch' = touch
    <3>1. row'[e] = (IF row[e] \in ActiveRow THEN "interrupted" ELSE row[e])
      BY <2>2 DEF Stale, ActiveRows
    <3> QED BY <2>1, <2>2, <3>1
  <2>3. CASE Fault(Task)
    <3>0. taskOf[e] \in Task
      BY <2>1
    <3>1. touch' = [t \in Task |-> touch[t] \cup {"fault"}]
      BY <2>3 DEF Fault, Touch
    <3>2. "fault" \in touch'[taskOf'[e]]
      BY <2>1, <3>0, <3>1
    <3> QED BY <3>2
  <2> QED BY <1>28, <2>2, <2>3 DEF SweepRuns
<1>29. CASE CancelStuck
  BY <1>29 DEF CancelStuck, Fault, Touch
<1>31. ASSUME NEW d \in Slot, CommitRunning(d) PROVE SettledOf(e)'
  BY <1>31 DEF CommitRunning, Goto
<1>32. ASSUME NEW d \in Slot, CommitGone(d) PROVE SettledOf(e)'
  BY <1>32 DEF CommitGone, Goto, Touch, Writes
<1> QED
  BY <1>1, <1>2, <1>3, <1>4, <1>5, <1>6, <1>7, <1>8, <1>9, <1>10, <1>11, <1>12, <1>13, <1>14, <1>15, <1>16, <1>17, <1>18, <1>19, <1>20, <1>21, <1>22, <1>23, <1>24, <1>25, <1>26, <1>27, <1>28, <1>29, <1>31, <1>32
  DEF Next, Client, Poll, Dispatch, Hook, Trouble, Restart

-----------------------------------------------------------------------------
(* Who works for a task. *)

LEMMA WorkStep ==
  TypeOK /\ FlowInv /\ WorkInv /\ [Next]_vars => \A e \in Slot : WorkOf(e)'
<1> SUFFICES ASSUME TypeOK, FlowInv, WorkInv, [Next]_vars, NEW e \in Slot
             PROVE  WorkOf(e)'
  OBVIOUS
<1>0. FlowOf(e) /\ WorkOf(e) /\ (\A d \in Slot : WorkOf(d)) /\ PollInv
  BY DEF FlowInv, WorkInv
<1> USE <1>0 DEF WorkOf, Pending, FlowOf, TypeOK, Quiet, Attended, tasks, dispatch, place, runs, poller, bounds, history
<1>1. CASE UNCHANGED vars
  BY <1>1 DEF vars
<1>2. ASSUME NEW t \in Task, Create(t) PROVE WorkOf(e)'
  BY <1>2 DEF Create
<1>3. ASSUME NEW t \in Task, Delete(t) PROVE WorkOf(e)'
  BY <1>3 DEF Delete
<1>4. ASSUME NEW t \in Task, BecomesDue(t) PROVE WorkOf(e)'
  BY <1>4 DEF BecomesDue
<1>5. ASSUME NEW t \in Task, LeaseExpires(t) PROVE WorkOf(e)'
  BY <1>5 DEF LeaseExpires
<1>6. ASSUME NEW t \in Task, NEW kind \in EditKind, CheckEdit(t, kind) PROVE WorkOf(e)'
  BY <1>6 DEF CheckEdit, Touch
<1>7. ASSUME NEW f \in edit, WriteEdit(f) PROVE WorkOf(e)'
  <2>1. f.task \in Task /\ f.kind \in {"pause", "resume", "patch"}
    BY DEF EditKind
  <2>2. ASSUME NEW t \in Task, status[t] # "absent" PROVE status'[t] # "absent"
    BY <1>7, <2>1, <2>2 DEF WriteEdit
  <2>3. ASSUME NEW t \in Task, status[t] = "deleted" PROVE status'[t] = "deleted"
    <3>1. CASE t = f.task
      <4>1. ~Exists(f.task)
        BY <2>3, <3>1 DEF Exists
      <4>2. status' = [status EXCEPT ![f.task] = status[f.task]]
        BY <1>7, <4>1 DEF WriteEdit
      <4> QED BY <2>3, <3>1, <4>2
    <3>2. CASE t # f.task
      BY <1>7, <2>1, <2>3, <3>2 DEF WriteEdit
    <3> QED BY <3>1, <3>2
  <2> QED BY <1>7, <2>2, <2>3 DEF WriteEdit
<1>8. CASE PollCount
  BY <1>8 DEF PollCount, PollerBusy
<1>9. CASE PollClaim
  BY <1>9 DEF PollClaim
<1>10. ASSUME NEW d \in Slot, NEW t \in Task, PollDispatch(d, t) PROVE WorkOf(e)'
  BY <1>10 DEF PollDispatch, Start, Goto, Free, Attended, PollInv
<1>11. ASSUME NEW d \in Slot, NEW t \in Task, Trigger(d, t) PROVE WorkOf(e)'
  <2>1. CASE d = e
    BY <1>11, <2>1 DEF Trigger, Start, Goto, Touch, Exists
  <2>2. CASE d # e
    <3>1. UNCHANGED <<status, row[e], taskOf[e], trigger[e], ahead[e], dpc[e], run[e], hook, budget, batch, proc, faults>>
      BY <1>11, <2>2 DEF Trigger, Start, Goto
    <3>2. taskOf[e] \in Task => touch[taskOf[e]] \subseteq touch'[taskOf[e]]
      BY <1>11 DEF Trigger, Touch
    <3> QED BY <3>1, <3>2
  <2> QED BY <2>1, <2>2
<1>12. ASSUME NEW d \in Slot, Escape(d) PROVE WorkOf(e)'
  BY <1>12 DEF Escape, Goto, Fault, Touch, PollInv
<1>13. ASSUME NEW d \in Slot, CheckOverlap(d) PROVE WorkOf(e)'
  BY <1>13 DEF CheckOverlap, Goto
<1>14. ASSUME NEW d \in Slot, CreateRow(d) PROVE WorkOf(e)'
  BY <1>14 DEF CreateRow, Goto
<1>15. ASSUME NEW d \in Slot, LaunchOk(d) PROVE WorkOf(e)'
  BY <1>15 DEF LaunchOk, Goto
<1>16. ASSUME NEW d \in Slot, LaunchConflicts(d) PROVE WorkOf(e)'
  BY <1>16 DEF LaunchConflicts, Goto
<1>17. ASSUME NEW d \in Slot, LaunchError(d) PROVE WorkOf(e)'
  BY <1>17 DEF LaunchError, Goto, Fault, Touch
<1>18. ASSUME NEW d \in Slot, RowRunning(d) PROVE WorkOf(e)'
  BY <1>18 DEF RowRunning, Goto, WriteRunning
<1>19. ASSUME NEW d \in Slot, LoadTask(d) PROVE WorkOf(e)'
  <2>1. UNCHANGED <<tasks, row, dispatch, runs, poller, edit, proc, bounds, history>>
    BY <1>19 DEF LoadTask
  <2> QED BY <1>19, <2>1, LoadCases, BookkeepingType DEF Goto, Open, Bookkeeping
<1>20. ASSUME NEW d \in Slot, RowSettled(d) PROVE WorkOf(e)'
  BY <1>20 DEF RowSettled, Goto
<1>21. ASSUME NEW d \in Slot, CommitTask(d) PROVE WorkOf(e)'
  <2>1. StatusFor(d) # "absent"
    BY <1>21, BookkeepingType DEF CommitTask
  <2>2. ASSUME NEW t \in Task, status[t] # "absent" PROVE status'[t] # "absent"
    BY <1>21, <2>1, <2>2 DEF CommitTask
  <2>3. ASSUME NEW t \in Task, status[t] = "deleted" PROVE status'[t] = "deleted"
    BY <1>21, <2>3 DEF CommitTask, Exists
  <2>4. dpc' = [dpc EXCEPT ![d] = "done"] /\ UNCHANGED <<row, dispatch, runs, poller, proc, bounds, history>>
    BY <1>21 DEF CommitTask, Goto
  <2> QED BY <2>2, <2>3, <2>4
<1>22. ASSUME NEW d \in Slot, RunEnds(d) PROVE WorkOf(e)'
  BY <1>22 DEF RunEnds
<1>23. ASSUME NEW d \in Slot, RunNeverRan(d) PROVE WorkOf(e)'
  BY <1>23 DEF RunNeverRan, Fault, Touch
<1>24. ASSUME NEW d \in Slot, HookRow(d) PROVE WorkOf(e)'
  BY <1>24 DEF Touch, HookRow, Outcome, Early
<1>25. ASSUME NEW d \in Slot, HookTask(d) PROVE WorkOf(e)'
  <2>1. OnceStatus(run[d]) # "absent"
    <3>1. run[d] \in {"success", "failed", "interrupted"}
      BY <1>25 DEF FlowInv, HookTask, Outcome
    <3> QED BY <3>1 DEF OnceStatus
  <2>2. ASSUME NEW t \in Task, status[t] = "deleted" PROVE status'[t] = "deleted"
    BY <1>25, <2>2 DEF HookTask, Exists
  <2> QED BY <1>25, <2>1, <2>2 DEF HookTask
<1>26. ASSUME NEW d \in Slot, HookError(d) PROVE WorkOf(e)'
  BY <1>26 DEF HookError, Fault, Touch
<1>27. CASE Exit
  BY <1>27 DEF Exit
<1>28. CASE SweepRuns
  BY <1>28 DEF SweepRuns, Fault, Touch, Stale, ActiveRows
<1>29. CASE CancelStuck
  BY <1>29 DEF CancelStuck, Fault, Touch
<1>31. ASSUME NEW d \in Slot, CommitRunning(d) PROVE WorkOf(e)'
  BY <1>31, BookkeepingType DEF CommitRunning, Goto
<1>32. ASSUME NEW d \in Slot, CommitGone(d) PROVE WorkOf(e)'
  <2>1. /\ dpc[d] \in Writes /\ batch' \subseteq batch
        /\ \E p \in {"rowFailed", "done"} : dpc' = [dpc EXCEPT ![d] = p]
        /\ UNCHANGED <<tasks, row, dispatch, runs, budget, proc, bounds>>
    BY <1>32 DEF CommitGone, Goto
  <2>2. status[taskOf[d]] = "deleted"
    BY <1>32, <2>1 DEF CommitGone, Exists, FlowInv, Writes
  <2>3. \A t \in Task : touch[t] \subseteq touch'[t]
    BY <1>32 DEF CommitGone, Touch
  <2> QED BY <2>1, <2>2, <2>3 DEF Writes
<1> QED
  BY <1>1, <1>2, <1>3, <1>4, <1>5, <1>6, <1>7, <1>8, <1>9, <1>10, <1>11, <1>12, <1>13, <1>14, <1>15, <1>16, <1>17, <1>18, <1>19, <1>20, <1>21, <1>22, <1>23, <1>24, <1>25, <1>26, <1>27, <1>28, <1>29, <1>31, <1>32
  DEF Next, Client, Poll, Dispatch, Hook, Trouble, Restart

LEMMA PollStep == TypeOK /\ FlowInv /\ WorkInv /\ [Next]_vars => PollInv'
<1> SUFFICES ASSUME TypeOK, FlowInv, WorkInv, [Next]_vars
             PROVE  PollInv'
  OBVIOUS
<1>0. (\A d \in Slot : WorkOf(d)) /\ PollInv
  BY DEF WorkInv
<1>a. ASSUME batch' \subseteq batch, budget' = budget,
             \A t \in batch : status'[t] # "absent",
             \A d \in Slot : Pending(d)' => Pending(d)
      PROVE  PollInv'
  BY <1>0, <1>a DEF PollInv
<1> USE <1>0, <1>a DEF PollInv, Pending, TypeOK, tasks, dispatch, place, runs, poller, bounds, history
<1>1. CASE UNCHANGED vars
  BY <1>1 DEF vars
<1>2. ASSUME NEW t \in Task, Create(t) PROVE PollInv'
  BY <1>2 DEF Create
<1>3. ASSUME NEW t \in Task, Delete(t) PROVE PollInv'
  BY <1>3 DEF Delete
<1>4. ASSUME NEW t \in Task, BecomesDue(t) PROVE PollInv'
  BY <1>4 DEF BecomesDue
<1>5. ASSUME NEW t \in Task, LeaseExpires(t) PROVE PollInv'
  BY <1>5 DEF LeaseExpires
<1>6. ASSUME NEW t \in Task, NEW kind \in EditKind, CheckEdit(t, kind) PROVE PollInv'
  BY <1>6 DEF CheckEdit, Touch
<1>7. ASSUME NEW f \in edit, WriteEdit(f) PROVE PollInv'
  <2>1. f.task \in Task /\ f.kind \in {"pause", "resume", "patch"}
    BY DEF EditKind
  <2>2. ASSUME NEW t \in Task, status[t] # "absent" PROVE status'[t] # "absent"
    BY <1>7, <2>1, <2>2 DEF WriteEdit
  <2> QED BY <1>7, <2>2 DEF WriteEdit
<1>8. CASE PollCount
  BY <1>8 DEF PollCount, PollerBusy
<1>9. CASE PollClaim
  BY <1>9 DEF PollClaim
<1>10. ASSUME NEW d \in Slot, NEW t \in Task, PollDispatch(d, t) PROVE PollInv'
  BY <1>10 DEF PollDispatch, Start, Goto, Free, Attended
<1>11. ASSUME NEW d \in Slot, NEW t \in Task, Trigger(d, t) PROVE PollInv'
  BY <1>11 DEF Trigger, Start, Goto, Free, Attended, Touch
<1>12. ASSUME NEW d \in Slot, Escape(d) PROVE PollInv'
  BY <1>12 DEF Escape, Goto, Fault, Touch
<1>13. ASSUME NEW d \in Slot, CheckOverlap(d) PROVE PollInv'
  BY <1>13 DEF CheckOverlap, Goto
<1>14. ASSUME NEW d \in Slot, CreateRow(d) PROVE PollInv'
  BY <1>14 DEF CreateRow, Goto
<1>15. ASSUME NEW d \in Slot, LaunchOk(d) PROVE PollInv'
  BY <1>15 DEF LaunchOk, Goto
<1>16. ASSUME NEW d \in Slot, LaunchConflicts(d) PROVE PollInv'
  BY <1>16 DEF LaunchConflicts, Goto
<1>17. ASSUME NEW d \in Slot, LaunchError(d) PROVE PollInv'
  BY <1>17 DEF LaunchError, Goto, Fault, Touch
<1>18. ASSUME NEW d \in Slot, RowRunning(d) PROVE PollInv'
  BY <1>18 DEF RowRunning, Goto, WriteRunning
<1>19. ASSUME NEW d \in Slot, LoadTask(d) PROVE PollInv'
  <2>1. UNCHANGED <<tasks, row, dispatch, runs, poller, edit, proc, bounds, history>>
    BY <1>19 DEF LoadTask
  <2> QED BY <1>19, <2>1, LoadCases, BookkeepingType DEF Goto, Open, Bookkeeping
<1>20. ASSUME NEW d \in Slot, RowSettled(d) PROVE PollInv'
  BY <1>20 DEF RowSettled, Goto
<1>21. ASSUME NEW d \in Slot, CommitTask(d) PROVE PollInv'
  BY <1>21, BookkeepingType DEF CommitTask, Goto, Writes
<1>22. ASSUME NEW d \in Slot, RunEnds(d) PROVE PollInv'
  BY <1>22 DEF RunEnds
<1>23. ASSUME NEW d \in Slot, RunNeverRan(d) PROVE PollInv'
  BY <1>23 DEF RunNeverRan, Fault, Touch
<1>24. ASSUME NEW d \in Slot, HookRow(d) PROVE PollInv'
  BY <1>24 DEF Touch, HookRow
<1>25. ASSUME NEW d \in Slot, HookTask(d) PROVE PollInv'
  <2>1. OnceStatus(run[d]) # "absent"
    <3>1. run[d] \in {"success", "failed", "interrupted"}
      BY <1>25 DEF FlowInv, FlowOf, HookTask, Outcome
    <3> QED BY <3>1 DEF OnceStatus
  <2> QED BY <1>25, <2>1 DEF HookTask
<1>26. ASSUME NEW d \in Slot, HookError(d) PROVE PollInv'
  BY <1>26 DEF HookError, Fault, Touch
<1>27. CASE Exit
  BY <1>27 DEF Exit
<1>28. CASE SweepRuns
  BY <1>28 DEF SweepRuns, Fault, Touch, Stale, ActiveRows
<1>29. CASE CancelStuck
  BY <1>29 DEF CancelStuck, Fault, Touch
<1>31. ASSUME NEW d \in Slot, CommitRunning(d) PROVE PollInv'
  BY <1>31, BookkeepingType DEF CommitRunning, Goto
<1>32. ASSUME NEW d \in Slot, CommitGone(d) PROVE PollInv'
  BY <1>32, BookkeepingType DEF CommitGone, Goto, Touch, Writes
<1> QED
  BY <1>1, <1>2, <1>3, <1>4, <1>5, <1>6, <1>7, <1>8, <1>9, <1>10, <1>11, <1>12, <1>13, <1>14, <1>15, <1>16, <1>17, <1>18, <1>19, <1>20, <1>21, <1>22, <1>23, <1>24, <1>25, <1>26, <1>27, <1>28, <1>29, <1>31, <1>32
  DEF Next, Client, Poll, Dispatch, Hook, Trouble, Restart

LEMMA TaskStep == TypeOK /\ FlowInv /\ WorkInv /\ [Next]_vars => TaskInv'
<1> SUFFICES ASSUME TypeOK, FlowInv, WorkInv, [Next]_vars
             PROVE  TaskInv'
  OBVIOUS
<1>0. TaskInv /\ \A d \in Slot : WorkOf(d)
  BY DEF WorkInv
<1>a. ASSUME UNCHANGED <<status, next, fired>>, edit' \subseteq edit, 
             \A t \in Task : touch[t] \subseteq touch'[t]
      PROVE  TaskInv'
  BY <1>0, <1>a DEF TaskInv, Exists, TypeOK
<1> USE <1>0 DEF TaskInv, Exists, TypeOK, tasks, dispatch, place, runs, poller, bounds, history
<1>1. CASE UNCHANGED vars
  BY <1>1 DEF vars
<1>2. ASSUME NEW t \in Task, Create(t) PROVE TaskInv'
  BY <1>2 DEF Create
<1>3. ASSUME NEW t \in Task, Delete(t) PROVE TaskInv'
  BY <1>3 DEF Delete
<1>4. ASSUME NEW t \in Task, BecomesDue(t) PROVE TaskInv'
  BY <1>4 DEF BecomesDue
<1>5. ASSUME NEW t \in Task, LeaseExpires(t) PROVE TaskInv'
  BY <1>5 DEF LeaseExpires
<1>6. ASSUME NEW t \in Task, NEW kind \in EditKind, CheckEdit(t, kind) PROVE TaskInv'
  BY <1>6 DEF CheckEdit, Touch
<1>7. ASSUME NEW f \in edit, WriteEdit(f) PROVE TaskInv'
  <2>1. f.task \in Task /\ f.kind \in {"pause", "resume", "patch"}
    BY DEF EditKind
  <2>2. ASSUME NEW t \in Task, status'[t] \in {"absent", "deleted"} PROVE next'[t] = "none"
    <3>1. status[t] \in {"absent", "deleted"}
      BY <1>7, <2>1, <2>2 DEF WriteEdit
    <3>2. next[t] = "none" /\ next'[t] = next[t]
      BY <1>7, <2>1, <3>1 DEF WriteEdit
    <3> QED BY <3>2
  <2>3. edit' \subseteq edit /\ touch' = touch
    BY <1>7 DEF WriteEdit
  <2>4. ASSUME NEW t \in Task, status'[t] = "absent" PROVE fired'[t] = 0
    BY <1>7, <2>1, <2>4 DEF WriteEdit
  <2> QED BY <2>2, <2>3, <2>4
<1>8. CASE PollCount
  BY <1>8 DEF PollCount, PollerBusy
<1>9. CASE PollClaim
  BY <1>9 DEF PollClaim, Claimable
<1>10. ASSUME NEW d \in Slot, NEW t \in Task, PollDispatch(d, t) PROVE TaskInv'
  BY <1>10 DEF PollDispatch, Start, Goto, Free, Attended
<1>11. ASSUME NEW d \in Slot, NEW t \in Task, Trigger(d, t) PROVE TaskInv'
  BY <1>11 DEF Trigger, Start, Goto, Free, Attended, Touch
<1>12. ASSUME NEW d \in Slot, Escape(d) PROVE TaskInv'
  BY <1>12 DEF Escape, Goto, Fault, Touch
<1>13. ASSUME NEW d \in Slot, CheckOverlap(d) PROVE TaskInv'
  BY <1>13 DEF CheckOverlap, Goto
<1>14. ASSUME NEW d \in Slot, CreateRow(d) PROVE TaskInv'
  BY <1>14 DEF CreateRow, Goto
<1>15. ASSUME NEW d \in Slot, LaunchOk(d) PROVE TaskInv'
  BY <1>15 DEF LaunchOk, Goto, WorkOf, FlowInv, FlowOf
<1>16. ASSUME NEW d \in Slot, LaunchConflicts(d) PROVE TaskInv'
  BY <1>16 DEF LaunchConflicts, Goto
<1>17. ASSUME NEW d \in Slot, LaunchError(d) PROVE TaskInv'
  BY <1>17 DEF LaunchError, Goto, Fault, Touch
<1>18. ASSUME NEW d \in Slot, RowRunning(d) PROVE TaskInv'
  BY <1>18 DEF RowRunning, Goto, WriteRunning
<1>19. ASSUME NEW d \in Slot, LoadTask(d) PROVE TaskInv'
  <2>1. UNCHANGED <<tasks, row, dispatch, runs, poller, edit, proc, bounds, history>>
    BY <1>19 DEF LoadTask
  <2> QED BY <1>19, <2>1, LoadCases, BookkeepingType DEF Goto, Open, Bookkeeping
<1>20. ASSUME NEW d \in Slot, RowSettled(d) PROVE TaskInv'
  BY <1>20 DEF RowSettled, Goto
<1>21. ASSUME NEW d \in Slot, CommitTask(d) PROVE TaskInv'
  BY <1>21, BookkeepingType DEF CommitTask, Goto, Writes
<1>22. ASSUME NEW d \in Slot, RunEnds(d) PROVE TaskInv'
  BY <1>22 DEF RunEnds
<1>23. ASSUME NEW d \in Slot, RunNeverRan(d) PROVE TaskInv'
  BY <1>23 DEF RunNeverRan, Fault, Touch
<1>24. ASSUME NEW d \in Slot, HookRow(d) PROVE TaskInv'
  BY <1>24 DEF Touch, HookRow
<1>25. ASSUME NEW d \in Slot, HookTask(d) PROVE TaskInv'
  <2>1. OnceStatus(run[d]) \notin {"absent", "deleted"}
    <3>1. run[d] \in {"success", "failed", "interrupted"}
      BY <1>25 DEF FlowInv, FlowOf, HookTask, Outcome
    <3> QED BY <3>1 DEF OnceStatus
  <2>2. ASSUME NEW t \in Task, status'[t] \in {"absent", "deleted"} PROVE status[t] \in {"absent", "deleted"}
    BY <1>25, <2>1, <2>2 DEF HookTask
  <2>3. UNCHANGED <<next, edit, touch, fired>>
    BY <1>25 DEF HookTask
  <2>4. ASSUME NEW t \in Task, status'[t] = "absent" PROVE status[t] = "absent"
    BY <1>25, <2>1, <2>4 DEF HookTask
  <2> QED BY <2>2, <2>3, <2>4
<1>26. ASSUME NEW d \in Slot, HookError(d) PROVE TaskInv'
  BY <1>26 DEF HookError, Fault, Touch
<1>27. CASE Exit
  BY <1>27 DEF Exit
<1>28. CASE SweepRuns
  BY <1>28 DEF SweepRuns, Fault, Touch, Stale, ActiveRows
<1>29. CASE CancelStuck
  BY <1>29 DEF CancelStuck, Fault, Touch
<1>31. ASSUME NEW d \in Slot, CommitRunning(d) PROVE TaskInv'
  BY <1>31, BookkeepingType DEF CommitRunning, Goto
<1>32. ASSUME NEW d \in Slot, CommitGone(d) PROVE TaskInv'
  BY <1>32, BookkeepingType DEF CommitGone, Goto, Touch, Writes
<1> QED
  BY <1>1, <1>2, <1>3, <1>4, <1>5, <1>6, <1>7, <1>8, <1>9, <1>10, <1>11, <1>12, <1>13, <1>14, <1>15, <1>16, <1>17, <1>18, <1>19, <1>20, <1>21, <1>22, <1>23, <1>24, <1>25, <1>26, <1>27, <1>28, <1>29, <1>31, <1>32
  DEF Next, Client, Poll, Dispatch, Hook, Trouble, Restart

-----------------------------------------------------------------------------
(* The limit. *)

\* No scheduled dispatch is added, and nothing is claimed.
Shrinks == Launches' \subseteq Launches /\ batch' \subseteq batch /\ budget' \in 0 .. budget

LEMMA CapStep == TypeOK /\ FlowInv /\ WorkInv /\ CapInv /\ [Next]_vars => CapInv'
<1> SUFFICES ASSUME TypeOK, FlowInv, WorkInv, CapInv, [Next]_vars
             PROVE  CapInv'
  OBVIOUS
<1>0. \A d \in Slot : WorkOf(d)
  BY DEF WorkInv
<1>b. /\ IsFiniteSet(Launches) /\ Cardinality(Launches) \in Nat
      /\ IsFiniteSet(batch) /\ Cardinality(batch) \in Nat
      /\ budget \in Nat
  <2>1. Launches \subseteq Slot /\ batch \subseteq Task
    BY DEF Launches, TypeOK
  <2>2. budget \in Nat
    BY SchedulerAssumption DEF TypeOK
  <2> QED BY <2>1, <2>2, SchedulerAssumption, FS_Subset, FS_CardinalityType
<1>c. IsFiniteSet(batch')
  <2>1. batch' \subseteq Task
    BY TypeStep DEF TypeOK
  <2> QED BY <2>1, SchedulerAssumption, FS_Subset
<1>a. ASSUME Shrinks PROVE CapInv'
  <2>1. Cardinality(Launches') <= Cardinality(Launches) /\ Cardinality(Launches') \in Nat
    BY <1>b, <1>a, FS_Subset, FS_CardinalityType DEF Shrinks
  <2>2. Cardinality(batch') <= Cardinality(batch) /\ Cardinality(batch') \in Nat
    BY <1>b, <1>a, FS_Subset, FS_CardinalityType DEF Shrinks
  <2> QED BY <1>a, <1>b, <2>1, <2>2, SchedulerAssumption DEF CapInv, Shrinks
<1>d. \A d \in Slot : dpc[d] \in {"launching", "rowRunning", "rowWriting"} => row[d] # "none"
  BY <1>0 DEF WorkOf
<1> USE DEF TypeOK, ActiveRow, TerminalRow, tasks, dispatch, place, runs, poller, bounds, history
<1>1. ASSUME UNCHANGED vars PROVE Shrinks
  BY <1>1, <1>b, <1>d DEF Shrinks, Launches, vars
<1>2. ASSUME NEW t \in Task, Create(t) PROVE Shrinks
  BY <1>2, <1>b, <1>d DEF Shrinks, Launches, Create
<1>3. ASSUME NEW t \in Task, Delete(t) PROVE Shrinks
  BY <1>3, <1>b, <1>d DEF Shrinks, Launches, Delete
<1>4. ASSUME NEW t \in Task, BecomesDue(t) PROVE Shrinks
  BY <1>4, <1>b, <1>d DEF Shrinks, Launches, BecomesDue
<1>5. ASSUME NEW t \in Task, LeaseExpires(t) PROVE Shrinks
  BY <1>5, <1>b, <1>d DEF Shrinks, Launches, LeaseExpires
<1>6. ASSUME NEW t \in Task, NEW kind \in EditKind, CheckEdit(t, kind) PROVE Shrinks
  BY <1>6, <1>b, <1>d DEF Shrinks, Launches, CheckEdit, Touch
<1>7. ASSUME NEW f \in edit, WriteEdit(f) PROVE Shrinks
  BY <1>7, <1>b, <1>d DEF Shrinks, Launches, WriteEdit
<1>8. ASSUME PollCount PROVE CapInv'
  <2>1. ~PollerBusy /\ budget' = Room /\ Room > 0 /\ UNCHANGED <<row, trigger, dpc, batch>>
    BY <1>8 DEF PollCount
  <2>2. batch = {} /\ Launches \subseteq ActiveRows /\ Launches' = Launches
    BY <2>1 DEF PollerBusy, Launches, ActiveRows
  <2>3. IsFiniteSet(ActiveRows) /\ Cardinality(ActiveRows) \in Nat
    <3>1. ActiveRows \subseteq Slot
      BY DEF ActiveRows
    <3> QED BY <3>1, SchedulerAssumption, FS_Subset, FS_CardinalityType
  <2>4. Cardinality(Launches) <= Cardinality(ActiveRows)
    BY <2>2, <2>3, FS_Subset
  <2>5. Cardinality(batch') = 0 /\ Cardinality(Launches') = Cardinality(Launches)
    BY <2>1, <2>2, FS_EmptySet
  <2>6. budget' = MaxConcurrent - Cardinality(ActiveRows)
    BY <2>1, <2>3 DEF Room
  <2> QED BY <1>b, <2>3, <2>4, <2>5, <2>6, SchedulerAssumption DEF CapInv
<1>9. ASSUME PollClaim PROVE CapInv'
  <2>1. Cardinality(batch') <= budget /\ budget' = 0 /\ UNCHANGED <<row, trigger, dpc>>
    BY <1>9 DEF PollClaim
  <2>2. Launches' = Launches
    BY <2>1 DEF Launches
  <2>3. Cardinality(batch') \in Nat
    BY <1>c, FS_CardinalityType
  <2> QED BY <1>b, <2>1, <2>2, <2>3, SchedulerAssumption DEF CapInv
<1>10. ASSUME NEW d \in Slot, NEW t \in Task, PollDispatch(d, t) PROVE CapInv'
  <2>1. t \in batch /\ batch' = batch \ {t} /\ budget' = budget
    BY <1>10 DEF PollDispatch
  <2>2. d \notin Launches
    BY <1>10 DEF PollDispatch, Start, Goto, Free, Attended, Launches
  <2>3. Launches' \subseteq Launches \cup {d}
    BY <1>10 DEF PollDispatch, Start, Goto, Launches, TypeOK
  <2>4. Cardinality(Launches \cup {d}) = Cardinality(Launches) + 1
    BY <1>b, <2>2, FS_AddElement
  <2>5. Cardinality(batch') = Cardinality(batch) - 1
    BY <1>b, <2>1, FS_RemoveElement
  <2>6. Cardinality(Launches') <= Cardinality(Launches) + 1 /\ Cardinality(Launches') \in Nat
    BY <1>b, <2>3, <2>4, FS_AddElement, FS_Subset, FS_CardinalityType
  <2> QED BY <1>b, <2>1, <2>5, <2>6, SchedulerAssumption DEF CapInv
<1>11. ASSUME NEW d \in Slot, NEW t \in Task, Trigger(d, t) PROVE Shrinks
  BY <1>11, <1>b, <1>d DEF Shrinks, Launches, Trigger, Start, Goto, Free, Attended, Touch
<1>12. ASSUME NEW d \in Slot, Escape(d) PROVE Shrinks
  BY <1>12, <1>b, <1>d DEF Shrinks, Launches, Escape, Goto, Fault, Touch
<1>13. ASSUME NEW d \in Slot, CheckOverlap(d) PROVE Shrinks
  BY <1>13, <1>b, <1>d DEF Shrinks, Launches, CheckOverlap, Goto
<1>14. ASSUME NEW d \in Slot, CreateRow(d) PROVE Shrinks
  BY <1>14, <1>b, <1>d DEF Shrinks, Launches, CreateRow, Goto
<1>15. ASSUME NEW d \in Slot, LaunchOk(d) PROVE Shrinks
  BY <1>15, <1>b, <1>d DEF Shrinks, Launches, LaunchOk, Goto
<1>16. ASSUME NEW d \in Slot, LaunchConflicts(d) PROVE Shrinks
  BY <1>16, <1>b, <1>d DEF Shrinks, Launches, LaunchConflicts, Goto
<1>17. ASSUME NEW d \in Slot, LaunchError(d) PROVE Shrinks
  BY <1>17, <1>b, <1>d DEF Shrinks, Launches, LaunchError, Goto, Fault, Touch
<1>18. ASSUME NEW d \in Slot, RowRunning(d) PROVE Shrinks
  BY <1>18, <1>b, <1>d DEF Shrinks, Launches, RowRunning, Goto, WriteRunning
<1>19. ASSUME NEW d \in Slot, LoadTask(d) PROVE Shrinks
  <2>1. UNCHANGED <<tasks, row, dispatch, runs, poller, edit, proc, bounds, history>>
    BY <1>19 DEF LoadTask
  <2> QED BY <1>19, <2>1, LoadCases, <1>b, <1>d DEF Goto, Open, Bookkeeping, Shrinks, Launches
<1>20. ASSUME NEW d \in Slot, RowSettled(d) PROVE Shrinks
  BY <1>20, <1>b, <1>d DEF Shrinks, Launches, RowSettled, Goto
<1>21. ASSUME NEW d \in Slot, CommitTask(d) PROVE Shrinks
  BY <1>21, <1>b, <1>d DEF CommitTask, Goto, Writes, Shrinks, Launches
<1>22. ASSUME NEW d \in Slot, RunEnds(d) PROVE Shrinks
  BY <1>22, <1>b, <1>d DEF Shrinks, Launches, RunEnds
<1>23. ASSUME NEW d \in Slot, RunNeverRan(d) PROVE Shrinks
  BY <1>23, <1>b, <1>d DEF Shrinks, Launches, RunNeverRan, Fault, Touch
<1>24. ASSUME NEW d \in Slot, HookRow(d) PROVE Shrinks
  BY <1>24, <1>b, <1>d DEF Touch, Shrinks, Launches, HookRow, FlowInv, FlowOf, Outcome
<1>25. ASSUME NEW d \in Slot, HookTask(d) PROVE Shrinks
  BY <1>25, <1>b, <1>d DEF Shrinks, Launches, HookTask
<1>26. ASSUME NEW d \in Slot, HookError(d) PROVE Shrinks
  BY <1>26, <1>b, <1>d DEF Shrinks, Launches, HookError, Fault, Touch
<1>27. ASSUME Exit PROVE Shrinks
  BY <1>27, <1>b, <1>d DEF Shrinks, Launches, Exit
<1>28. ASSUME SweepRuns PROVE Shrinks
  BY <1>28, <1>b, <1>d DEF Shrinks, Launches, SweepRuns, Fault, Touch, Stale, ActiveRows
<1>29. ASSUME CancelStuck PROVE Shrinks
  BY <1>29, <1>b, <1>d DEF Shrinks, Launches, CancelStuck, Fault, Touch
<1>31. ASSUME NEW d \in Slot, CommitRunning(d) PROVE Shrinks
  BY <1>31, <1>b, <1>d DEF CommitRunning, Goto, Shrinks, Launches
<1>32. ASSUME NEW d \in Slot, CommitGone(d) PROVE Shrinks
  BY <1>32, <1>b, <1>d DEF CommitGone, Goto, Touch, Writes, Shrinks, Launches
<1> QED
  BY <1>a, <1>1, <1>2, <1>3, <1>4, <1>5, <1>6, <1>7, <1>8, <1>9, <1>10, <1>11, <1>12, <1>13, <1>14, <1>15, <1>16, <1>17, <1>18, <1>19, <1>20, <1>21, <1>22, <1>23, <1>24, <1>25, <1>26, <1>27, <1>28, <1>29, <1>31, <1>32
  DEF Next, Client, Poll, Dispatch, Hook, Trouble, Restart

-----------------------------------------------------------------------------
(* Runs of a task that nobody triggers by hand. *)

\* What was done to a task stays on record.
LEMMA TouchGrows ==
  ASSUME TypeOK, [Next]_vars, NEW t \in Task
  PROVE  touch[t] \subseteq touch'[t]
<1> USE DEF TypeOK, tasks, dispatch, place, runs, poller, bounds, history
<1>1. CASE touch' = touch
  BY <1>1
<1>2. CASE \E T, what : Touch(T, what)
  BY <1>2 DEF Touch
<1> QED
  BY <1>1, <1>2
  DEF Next, vars, Client, Create, Delete, BecomesDue, LeaseExpires, CheckEdit, WriteEdit, Poll, PollCount,
      PollClaim, PollDispatch, Trigger, Dispatch, CheckOverlap, CreateRow, LaunchOk, LaunchConflicts,
      RowRunning, CommitRunning, RowSettled, LoadTask, CommitTask, CommitGone, RunEnds, Hook, HookRow, HookTask, Trouble,
      Escape, LaunchError, RunNeverRan, HookError, Exit, Restart, SweepRuns, CancelStuck, Fault

LEMMA OverlapStep ==
  TypeOK /\ FlowInv /\ SettleInv /\ WorkInv /\ OverlapInv /\ [Next]_vars => OverlapInv'
<1> SUFFICES ASSUME TypeOK, FlowInv, SettleInv, WorkInv, OverlapInv, [Next]_vars, NEW u \in Task,
                    (touch[u] \cap {"manual", "fault", "gone"})' = {}
             PROVE  OverlapOf(u)'
  BY DEF OverlapInv
<1>0. touch[u] \cap {"manual", "fault", "gone"} = {} /\ OverlapOf(u)
  BY TouchGrows DEF OverlapInv
<1>b. \A d \in Slot : FlowOf(d) /\ WorkOf(d) /\ (taskOf[d] = u => SettledOf(d))
  BY <1>0 DEF FlowInv, WorkInv, SettleInv, Sound
<1>c. \A d, e \in Slot : Pending(d) /\ Pending(e) => d = e
  BY DEF WorkInv, PollInv
<1>d. \A d \in Slot : taskOf[d] = u /\ dpc[d] # "done" => Pending(d)
  BY <1>0, <1>b DEF WorkOf, Pending
<1>e. \A d \in RunsOf(u) : /\ row[d] \in ActiveRow /\ proc = "up" /\ hook[d] = "none"
                           /\ dpc[d] \notin Early \cup {"rowFailed", "taskFailed"}
  BY <1>0, <1>b DEF OverlapOf, RunsOf, WorkOf, Attended, FlowOf, SettledOf, Quiet, Outcome
<1> USE <1>0 DEF OverlapOf, RunsOf, TypeOK, Early, ActiveRow, tasks, dispatch, place, runs, poller, bounds, history
<1>1. CASE UNCHANGED vars
  BY <1>1 DEF vars
<1>2. ASSUME NEW t \in Task, Create(t) PROVE OverlapOf(u)'
  BY <1>2 DEF Create
<1>3. ASSUME NEW t \in Task, Delete(t) PROVE OverlapOf(u)'
  BY <1>3 DEF Delete
<1>4. ASSUME NEW t \in Task, BecomesDue(t) PROVE OverlapOf(u)'
  BY <1>4 DEF BecomesDue
<1>5. ASSUME NEW t \in Task, LeaseExpires(t) PROVE OverlapOf(u)'
  BY <1>5 DEF LeaseExpires
<1>6. ASSUME NEW t \in Task, NEW kind \in EditKind, CheckEdit(t, kind) PROVE OverlapOf(u)'
  BY <1>6 DEF CheckEdit, Touch
<1>7. ASSUME NEW f \in edit, WriteEdit(f) PROVE OverlapOf(u)'
  BY <1>7 DEF WriteEdit
<1>8. CASE PollCount
  BY <1>8 DEF PollCount
<1>9. CASE PollClaim
  BY <1>9 DEF PollClaim
<1>10. ASSUME NEW d \in Slot, NEW t \in Task, PollDispatch(d, t) PROVE OverlapOf(u)'
  BY <1>10 DEF PollDispatch, Start, Goto, Free, Attended
<1>11. ASSUME NEW d \in Slot, NEW t \in Task, Trigger(d, t) PROVE OverlapOf(u)'
  BY <1>11 DEF Trigger, Start, Goto, Free, Attended, Touch
<1>12. ASSUME NEW d \in Slot, Escape(d) PROVE OverlapOf(u)'
  BY <1>12 DEF Escape, Goto, Fault, Touch
<1>13. ASSUME NEW d \in Slot, CheckOverlap(d) PROVE OverlapOf(u)'
  BY <1>13, <1>e DEF CheckOverlap, Goto, HasActiveRuns
<1>14. ASSUME NEW d \in Slot, CreateRow(d) PROVE OverlapOf(u)'
  BY <1>14, <1>e DEF CreateRow, Goto
<1>15. ASSUME NEW d \in Slot, LaunchOk(d) PROVE OverlapOf(u)'
  <2>1. CASE taskOf[d] # u
    BY <1>15, <2>1 DEF LaunchOk, Goto
  <2>2. CASE taskOf[d] = u
    <3>1. RunsOf(u) = {} /\ RunsOf(u)' = {d}
      BY <1>15, <2>2 DEF LaunchOk
    <3>2. row'[d] \in ActiveRow
      BY <1>15, <1>b DEF LaunchOk, WorkOf
    <3>3. ASSUME NEW e \in Slot, taskOf'[e] = u, dpc'[e] \in {"creating", "launching"} PROVE FALSE
      <4>1. taskOf[e] = u /\ dpc[e] # "done" /\ dpc[d] # "done" /\ e # d
        BY <1>15, <3>3 DEF LaunchOk, Goto
      <4> QED BY <1>c, <1>d, <2>2, <4>1
    <3> QED BY <3>1, <3>2, <3>3
  <2> QED BY <2>1, <2>2
<1>16. ASSUME NEW d \in Slot, LaunchConflicts(d) PROVE OverlapOf(u)'
  BY <1>16 DEF LaunchConflicts, Goto
<1>17. ASSUME NEW d \in Slot, LaunchError(d) PROVE OverlapOf(u)'
  BY <1>17 DEF LaunchError, Goto, Fault, Touch
<1>18. ASSUME NEW d \in Slot, RowRunning(d) PROVE OverlapOf(u)'
  BY <1>18, <1>e DEF RowRunning, Goto
<1>19. ASSUME NEW d \in Slot, LoadTask(d) PROVE OverlapOf(u)'
  <2>1. UNCHANGED <<tasks, row, dispatch, runs, poller, edit, proc, bounds, history>>
    BY <1>19 DEF LoadTask
  <2> QED BY <1>19, <2>1, LoadCases, <1>e DEF Goto, Open, Bookkeeping
<1>20. ASSUME NEW d \in Slot, RowSettled(d) PROVE OverlapOf(u)'
  BY <1>20, <1>e DEF RowSettled, Goto
<1>21. ASSUME NEW d \in Slot, CommitTask(d) PROVE OverlapOf(u)'
  BY <1>21, <1>e DEF CommitTask, Goto, Writes
<1>22. ASSUME NEW d \in Slot, RunEnds(d) PROVE OverlapOf(u)'
  BY <1>22 DEF RunEnds
<1>23. ASSUME NEW d \in Slot, RunNeverRan(d) PROVE OverlapOf(u)'
  BY <1>23 DEF RunNeverRan, Fault, Touch
<1>24. ASSUME NEW d \in Slot, HookRow(d) PROVE OverlapOf(u)'
  BY <1>24, <1>e DEF Touch, HookRow
<1>25. ASSUME NEW d \in Slot, HookTask(d) PROVE OverlapOf(u)'
  BY <1>25 DEF HookTask
<1>26. ASSUME NEW d \in Slot, HookError(d) PROVE OverlapOf(u)'
  BY <1>26 DEF HookError, Fault, Touch
<1>27. CASE Exit
  BY <1>27 DEF Exit
<1>28. CASE SweepRuns
  BY <1>28, <1>e DEF SweepRuns
<1>29. CASE CancelStuck
  BY <1>29 DEF CancelStuck, Fault, Touch
<1>31. ASSUME NEW d \in Slot, CommitRunning(d) PROVE OverlapOf(u)'
  BY <1>31, <1>e DEF CommitRunning, Goto
<1>32. ASSUME NEW d \in Slot, CommitGone(d) PROVE OverlapOf(u)'
  BY <1>32, <1>e DEF CommitGone, Goto, Touch, Writes
<1> QED
  BY <1>1, <1>2, <1>3, <1>4, <1>5, <1>6, <1>7, <1>8, <1>9, <1>10, <1>11, <1>12, <1>13, <1>14, <1>15, <1>16, <1>17, <1>18, <1>19, <1>20, <1>21, <1>22, <1>23, <1>24, <1>25, <1>26, <1>27, <1>28, <1>29, <1>31, <1>32
  DEF Next, Client, Poll, Dispatch, Hook, Trouble, Restart

-----------------------------------------------------------------------------
(* Once tasks. *)

\* Faults and exits are only ever added.
LEMMA FaultsGrow ==
  ASSUME TypeOK, [Next]_vars
  PROVE  faults' >= faults /\ exits' >= exits
<1> USE DEF tasks, dispatch, place, runs, poller, bounds, history
<1>1. faults \in Int /\ exits \in Int
  BY SchedulerAssumption DEF TypeOK
<1>2. CASE UNCHANGED <<faults, exits>>
  BY <1>1, <1>2
<1>3. CASE faults' = faults + 1 /\ exits' = exits
  BY <1>1, <1>3
<1>4. CASE Exit
  BY <1>1, <1>4 DEF Exit
<1> QED
  BY <1>2, <1>3, <1>4
  DEF Next, vars, Client, Create, Delete, BecomesDue, LeaseExpires, CheckEdit, WriteEdit, Poll, PollCount,
      PollClaim, PollDispatch, Trigger, Dispatch, CheckOverlap, CreateRow, LaunchOk, LaunchConflicts,
      RowRunning, CommitRunning, RowSettled, LoadTask, CommitTask, CommitGone, RunEnds, Hook, HookRow, HookTask, Trouble,
      Escape, LaunchError, RunNeverRan, HookError, Restart, SweepRuns, CancelStuck, Fault

LEMMA FiredStep ==
  TypeOK /\ FlowInv /\ WorkInv /\ FiredInv /\ [Next]_vars => FiredInv'
<1> SUFFICES ASSUME TypeOK, FlowInv, WorkInv, FiredInv, [Next]_vars, NEW u \in Once,
                    exits' = 0, faults' <= 1, "manual" \notin touch'[u]
             PROVE  FiredOf(u)'
  BY DEF FiredInv
<1>0. exits = 0 /\ faults <= 1 /\ "manual" \notin touch[u] /\ u \in Task /\ faults \in Nat /\ fired[u] \in 0 .. 2
  <2>1. u \in Task /\ faults \in Nat /\ exits \in Nat /\ faults' >= faults /\ exits' >= exits /\ fired[u] \in 0 .. 2
    BY SchedulerAssumption, FaultsGrow DEF TypeOK
  <2>2. exits' \in Nat /\ faults' \in Nat
    BY SchedulerAssumption, TypeStep DEF TypeOK
  <2> QED BY <2>1, <2>2, TouchGrows
<1>1. FiredOf(u) /\ (fired[u] = 0 \/ fired[u] = 1)
  BY <1>0 DEF FiredInv, FiredOf
<1>b. \A d \in Slot : taskOf[d] = u /\ dpc[d] # "done" =>
        /\ Pending(d) /\ budget = 0 /\ u \notin batch
        /\ dpc[d] \in {"rowFailed", "taskFailed", "writeFailed"} => faults >= 1 \/ next[u] = "none"
        /\ NextOf(d) = "none"
  BY <1>0 DEF WorkInv, TaskInv, Exists, NextOf, WorkOf, Pending
<1>c. \A d, e \in Slot : Pending(d) /\ Pending(e) => d = e
  BY DEF WorkInv, PollInv
<1>d. fired[u] = 1 /\ next[u] # "none" =>
        \E o \in Slot : /\ taskOf[o] = u /\ dpc[o] \in Recording /\ dpc[o] # "done"
                        /\ dpc[o] \in Writes => "next" \in dirty[o]
  BY <1>1 DEF FiredOf, Recording
<1> USE <1>0, <1>1 DEF FiredOf, Recording, Writes, TypeOK, tasks, dispatch, place, runs, poller, bounds, history
<1>2. CASE UNCHANGED vars
  BY <1>2 DEF vars
<1>3. ASSUME NEW t \in Task, Create(t) PROVE FiredOf(u)'
  BY <1>3 DEF Create, WorkInv, TaskInv
<1>4. ASSUME NEW t \in Task, Delete(t) PROVE FiredOf(u)'
  BY <1>4 DEF Delete
<1>5. ASSUME NEW t \in Task, BecomesDue(t) PROVE FiredOf(u)'
  BY <1>5 DEF BecomesDue
<1>6. ASSUME NEW t \in Task, LeaseExpires(t) PROVE FiredOf(u)'
  BY <1>6 DEF LeaseExpires
<1>7. ASSUME NEW t \in Task, NEW kind \in EditKind, CheckEdit(t, kind) PROVE FiredOf(u)'
  BY <1>7 DEF CheckEdit, Touch
<1>8. ASSUME NEW f \in edit, WriteEdit(f) PROVE FiredOf(u)'
  BY <1>8 DEF WriteEdit
<1>9. CASE PollCount
  BY <1>9 DEF PollCount
<1>10. CASE PollClaim
  <2>1. budget > 0 /\ batch' \subseteq {t \in Task : Claimable(t)} /\ UNCHANGED <<next, fired, taskOf, dpc>>
    BY <1>10 DEF PollClaim
  <2>2. fired[u] = 1 => u \notin batch'
    <3>1. CASE next[u] = "none"
      BY <2>1, <3>1 DEF Claimable
    <3>2. CASE fired[u] = 1 /\ next[u] # "none"
      BY <1>b, <1>d, <2>1, <3>2
    <3> QED BY <3>1, <3>2
  <2>3. \A d \in Slot : taskOf[d] = u => dpc[d] = "done"
    BY <1>b, <2>1
  <2>4. fired[u] = 1 => next[u] = "none"
    BY <1>d, <2>3
  <2> QED BY <2>1, <2>2, <2>3, <2>4
<1>11. ASSUME NEW d \in Slot, NEW t \in Task, PollDispatch(d, t) PROVE FiredOf(u)'
  BY <1>11 DEF PollDispatch, Start, Goto, Free, Attended
<1>12. ASSUME NEW d \in Slot, NEW t \in Task, Trigger(d, t) PROVE FiredOf(u)'
  BY <1>12 DEF Trigger, Start, Goto, Free, Attended, Touch
<1>13. ASSUME NEW d \in Slot, Escape(d) PROVE FiredOf(u)'
  <2>1. /\ faults' = faults + 1 /\ dpc[d] \notin {"done", "rowRunning", "rowWriting", "taskLaunched", "writeLaunched", "launching"}
        /\ dpc' = [dpc EXCEPT ![d] = "done"] /\ batch' \subseteq batch /\ UNCHANGED <<next, fired, taskOf>>
        /\ \A o \in Slot \ {d} : dirty'[o] = dirty[o]
    BY <1>13 DEF Escape, Goto, Fault
  <2>2. taskOf[d] = u => dpc[d] \notin {"rowFailed", "taskFailed", "writeFailed"} \/ next[u] = "none"
    BY <1>b, <2>1
  <2> QED BY <2>1, <2>2
<1>14. ASSUME NEW d \in Slot, CheckOverlap(d) PROVE FiredOf(u)'
  BY <1>14 DEF CheckOverlap, Goto
<1>15. ASSUME NEW d \in Slot, CreateRow(d) PROVE FiredOf(u)'
  BY <1>15 DEF CreateRow, Goto
<1>16. ASSUME NEW d \in Slot, LaunchOk(d) PROVE FiredOf(u)'
  <2>1. /\ dpc[d] = "launching" /\ dpc' = [dpc EXCEPT ![d] = "rowRunning"]
        /\ UNCHANGED <<next, taskOf, batch>>
    BY <1>16 DEF LaunchOk, Goto
  <2>2. CASE taskOf[d] # u
    <3>1. fired'[u] = fired[u] /\ \A o \in Slot \ {d} : dpc'[o] = dpc[o] /\ dirty'[o] = dirty[o]
      BY <1>16, <2>2 DEF LaunchOk, Goto
    <3> QED BY <2>1, <2>2, <3>1
  <2>3. CASE taskOf[d] = u
    <3>1. fired'[u] = 1 /\ u \notin batch
      BY <1>16, <1>b, <2>1, <2>3 DEF LaunchOk, Pending
    <3>2. ASSUME NEW e \in Slot, taskOf'[e] = u, dpc'[e] \in {"checking", "creating", "launching"} PROVE FALSE
      <4>1. e # d /\ taskOf[e] = u /\ dpc[e] # "done"
        BY <2>1, <3>2
      <4> QED BY <1>b, <1>c, <2>1, <2>3, <4>1
    <3>3. taskOf'[d] = u /\ dpc'[d] = "rowRunning"
      BY <2>1, <2>3
    <3> QED BY <2>1, <3>1, <3>2, <3>3
  <2> QED BY <2>2, <2>3
<1>17. ASSUME NEW d \in Slot, LaunchConflicts(d) PROVE FiredOf(u)'
  BY <1>17 DEF LaunchConflicts, Goto
<1>18. ASSUME NEW d \in Slot, LaunchError(d) PROVE FiredOf(u)'
  BY <1>18 DEF LaunchError, Goto, Fault, Touch
<1>19. ASSUME NEW d \in Slot, RowRunning(d) PROVE FiredOf(u)'
  BY <1>19 DEF RowRunning, Goto, WriteRunning
<1>20. ASSUME NEW d \in Slot, LoadTask(d) PROVE FiredOf(u)'
  <2>1. UNCHANGED <<tasks, row, dispatch, runs, poller, edit, proc, bounds, history>>
    BY <1>20 DEF LoadTask
  <2>2. CASE Goto(d, "done") /\ ~Exists(taskOf[d])
    <3>1. taskOf[d] = u => next[u] = "none"
      BY <2>2 DEF WorkInv, TaskInv
    <3> QED BY <2>1, <2>2, <3>1 DEF Goto
  <2>3. CASE \E C \in SUBSET Column, p \in Writes :
               /\ Changed(d) \subseteq C /\ Open(d, p, C)
               /\ <<dpc[d], p>> \in {<<"taskLaunched", "writeLaunched">>, <<"taskSkipped", "writeSkipped">>,
                                    <<"taskFailed", "writeFailed">>}
    <3>1. PICK C \in SUBSET Column, p \in Writes :
               /\ Changed(d) \subseteq C /\ Open(d, p, C)
               /\ <<dpc[d], p>> \in {<<"taskLaunched", "writeLaunched">>, <<"taskSkipped", "writeSkipped">>,
                                    <<"taskFailed", "writeFailed">>}
      BY <2>3
    <3>2. taskOf[d] = u => next[u] = "none" \/ "next" \in C
      BY <1>b, <3>1 DEF Changed, Column
    <3>3. /\ dpc' = [dpc EXCEPT ![d] = p] /\ dirty' = [dirty EXCEPT ![d] = C]
          /\ dpc[d] \in Recording <=> p \in Recording
          /\ p \notin {"checking", "creating", "launching"}
      BY <3>1 DEF Open
    <3> QED BY <2>1, <3>2, <3>3
  <2>4. LoadTask(d) /\ d \in Slot
    BY <1>20
  <2> QED BY <2>2, <2>3, <2>4, LoadCases
<1>21. ASSUME NEW d \in Slot, RowSettled(d) PROVE FiredOf(u)'
  BY <1>21 DEF RowSettled, Goto
<1>22. ASSUME NEW d \in Slot, CommitTask(d) PROVE FiredOf(u)'
  <2>1. /\ dpc[d] \in Writes /\ dpc' = [dpc EXCEPT ![d] = "done"] /\ UNCHANGED <<fired, taskOf, batch>>
        /\ \A o \in Slot \ {d} : dirty'[o] = dirty[o]
        /\ next' = [next EXCEPT ![taskOf[d]] = IF "next" \in dirty[d] THEN NextOf(d) ELSE @]
    BY <1>22 DEF CommitTask, Goto
  <2>2. CASE taskOf[d] = u
    <3>1. fired[u] = 1 => next'[u] = "none"
      <4>1. \A o \in Slot : taskOf[o] = u /\ dpc[o] # "done" => o = d
        BY <1>b, <1>c, <2>1, <2>2
      <4>2. ASSUME fired[u] = 1, next[u] # "none" PROVE "next" \in dirty[d]
        <5>1. PICK o \in Slot : /\ taskOf[o] = u /\ dpc[o] \in Recording /\ dpc[o] # "done"
                                /\ dpc[o] \in Writes => "next" \in dirty[o]
          BY <1>d, <4>2
        <5>2. o = d
          BY <4>1, <5>1
        <5> QED BY <2>1, <5>1, <5>2
      <4> QED BY <1>b, <2>1, <2>2, <4>2
    <3> QED BY <2>1, <3>1
  <2>3. CASE taskOf[d] # u
    <3>1. next'[u] = next[u]
      BY <2>1, <2>3
    <3> QED BY <2>1, <2>3, <3>1
  <2> QED BY <2>2, <2>3
<1>23. ASSUME NEW d \in Slot, RunEnds(d) PROVE FiredOf(u)'
  BY <1>23 DEF RunEnds
<1>24. ASSUME NEW d \in Slot, RunNeverRan(d) PROVE FiredOf(u)'
  BY <1>24 DEF RunNeverRan, Fault, Touch
<1>25. ASSUME NEW d \in Slot, HookRow(d) PROVE FiredOf(u)'
  BY <1>25 DEF Touch, HookRow
<1>26. ASSUME NEW d \in Slot, HookTask(d) PROVE FiredOf(u)'
  BY <1>26 DEF HookTask
<1>27. ASSUME NEW d \in Slot, HookError(d) PROVE FiredOf(u)'
  BY <1>27 DEF HookError, Fault, Touch
<1>28. CASE Exit
  BY <1>28 DEF Exit
<1>29. CASE SweepRuns
  BY <1>29 DEF SweepRuns, Fault, Touch, Stale, ActiveRows
<1>30. CASE CancelStuck
  BY <1>30 DEF CancelStuck, Fault, Touch
<1>31. ASSUME NEW d \in Slot, CommitRunning(d) PROVE FiredOf(u)'
  BY <1>31 DEF CommitRunning, Goto
<1>32. ASSUME NEW d \in Slot, CommitGone(d) PROVE FiredOf(u)'
  <2>1. /\ dpc[d] \in Writes /\ ~Exists(taskOf[d]) /\ batch' \subseteq batch
        /\ \E p \in {"rowFailed", "done"} : dpc' = [dpc EXCEPT ![d] = p]
        /\ \A o \in Slot \ {d} : dirty'[o] = dirty[o]
        /\ UNCHANGED <<next, fired, taskOf>>
    BY <1>32 DEF CommitGone, Goto
  <2>2. taskOf[d] = u => next[u] = "none"
    BY <2>1 DEF WorkInv, TaskInv
  <2> QED BY <2>1, <2>2
<1> QED
  BY <1>2, <1>3, <1>4, <1>5, <1>6, <1>7, <1>8, <1>9, <1>10, <1>11, <1>12, <1>13, <1>14, <1>15, <1>16, <1>17, <1>18, <1>19, <1>20, <1>21, <1>22, <1>23, <1>24, <1>25, <1>26, <1>27, <1>28, <1>29, <1>30, <1>31, <1>32
  DEF Next, Client, Poll, Dispatch, Hook, Trouble, Restart

\* What an undisturbed once task shows while it is claimed and dispatched.
LEMMA ClaimStep == TypeOK /\ FlowInv /\ WorkInv /\ ClaimInv /\ [Next]_vars => ClaimInv'
<1> DEFINE Held == {"running", "deleted"} \cup TerminalTask
<1> SUFFICES ASSUME TypeOK, FlowInv, WorkInv, ClaimInv, [Next]_vars, NEW u \in Once, Calm(u)'
             PROVE  ClaimOf(u)'
  BY DEF ClaimInv
<1>0. Calm(u) /\ u \in Task
  BY SchedulerAssumption, TouchGrows DEF Calm
<1>1. ClaimOf(u)
  BY <1>0 DEF ClaimInv
<1>b. \A d \in Slot : taskOf[d] = u /\ dpc[d] # "done" =>
        /\ trigger[d] = "scheduled" /\ ~ahead[d] /\ NextOf(d) = "none"
        /\ StatusForLaunch(d) = "running" /\ StatusForSkip(d) = "failed" /\ StatusForFailure(d) = "failed"
        /\ status[u] # "absent"
  BY <1>0 DEF WorkInv, WorkOf, Calm, NextOf, StatusForLaunch, StatusForSkip, StatusForFailure
<1>e. \A f \in edit : f.task # u
  BY <1>0 DEF WorkInv, TaskInv, Calm
\* A step that dispatches nothing and leaves the task as it must be.
<1>a. ASSUME u \in batch' => u \in batch,
             status[u] \in Held => status'[u] \in Held, next[u] = "none" => next'[u] = "none",
             \A d \in Slot : taskOf'[d] = u /\ dpc'[d] # "done" =>
                /\ taskOf[d] = u /\ dpc[d] # "done"
                /\ dpc'[d] \in Writes => dpc'[d] = dpc[d] /\ dirty'[d] = dirty[d]
      PROVE  ClaimOf(u)'
  BY <1>1, <1>a DEF ClaimOf, Writes
<1> USE <1>0 DEF TypeOK, Writes, tasks, dispatch, place, runs, poller, bounds, history
<1>2. CASE UNCHANGED vars
  BY <1>a, <1>2 DEF vars
<1>3. ASSUME NEW t \in Task, Create(t) PROVE ClaimOf(u)'
  <2>1. status[t] = "absent" /\ UNCHANGED <<batch, taskOf, dpc, dirty>>
        /\ status' = [status EXCEPT ![t] = "enabled"] /\ next' = [next EXCEPT ![t] = "future"]
    BY <1>3 DEF Create
  <2>2. CASE t = u
    BY <1>1, <1>b, <2>1, <2>2 DEF ClaimOf, WorkInv, PollInv
  <2>3. CASE t # u
    BY <1>a, <2>1, <2>3
  <2> QED BY <2>2, <2>3
<1>4. ASSUME NEW t \in Task, Delete(t) PROVE ClaimOf(u)'
  BY <1>a, <1>4 DEF Delete
<1>5. ASSUME NEW t \in Task, BecomesDue(t) PROVE ClaimOf(u)'
  BY <1>a, <1>5 DEF BecomesDue
<1>6. ASSUME NEW t \in Task, LeaseExpires(t) PROVE ClaimOf(u)'
  BY <1>a, <1>6 DEF LeaseExpires
<1>7. ASSUME NEW t \in Task, NEW kind \in EditKind, CheckEdit(t, kind) PROVE ClaimOf(u)'
  BY <1>a, <1>7 DEF CheckEdit
<1>8. ASSUME NEW f \in edit, WriteEdit(f) PROVE ClaimOf(u)'
  <2>1. status'[u] = status[u] /\ next'[u] = next[u] /\ UNCHANGED <<taskOf, dpc, dirty, batch>>
    BY <1>8, <1>e DEF WriteEdit
  <2> QED BY <1>a, <2>1
<1>9. CASE PollCount
  BY <1>a, <1>9 DEF PollCount
<1>10. CASE PollClaim
  <2>1. PICK C \in SUBSET Task :
          /\ batch' = C /\ budget > 0
          /\ status' = [t \in Task |-> IF t \in C THEN "running" ELSE status[t]]
          /\ UNCHANGED <<next, taskOf, dpc, dirty>>
    BY <1>10 DEF PollClaim
  <2> QED BY <1>1, <2>1 DEF ClaimOf
<1>11. ASSUME NEW d \in Slot, NEW t \in Task, PollDispatch(d, t) PROVE ClaimOf(u)'
  BY <1>1, <1>11 DEF ClaimOf, PollDispatch, Start, Goto
<1>12. ASSUME NEW d \in Slot, NEW t \in Task, Trigger(d, t) PROVE ClaimOf(u)'
  <2>1. t # u
    BY <1>12 DEF Trigger, Touch, Calm
  <2>2. taskOf' = [taskOf EXCEPT ![d] = t] /\ UNCHANGED <<status, next, batch>>
        /\ \A e \in Slot \ {d} : dpc'[e] = dpc[e] /\ dirty'[e] = dirty[e]
    BY <1>12 DEF Trigger, Start, Goto
  <2> QED BY <1>a, <2>1, <2>2
<1>13. ASSUME NEW d \in Slot, Escape(d) PROVE ClaimOf(u)'
  BY <1>a, <1>13 DEF Escape, Goto
<1>14. ASSUME NEW d \in Slot, CheckOverlap(d) PROVE ClaimOf(u)'
  BY <1>a, <1>14 DEF CheckOverlap, Goto
<1>15. ASSUME NEW d \in Slot, CreateRow(d) PROVE ClaimOf(u)'
  BY <1>a, <1>15 DEF CreateRow, Goto
<1>16. ASSUME NEW d \in Slot, LaunchOk(d) PROVE ClaimOf(u)'
  BY <1>a, <1>16 DEF LaunchOk, Goto
<1>17. ASSUME NEW d \in Slot, LaunchConflicts(d) PROVE ClaimOf(u)'
  BY <1>a, <1>17 DEF LaunchConflicts, Goto
<1>18. ASSUME NEW d \in Slot, LaunchError(d) PROVE ClaimOf(u)'
  BY <1>a, <1>18 DEF LaunchError, Goto
<1>19. ASSUME NEW d \in Slot, RowRunning(d) PROVE ClaimOf(u)'
  BY <1>a, <1>19 DEF RowRunning, Goto
<1>20. ASSUME NEW d \in Slot, CommitRunning(d) PROVE ClaimOf(u)'
  BY <1>a, <1>20 DEF CommitRunning, Goto
<1>21. ASSUME NEW d \in Slot, RowSettled(d) PROVE ClaimOf(u)'
  BY <1>a, <1>21 DEF RowSettled, Goto
<1>22. ASSUME NEW d \in Slot, LoadTask(d) PROVE ClaimOf(u)'
  <2>1. UNCHANGED <<tasks, row, dispatch, runs, poller, edit, proc, bounds, history>>
    BY <1>22 DEF LoadTask
  <2>2. CASE Goto(d, "done")
    BY <1>a, <2>1, <2>2 DEF Goto
  <2>3. CASE taskOf[d] # u
    <3>1. \A e \in Slot \ {d} : dpc'[e] = dpc[e] /\ dirty'[e] = dirty[e]
      BY <1>22, LoadCases DEF Goto, Open
    <3> QED BY <1>a, <2>1, <2>3, <3>1
  <2>4. CASE Exists(taskOf[d]) /\ taskOf[d] = u
    <3>1. PICK C \in SUBSET Column, p \in Writes :
            /\ Changed(d) \subseteq C /\ C \subseteq Changed(d) \cup {"next"}
            /\ Open(d, p, C) /\ dpc[d] # "done"
            /\ p = "writeLaunched" => dpc[d] = "taskLaunched"
      BY <1>22, <2>4, LoadCases
    <3>2. next[u] = "none" \/ "next" \in C
      BY <1>b, <2>4, <3>1 DEF Changed, Column
    <3>3. status[u] \in Held
      BY <1>1, <2>4, <3>1 DEF ClaimOf
    <3>4. p = "writeLaunched" => "status" \notin C
      <4> SUFFICES ASSUME p = "writeLaunched" PROVE "status" \notin Changed(d)
        BY <3>1
      <4>1. StatusFor(d) = "running"
        BY <1>b, <2>4, <3>1 DEF StatusFor
      <4>2. Protected(d) \/ status[u] = "running"
        BY <2>4, <3>1, <3>3 DEF Protected, Exists
      <4> QED BY <2>4, <4>1, <4>2 DEF Changed
    <3>5. dpc' = [dpc EXCEPT ![d] = p] /\ dirty' = [dirty EXCEPT ![d] = C]
      BY <3>1 DEF Open
    <3> QED BY <1>1, <2>1, <2>4, <3>2, <3>3, <3>4, <3>5 DEF ClaimOf
  <2> QED BY <1>22, <2>2, <2>3, <2>4, LoadCases
<1>23. ASSUME NEW d \in Slot, CommitTask(d) PROVE ClaimOf(u)'
  <2>1. /\ dpc[d] \in Writes /\ dpc' = [dpc EXCEPT ![d] = "done"] /\ UNCHANGED <<taskOf, batch>>
        /\ \A o \in Slot \ {d} : dirty'[o] = dirty[o]
        /\ status' = [status EXCEPT ![taskOf[d]] = IF "status" \in dirty[d] THEN StatusFor(d) ELSE @]
        /\ next' = [next EXCEPT ![taskOf[d]] = IF "next" \in dirty[d] THEN NextOf(d) ELSE @]
    BY <1>23 DEF CommitTask, Goto
  <2>2. CASE taskOf[d] = u
    <3>1. StatusFor(d) \in Held /\ NextOf(d) = "none"
      BY <1>b, <2>1, <2>2 DEF StatusFor, TerminalTask
    <3> QED BY <1>a, <2>1, <2>2, <3>1
  <2>3. CASE taskOf[d] # u
    BY <1>a, <2>1, <2>3
  <2> QED BY <2>2, <2>3
<1>24. ASSUME NEW d \in Slot, CommitGone(d) PROVE ClaimOf(u)'
  BY <1>a, <1>24 DEF CommitGone, Goto
<1>25. ASSUME NEW d \in Slot, RunEnds(d) PROVE ClaimOf(u)'
  BY <1>a, <1>25 DEF RunEnds
<1>26. ASSUME NEW d \in Slot, RunNeverRan(d) PROVE ClaimOf(u)'
  BY <1>a, <1>26 DEF RunNeverRan
<1>27. ASSUME NEW d \in Slot, HookRow(d) PROVE ClaimOf(u)'
  BY <1>a, <1>27 DEF HookRow
<1>28. ASSUME NEW d \in Slot, HookTask(d) PROVE ClaimOf(u)'
  <2>1. OnceStatus(run[d]) \in TerminalTask
    <3>1. run[d] \in {"success", "failed", "interrupted"}
      BY <1>28 DEF FlowInv, FlowOf, HookTask, Outcome
    <3> QED BY <3>1 DEF OnceStatus, TerminalTask
  <2> QED BY <1>a, <1>28, <2>1 DEF HookTask
<1>29. ASSUME NEW d \in Slot, HookError(d) PROVE ClaimOf(u)'
  BY <1>a, <1>29 DEF HookError
<1>30. CASE Exit
  BY <1>a, <1>30 DEF Exit
<1>31. CASE SweepRuns
  BY <1>a, <1>31 DEF SweepRuns
<1>32. CASE CancelStuck
  BY <1>a, <1>32 DEF CancelStuck, TerminalTask
<1> QED
  BY <1>2, <1>3, <1>4, <1>5, <1>6, <1>7, <1>8, <1>9, <1>10, <1>11, <1>12, <1>13, <1>14, <1>15, <1>16, <1>17, <1>18, <1>19, <1>20, <1>21, <1>22, <1>23, <1>24, <1>25, <1>26, <1>27, <1>28, <1>29, <1>30, <1>31, <1>32
  DEF Next, Client, Poll, Dispatch, Hook, Trouble, Restart

LEMMA OutcomeStep ==
  TypeOK /\ FlowInv /\ SettleInv /\ WorkInv /\ ClaimInv /\ OutcomeInv /\ [Next]_vars => OutcomeInv'
<1> DEFINE Recorded == {"rowRunning", "rowWriting", "taskLaunched", "writeLaunched", "done"}
<1> SUFFICES ASSUME TypeOK, FlowInv, SettleInv, WorkInv, ClaimInv, OutcomeInv, [Next]_vars, NEW g \in Slot, NEW u \in Once,
                    taskOf'[g] = u, touch'[u] \subseteq {"race"}, Launched(g)'
             PROVE  OutcomeOf(g)'
  BY DEF OutcomeInv, Calm
<1>0. touch[u] \subseteq {"race"} /\ u \in Task
  <2>1. u \in Task
    BY SchedulerAssumption
  <2> QED BY <2>1, TouchGrows
<1>b. \A d \in Slot : taskOf[d] = u => FlowOf(d) /\ WorkOf(d) /\ SettledOf(d)
  BY <1>0 DEF FlowInv, WorkInv, SettleInv, Sound
<1>c. \A d, e \in Slot : Pending(d) /\ Pending(e) => d = e
  BY DEF WorkInv, PollInv
<1>d. \A d \in Slot : taskOf[d] = u /\ dpc[d] # "done" => Pending(d) /\ budget = 0 /\ u \notin batch
  BY <1>0, <1>b DEF WorkOf, Pending
<1>e. \A f \in edit : f.task # u
  BY <1>0 DEF WorkInv, TaskInv
\* What holds of the launched dispatches of the task before the step.
<1>f. \A d \in Slot : taskOf[d] = u /\ Launched(d) =>
        /\ OutcomeOf(d) /\ trigger[d] = "scheduled" /\ dpc[d] \in Recorded
        /\ status[u] # "absent"
  <2> SUFFICES ASSUME NEW d \in Slot, taskOf[d] = u, Launched(d)
               PROVE  /\ OutcomeOf(d) /\ trigger[d] = "scheduled" /\ dpc[d] \in Recorded
                      /\ status[u] # "absent"
    OBVIOUS
  <2>1. OutcomeOf(d)
    BY <1>0 DEF OutcomeInv, Calm
  <2>2. trigger[d] = "scheduled" /\ status[u] # "absent"
    BY <1>0, <1>b DEF WorkOf
  <2>3. run[d] # "none" /\ dpc[d] \in DispatchPc \cup {"done"}
    BY DEF Launched, Outcome, TypeOK
  <2>4. dpc[d] \notin Early \cup {"rowFailed", "taskFailed", "writeFailed"}
    BY <1>b, <2>3 DEF FlowOf, SettledOf, Quiet
  <2> QED BY <2>1, <2>2, <2>3, <2>4 DEF DispatchPc, Early
<1> USE <1>0 DEF OutcomeOf, Launched, TypeOK, Outcome, Exists, tasks, dispatch, place, runs, poller, bounds, history
<1>1. CASE UNCHANGED vars
  BY <1>1, <1>f DEF vars
<1>2. ASSUME NEW t \in Task, Create(t) PROVE OutcomeOf(g)'
  BY <1>2, <1>f DEF Create
<1>3. ASSUME NEW t \in Task, Delete(t) PROVE OutcomeOf(g)'
  BY <1>3, <1>f DEF Delete
<1>4. ASSUME NEW t \in Task, BecomesDue(t) PROVE OutcomeOf(g)'
  BY <1>4, <1>f DEF BecomesDue
<1>5. ASSUME NEW t \in Task, LeaseExpires(t) PROVE OutcomeOf(g)'
  BY <1>5, <1>f DEF LeaseExpires
<1>6. ASSUME NEW t \in Task, NEW kind \in EditKind, CheckEdit(t, kind) PROVE OutcomeOf(g)'
  BY <1>6, <1>f DEF CheckEdit, Touch
<1>7. ASSUME NEW f \in edit, WriteEdit(f) PROVE OutcomeOf(g)'
  <2>1. status'[u] = status[u] /\ next'[u] = next[u] /\ UNCHANGED <<taskOf, run, hook, dpc, batch>>
    BY <1>7, <1>e DEF WriteEdit
  <2> QED BY <1>f, <2>1
<1>8. CASE PollCount
  BY <1>8, <1>f DEF PollCount
<1>9. CASE PollClaim
  <2>1. budget > 0 /\ batch' \subseteq {t \in Task : Claimable(t)} /\ UNCHANGED <<next, taskOf, run, hook, dpc>>
        /\ \A t \in Task : t \notin batch' => status'[t] = status[t]
    BY <1>9 DEF PollClaim
  <2>2. dpc[g] = "done"
    BY <1>d, <2>1, SchedulerAssumption
  <2>3. u \notin batch'
    BY <1>f, <2>1, <2>2 DEF Claimable, TerminalTask
  <2> QED BY <1>f, <2>1, <2>3
<1>10. ASSUME NEW d \in Slot, NEW t \in Task, PollDispatch(d, t) PROVE OutcomeOf(g)'
  BY <1>10, <1>f DEF PollDispatch, Start, Goto, Free, Attended
<1>11. ASSUME NEW d \in Slot, NEW t \in Task, Trigger(d, t) PROVE OutcomeOf(g)'
  <2>1. t # u
    BY <1>11 DEF Trigger, Touch
  <2>2. taskOf' = [taskOf EXCEPT ![d] = t] /\ UNCHANGED <<status, next, hook, batch>>
        /\ \A e \in Slot \ {d} : run'[e] = run[e] /\ dpc'[e] = dpc[e]
    BY <1>11 DEF Trigger, Start, Goto
  <2> QED BY <1>f, <2>1, <2>2
<1>12. ASSUME NEW d \in Slot, Escape(d) PROVE OutcomeOf(g)'
  BY <1>12, <1>f DEF Escape, Goto, Fault, Touch
<1>13. ASSUME NEW d \in Slot, CheckOverlap(d) PROVE OutcomeOf(g)'
  BY <1>13, <1>f DEF CheckOverlap, Goto
<1>14. ASSUME NEW d \in Slot, CreateRow(d) PROVE OutcomeOf(g)'
  BY <1>14, <1>f DEF CreateRow, Goto
<1>15. ASSUME NEW d \in Slot, LaunchOk(d) PROVE OutcomeOf(g)'
  <2>1. /\ dpc[d] = "launching" /\ dpc' = [dpc EXCEPT ![d] = "rowRunning"]
        /\ run' = [run EXCEPT ![d] = "live"] /\ UNCHANGED <<status, next, taskOf, hook, batch>>
    BY <1>15 DEF LaunchOk, Goto
  <2>2. CASE taskOf[d] # u
    BY <1>f, <2>1, <2>2
  <2>3. CASE taskOf[d] = u
    <3>1. ASSUME NEW e \in Slot, taskOf[e] = u, e # d PROVE dpc[e] = "done" /\ ~Launched(e)
      <4>1. dpc[e] = "done"
        BY <1>c, <1>d, <2>1, <2>3, <3>1
      <4>2. ~Launched(e)
        BY <1>f, <2>1, <2>3, <3>1
      <4> QED BY <4>1, <4>2
    <3>2. g = d
      BY <2>1, <3>1
    <3>3. u \notin batch
      BY <1>d, <2>1, <2>3
    <3> QED BY <2>1, <2>3, <3>1, <3>2, <3>3
  <2> QED BY <2>2, <2>3
<1>16. ASSUME NEW d \in Slot, LaunchConflicts(d) PROVE OutcomeOf(g)'
  BY <1>16, <1>f DEF LaunchConflicts, Goto
<1>17. ASSUME NEW d \in Slot, LaunchError(d) PROVE OutcomeOf(g)'
  BY <1>17, <1>f DEF LaunchError, Goto, Fault, Touch
<1>18. ASSUME NEW d \in Slot, RowRunning(d) PROVE OutcomeOf(g)'
  BY <1>18, <1>f DEF RowRunning, Goto, WriteRunning
<1>19. ASSUME NEW d \in Slot, LoadTask(d) PROVE OutcomeOf(g)'
  <2>1. UNCHANGED <<tasks, row, dispatch, runs, poller, edit, proc, bounds, history>>
    BY <1>19 DEF LoadTask
  <2>2. CASE Goto(d, "done") /\ ~Exists(taskOf[d])
    <3>1. taskOf[d] = u => next[u] = "none"
      BY <2>2 DEF WorkInv, TaskInv
    <3> QED BY <1>f, <2>1, <2>2, <3>1 DEF Goto
  <2>3. CASE \E C, p : dpc[d] # "done" /\ p # "done" /\ Open(d, p, C)
    BY <1>f, <2>1, <2>3 DEF Open
  <2> QED BY <1>19, <2>2, <2>3, LoadCases
<1>20. ASSUME NEW d \in Slot, RowSettled(d) PROVE OutcomeOf(g)'
  BY <1>20, <1>f DEF RowSettled, Goto
<1>21. ASSUME NEW d \in Slot, CommitTask(d) PROVE OutcomeOf(g)'
  <2>1. /\ dpc[d] \in Writes /\ dpc' = [dpc EXCEPT ![d] = "done"] /\ UNCHANGED <<taskOf, run, hook, batch>>
        /\ status' = [status EXCEPT ![taskOf[d]] = IF "status" \in dirty[d] THEN StatusFor(d) ELSE @]
        /\ next' = [next EXCEPT ![taskOf[d]] = IF "next" \in dirty[d] THEN NextOf(d) ELSE @]
    BY <1>21 DEF CommitTask, Goto
  <2>2. CASE taskOf[d] # u
    BY <1>f, <2>1, <2>2
  <2>3. CASE taskOf[d] = u
    <3>1. d = g
      BY <1>f, <2>1, <2>3 DEF Writes
    <3>2. dpc[d] = "writeLaunched"
      BY <1>f, <2>1, <3>1 DEF Writes
    <3>3. "status" \notin dirty[d] /\ ("next" \in dirty[d] \/ next[u] = "none")
      BY <2>1, <2>3, <3>2 DEF ClaimInv, ClaimOf, Calm
    <3>4. NextOf(d) = "none"
      BY <1>b, <1>d, <2>3, <3>2 DEF WorkOf, NextOf, Pending
    <3>5. status'[u] = status[u] /\ next'[u] = "none"
      BY <2>1, <2>3, <3>3, <3>4
    <3> QED BY <1>f, <2>1, <3>1, <3>5
  <2> QED BY <2>2, <2>3
<1>22. ASSUME NEW d \in Slot, RunEnds(d) PROVE OutcomeOf(g)'
  BY <1>22, <1>f DEF RunEnds
<1>23. ASSUME NEW d \in Slot, RunNeverRan(d) PROVE OutcomeOf(g)'
  BY <1>23, <1>f DEF RunNeverRan, Fault, Touch
<1>24. ASSUME NEW d \in Slot, HookRow(d) PROVE OutcomeOf(g)'
  BY <1>24, <1>f DEF Touch, HookRow
<1>25. ASSUME NEW d \in Slot, HookTask(d) PROVE OutcomeOf(g)'
  <2>1. hook[d] = "task" /\ hook' = [hook EXCEPT ![d] = "none"] /\ UNCHANGED <<next, taskOf, run, dpc, batch>>
    BY <1>25 DEF HookTask
  <2>2. CASE taskOf[d] # u
    <3>1. status'[u] = status[u] /\ d # g
      BY <1>25, <2>1, <2>2 DEF HookTask
    <3> QED BY <1>f, <2>1, <3>1
  <2>3. CASE taskOf[d] = u
    <3>1. d = g
      BY <1>b, <1>f, <2>1, <2>3 DEF FlowOf
    <3>2. run[g] \in {"success", "failed", "interrupted"}
      BY <1>b, <2>1, <2>3, <3>1 DEF FlowOf
    <3>3. OnceStatus(run[g]) \in TerminalTask
      BY <3>2 DEF OnceStatus, TerminalTask
    <3>4. IF Exists(u) THEN status'[u] = OnceStatus(run[g]) ELSE status'[u] = status[u]
      BY <1>25, <2>3, <3>1 DEF HookTask
    <3> QED BY <1>f, <2>1, <2>3, <3>1, <3>3, <3>4
  <2> QED BY <2>2, <2>3
<1>26. ASSUME NEW d \in Slot, HookError(d) PROVE OutcomeOf(g)'
  <2>1. /\ UNCHANGED <<status, next, taskOf, run, dpc, batch>>
        /\ hook' = [hook EXCEPT ![d] = "none"]
    BY <1>26 DEF HookError
  <2>2. hook'[g] = hook[g] \/ g = d
    BY <2>1
  <2>3. CASE g # d
    BY <1>f, <2>1, <2>2, <2>3
  <2>4. CASE g = d
    <3>1. "fault" \in touch'[u]
      BY <1>26, <2>4 DEF HookError, Fault, Touch
    <3> QED BY <3>1
  <2> QED BY <2>3, <2>4
<1>27. CASE Exit
  <2>1. UNCHANGED <<status, next, taskOf>> /\ batch' = {} /\ \A e \in Slot : dpc'[e] = "done" /\ (Launched(e)' => Launched(e))
    BY <1>27 DEF Exit
  <2>2. run[g] \in Outcome /\ hook[g] = "none" /\ run'[g] = run[g]
    BY <1>27 DEF Exit
  <2>3. OnceStatus(run[g]) \in TerminalTask
    BY <2>2 DEF OnceStatus, TerminalTask
  <2>4. Exists(u) \/ next[u] = "none"
    BY DEF WorkInv, TaskInv
  <2> QED BY <1>f, <2>1, <2>2, <2>3, <2>4
<1>28. CASE SweepRuns
  BY <1>28, <1>f DEF SweepRuns, Fault, Touch, Stale, ActiveRows
<1>29. CASE CancelStuck
  <2>1. status' = [t \in Task |-> IF t \in Stuck THEN "cancelled" ELSE status[t]] \/ status' = status
    BY <1>29 DEF CancelStuck
  <2>2. UNCHANGED <<next, taskOf, run, hook, dpc, batch>>
    BY <1>29 DEF CancelStuck
  <2>3. status'[u] = status[u] \/ (status[u] = "running" /\ status'[u] = "cancelled")
    BY <2>1 DEF Stuck
  <2>4. OnceStatus(run[g]) # "running" \/ run[g] \notin Outcome
    BY DEF OnceStatus
  <2> QED BY <1>f, <2>2, <2>3, <2>4 DEF TerminalTask
<1>31. ASSUME NEW d \in Slot, CommitRunning(d) PROVE OutcomeOf(g)'
  BY <1>31, <1>f DEF CommitRunning, Goto
<1>32. ASSUME NEW d \in Slot, CommitGone(d) PROVE OutcomeOf(g)'
  <2>1. taskOf[d] # u
    BY <1>32 DEF CommitGone, Touch
  <2> QED BY <1>32, <1>f, <2>1 DEF CommitGone, Goto
<1> QED
  BY <1>1, <1>2, <1>3, <1>4, <1>5, <1>6, <1>7, <1>8, <1>9, <1>10, <1>11, <1>12, <1>13, <1>14, <1>15, <1>16, <1>17, <1>18, <1>19, <1>20, <1>21, <1>22, <1>23, <1>24, <1>25, <1>26, <1>27, <1>28, <1>29, <1>31, <1>32
  DEF Next, Client, Poll, Dispatch, Hook, Trouble, Restart

-----------------------------------------------------------------------------
(* The theorems. *)

SchedulerInv ==
    /\ TypeOK /\ FlowInv /\ SettleInv
    /\ WorkInv /\ CapInv /\ OverlapInv /\ FiredInv /\ ClaimInv /\ OutcomeInv

\* The parts of the invariant hold initially and are kept together.
LEMMA Inductive == Spec => []SchedulerInv
<1>1. Init => SchedulerInv
  <2> SUFFICES ASSUME Init PROVE SchedulerInv
    OBVIOUS
  <2>1. FlowInv /\ SettleInv
    BY SchedulerAssumption DEF Init, FlowInv, FlowOf, SettleInv, SettledOf, ShownOf, Sound, Early, Quiet,
       ActiveRow, Outcome, Attended
  <2>2. WorkInv
    BY SchedulerAssumption DEF Init, WorkInv, WorkOf, PollInv, TaskInv, Pending, Attended, Exists
  <2>3. CapInv
    <3>1. Launches = {} /\ batch = {} /\ budget = 0
      BY DEF Init, Launches
    <3> QED BY <3>1, SchedulerAssumption, FS_EmptySet DEF CapInv
  <2>4. OverlapInv
    BY DEF Init, OverlapInv, OverlapOf, RunsOf
  <2>5. FiredInv
    BY SchedulerAssumption DEF Init, FiredInv, FiredOf
  <2>6. OutcomeInv
    BY DEF Init, OutcomeInv, Launched, Outcome
  <2>7. ClaimInv
    BY DEF Init, ClaimInv, ClaimOf
  <2> QED BY <2>1, <2>2, <2>3, <2>4, <2>5, <2>6, <2>7, TypeInit DEF SchedulerInv
<1>2. SchedulerInv /\ [Next]_vars => SchedulerInv'
  <2> SUFFICES ASSUME SchedulerInv, [Next]_vars PROVE SchedulerInv'
    OBVIOUS
  <2>1. /\ TypeOK /\ FlowInv /\ SettleInv
        /\ WorkInv /\ CapInv /\ OverlapInv /\ FiredInv /\ ClaimInv /\ OutcomeInv
    BY DEF SchedulerInv
  <2>2. TypeOK' /\ FlowInv' /\ SettleInv'
    BY <2>1, TypeStep, FlowStep, SettleStep
  <2>3. WorkInv'
    BY <2>1, WorkStep, PollStep, TaskStep DEF WorkInv
  <2>4. CapInv' /\ OverlapInv' /\ FiredInv' /\ ClaimInv' /\ OutcomeInv'
    BY <2>1, CapStep, OverlapStep, FiredStep, ClaimStep, OutcomeStep
  <2> QED BY <2>2, <2>3, <2>4 DEF SchedulerInv
<1> QED BY <1>1, <1>2, PTL DEF Spec

\* Tasks, their run rows, dispatches and hooks keep their types in every
\* execution of the scheduler: in particular the hook only ever writes the
\* status of a run that ended, to a row and to a once task.
THEOREM TypeCorrect == Spec => []TypeOK
<1>1. SchedulerInv => TypeOK
  BY DEF SchedulerInv
<1> QED BY <1>1, Inductive, PTL

\* In every execution, for every number of tasks and of open dispatches, an
\* active row that no fault struck has somebody who will settle it.
THEOREM ActiveRowsAttended == Spec => []ActiveRowAttended
<1>1. SchedulerInv => ActiveRowAttended
  <2> SUFFICES ASSUME TypeOK, FlowInv, SettleInv, NEW d \in Slot,
                      row[d] \in ActiveRow, proc = "up", Spared(d)
               PROVE  Attended(d)
    BY DEF SchedulerInv, ActiveRowAttended
  <2>1. Sound(d)
    BY DEF FlowInv, FlowOf, Sound, Spared, ActiveRow
  <2> QED BY <2>1 DEF SettleInv, SettledOf, ShownOf, Spared
<1> QED BY <1>1, Inductive, PTL

\* In every execution the row of a finished dispatch shows the outcome of its
\* run, whichever of launch bookkeeping and completion hook wrote last.
THEOREM RowsShowOutcome == Spec => []RowShowsOutcome
<1>1. SchedulerInv => RowShowsOutcome
  <2> SUFFICES ASSUME TypeOK, FlowInv, SettleInv, NEW d \in Slot,
                      ~Attended(d), run[d] \in Outcome, Spared(d)
               PROVE  row[d] = run[d]
    BY DEF SchedulerInv, RowShowsOutcome
  <2>1. Sound(d)
    BY DEF FlowInv, FlowOf, Sound, Spared, Outcome
  <2> QED BY <2>1 DEF SettleInv, SettledOf, ShownOf, Spared, Attended
<1> QED BY <1>1, Inductive, PTL

\* In every execution, for every number of tasks and open dispatches and every
\* limit, the active rows of scheduled dispatches stay within the limit: polls,
\* faults, exits and the clients' manual triggers notwithstanding.
THEOREM CapHolds == Spec => []ScheduledCap
<1>1. SchedulerInv => ScheduledCap
  <2> SUFFICES ASSUME TypeOK, CapInv PROVE ScheduledCap
    BY DEF SchedulerInv
  <2> DEFINE rows == {d \in ActiveRows : trigger[d] = "scheduled"}
  <2>1. rows \subseteq Launches /\ Launches \subseteq Slot /\ batch \subseteq Task
    BY DEF Launches, ActiveRows, TypeOK
  <2>2. IsFiniteSet(Launches) /\ IsFiniteSet(batch)
    BY <2>1, SchedulerAssumption, FS_Subset
  <2>3. /\ Cardinality(rows) <= Cardinality(Launches) /\ Cardinality(rows) \in Nat
        /\ Cardinality(Launches) \in Nat /\ Cardinality(batch) \in Nat
    BY <2>1, <2>2, FS_Subset, FS_CardinalityType
  <2>4. budget \in Nat
    BY SchedulerAssumption DEF TypeOK
  <2> HIDE DEF rows
  <2>5. Cardinality(rows) <= MaxConcurrent
    BY <2>3, <2>4, SchedulerAssumption DEF CapInv
  <2> QED BY <2>5 DEF ScheduledCap, rows
<1> QED BY <1>1, Inductive, PTL

\* In every execution the runs of a task do not overlap, on its thread or on
\* fresh ones, where no client triggered it and no fault struck it.
THEOREM RunsDoNotOverlap == Spec => []ScheduledRunsDoNotOverlap
<1>1. SchedulerInv => ScheduledRunsDoNotOverlap
  <2> SUFFICES ASSUME OverlapInv, NEW t \in Task, touch[t] \cap {"manual", "fault", "gone"} = {}
               PROVE  Cardinality(RunsOf(t)) <= 1
    BY DEF SchedulerInv, ScheduledRunsDoNotOverlap
  <2>1. \A d, e \in RunsOf(t) : d = e
    BY DEF OverlapInv, OverlapOf
  <2>2. CASE RunsOf(t) = {}
    BY <2>2, FS_EmptySet
  <2>3. CASE RunsOf(t) # {}
    <3>1. PICK d \in RunsOf(t) : TRUE
      BY <2>3
    <3>2. RunsOf(t) = {d}
      BY <2>1, <3>1
    <3>3. Cardinality({d}) = 1
      BY FS_Singleton
    <3> QED BY <3>2, <3>3
  <2> QED BY <2>2, <2>3
<1> QED BY <1>1, Inductive, PTL

\* In every execution a once task is launched once each time it is armed, with
\* at most one failing write and no exit; and an undisturbed one takes the
\* status of its outcome, across exits and restarts.
THEOREM OnceTasksHold == Spec => []OnceTaskHolds
<1>1. SchedulerInv => OnceFiresOnce
  BY DEF SchedulerInv, OnceFiresOnce, FiredInv, FiredOf
<1>2. SchedulerInv => OnceShowsOutcome
  BY DEF SchedulerInv, OnceShowsOutcome, OutcomeInv, OutcomeOf, Calm, Launched, Attended
<1>3. SchedulerInv => OnceTaskHolds
  BY <1>1, <1>2 DEF OnceTaskHolds
<1> QED BY <1>3, Inductive, PTL
=============================================================================
