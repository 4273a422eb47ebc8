---------------------------- MODULE RunLifecycle ----------------------------
(***************************************************************************)
(* Runs of the gateway: how start_run admits a run to a thread through     *)
(* RunManager.create_or_reject, how the background task run_agent executes *)
(* it, and what cancellation, a replacing run, a failing store, a drain at *)
(* shutdown, a crash and the restart's reconciliation do to it.            *)
(*                                                                         *)
(* One step is the code between two awaits that can really suspend.  The   *)
(* manager's asyncio lock is free in every state but those in which        *)
(* create_or_reject awaits the store under it, so a critical section       *)
(* without such an await is one step that needs the lock free.             *)
(***************************************************************************)
EXTENDS Naturals

CONSTANTS
    Run,            \* the runs that clients may request
    Thread,         \* conversation threads
    ThreadOf,       \* the thread each run is requested on
    None,           \* nobody
    Prior,          \* the work a thread's checkpoint may hold at the start
    MaxCancels,     \* bound on effective client cancellations
    MaxExits,       \* bound on process exits, orderly or by a crash
    MaxFailures,    \* bound on failures of the stores and of launches
    StreamsSurvive, \* is the stream bridge external to the process (Redis)
    Databases       \* database backends that outlive the process

ASSUME RunAssumption ==
    /\ ThreadOf \in [Run -> Thread]
    /\ None \notin Run
    /\ Prior \notin Run
ASSUME BoundAssumption ==
    /\ MaxCancels \in Nat
    /\ MaxExits \in Nat
    /\ MaxFailures \in Nat
    /\ StreamsSurvive \in BOOLEAN
    /\ Databases \subseteq {"sqlite", "postgres"}

Active    == {"pending", "running"}
Terminal  == {"success", "error", "interrupted"}
Status    == Active \cup Terminal
Action    == {"interrupt", "rollback"}
Strategy  == {"reject"} \cup Action
Work      == Run \cup {Prior}

\* Where a run is: its start_run handler, then its run_agent task.
RequestPc == {"creating", "notifying", "preparing", "attaching"}
BodyPc    == {"waiting", "marking", "savingRunning", "snapshotting",
              "streaming", "finishing", "raised", "aborting", "settling"}
FinalPc   == {"savingFinal", "savingAbort", "rollingBack", "closing",
              "titleWait", "titleWrite", "threadStatus", "clearing",
              "publishing"}
TaskPc    == {"scheduled"} \cup BodyPc \cup FinalPc
StoppedPc == {"idle", "refused", "failed", "abandoned", "neverRan", "done",
              "lost"}

VARIABLES
    \* RunManager: the records and the lock
    mem, finalizing, abort, ticket, clock, lock, strategy,
    \* the asyncio task of each run
    pc, cancelReq, snap, snapWork, base,
    \* interrupted statuses on their way to the store
    persisting,
    \* the durable stores: run rows, checkpoint heads, thread rows
    row, ckpt, threadStatus, failures,
    \* the event stream of each run
    stream,
    \* the process, and the database of the deployment
    proc, drained, cancels, exits, database,
    \* history: cancelled without a task; a status write was lost
    detached, lossy

records == <<mem, finalizing, abort, cancelReq, detached>>
index   == <<ticket, clock, lock, strategy>>
local   == <<snap, snapWork, base>>
stores  == <<row, lossy, failures, persisting>>
threads == <<ckpt, threadStatus>>
process == <<proc, drained, cancels, exits, database>>
vars    == <<records, index, pc, local, stores, threads, stream, process>>

-----------------------------------------------------------------------------
(* Views of the state. *)

InIndex(r)    == mem[r] # "absent"
TaskActive(r) == pc[r] \in TaskPc
Earlier(p, r) == /\ InIndex(p) /\ InIndex(r)
                 /\ ThreadOf[p] = ThreadOf[r]
                 /\ ticket[p] < ticket[r]

\* The records create_or_reject finds in flight on thread t.
Inflight(t) == {r \in Run : ThreadOf[r] = t /\ (mem[r] \in Active \/ finalizing[r])}

\* Mutation: the scan for older runs looks at those after the current one.
PriorFinalizingAfter(r) == \E q \in Run : Earlier(r, q) /\ finalizing[q]

PriorFinalizing(r)  == \E p \in Run : Earlier(p, r) /\ finalizing[p]
LaterStartedRun(r)  == \E q \in Run : Earlier(r, q) /\ (mem[q] # "pending" \/ finalizing[q])

\* One of the bounded failures of a store or of a launch.
Fail == failures < MaxFailures /\ failures' = failures + 1

\* A store write of value v to row r: it lands, or is lost after its retries.
WriteRow(r, v) ==
    \/ row' = [row EXCEPT ![r] = v] /\ UNCHANGED <<lossy, failures>>
    \/ Fail /\ lossy' = [lossy EXCEPT ![r] = TRUE] /\ UNCHANGED row

Goto(r, p) == pc' = [pc EXCEPT ![r] = p]

\* The body shared by cancel() and create_or_reject for the records in V.
Interrupt(V, action) ==
    /\ abort' = [r \in Run |-> IF r \in V THEN action ELSE abort[r]]
    /\ finalizing' = [r \in Run |-> IF r \in V THEN TaskActive(r) ELSE finalizing[r]]
    /\ cancelReq' = [r \in Run |-> cancelReq[r] \/ (r \in V /\ TaskActive(r))]
    /\ detached' = [r \in Run |-> detached[r] \/ (r \in V /\ ~TaskActive(r))]

-----------------------------------------------------------------------------
Init ==
    /\ mem = [r \in Run |-> "absent"]
    /\ finalizing = [r \in Run |-> FALSE]
    /\ abort = [r \in Run |-> "none"]
    /\ cancelReq = [r \in Run |-> FALSE]
    /\ detached = [r \in Run |-> FALSE]
    /\ ticket = [r \in Run |-> 0]
    /\ clock = 0
    /\ lock = None
    /\ strategy = [r \in Run |-> "reject"]
    /\ pc = [r \in Run |-> "idle"]
    /\ snap = [r \in Run |-> "unset"]
    /\ snapWork = [r \in Run |-> {}]
    /\ base = [r \in Run |-> {}]
    /\ row = [r \in Run |-> "none"]
    /\ lossy = [r \in Run |-> FALSE]
    /\ failures = 0
    /\ persisting = {}
    /\ ckpt \in [Thread -> {{}, {Prior}}]
    /\ threadStatus = [t \in Thread |-> "none"]
    /\ stream = [r \in Run |-> "none"]
    /\ proc = "up"
    /\ drained = {}
    /\ cancels = 0
    /\ exits = 0
    /\ database \in Databases

-----------------------------------------------------------------------------
(* start_run: the request handler of a run. *)

\* create_or_reject up to its await: the record is inserted under the lock.
CreateBegin(r, s) ==
    /\ proc = "up" /\ pc[r] = "idle" /\ lock = None
    /\ s = "reject" => Inflight(ThreadOf[r]) = {}
    /\ lock' = r
    /\ mem' = [mem EXCEPT ![r] = "pending"]
    /\ ticket' = [ticket EXCEPT ![r] = clock + 1]
    /\ clock' = clock + 1
    /\ strategy' = [strategy EXCEPT ![r] = s]
    /\ Goto(r, "creating")
    /\ UNCHANGED <<finalizing, abort, cancelReq, detached, local, stores, threads, stream, process>>

\* ConflictError: the thread has a run in flight.
CreateConflict(r) ==
    /\ proc = "up" /\ pc[r] = "idle" /\ lock = None
    /\ Inflight(ThreadOf[r]) # {}
    /\ Goto(r, "refused")
    /\ UNCHANGED <<records, index, local, stores, threads, stream, process>>

\* Mutation: runs that are still pending are not replaced.
ReplacedRunning(r) ==
    IF strategy[r] = "reject" THEN {}
    ELSE {v \in Inflight(ThreadOf[r]) \ {r} : mem[v] = "running" /\ ~finalizing[v]}

\* The runs a replacing run interrupts: those in flight and not yet cleaning up.
Replaced(r) ==
    IF strategy[r] = "reject" THEN {}
    ELSE {v \in Inflight(ThreadOf[r]) \ {r} : ~finalizing[v]}

\* The row is stored: interrupt what the strategy replaces, release the lock.
CreateCommit(r) ==
    /\ lock = r
    /\ row' = [row EXCEPT ![r] = "pending"]
    /\ Interrupt(Replaced(r), strategy[r])
    /\ mem' = [v \in Run |-> IF v \in Replaced(r) THEN "interrupted" ELSE mem[v]]
    /\ persisting' = persisting \cup ({r} \X Replaced(r))
    /\ lock' = None
    /\ strategy' = [strategy EXCEPT ![r] = "reject"]
    /\ Goto(r, "notifying")
    /\ UNCHANGED <<ticket, clock, lossy, failures, local, threads, stream, process>>

\* The store write failed or was cancelled: the record is dropped again.  A
\* write cancelled after its commit leaves a row nobody owns.
CreateFails(r) ==
    /\ Fail /\ lock = r
    /\ \/ UNCHANGED <<row, lossy>>
       \/ /\ row' = [row EXCEPT ![r] = "pending"]
          /\ lossy' = [lossy EXCEPT ![r] = TRUE]
    /\ mem' = [mem EXCEPT ![r] = "absent"]
    /\ lock' = None
    /\ strategy' = [strategy EXCEPT ![r] = "reject"]
    /\ Goto(r, "failed")
    /\ UNCHANGED <<finalizing, abort, cancelReq, detached, ticket, clock,
                   persisting, local, threads, stream, process>>

\* A status write of cancel() (w[1] = None) or of the replacing run w[1] ends.
PersistInterrupted(w) ==
    /\ w \in persisting
    /\ persisting' = persisting \ {w}
    /\ WriteRow(w[2], "interrupted")
    /\ UNCHANGED <<records, index, pc, local, threads, stream, process>>

Notified(r) ==
    /\ pc[r] = "notifying"
    /\ \A w \in persisting : w[1] # r
    /\ Goto(r, "preparing")
    /\ UNCHANGED <<records, index, local, stores, threads, stream, process>>

\* The thread row is created, or marked running; a failure is not fatal.
PrepareThread(r) ==
    LET t == ThreadOf[r] IN
    /\ pc[r] = "preparing"
    /\ \/ /\ threadStatus' = [threadStatus EXCEPT ![t] = IF @ = "none" THEN "idle" ELSE "running"]
          /\ UNCHANGED failures
       \/ Fail /\ UNCHANGED threadStatus
    /\ Goto(r, "attaching")
    /\ UNCHANGED <<records, index, local, row, lossy, persisting, ckpt, stream, process>>

\* The rest of start_run raises (say, an unknown checkpoint): no task is made.
LaunchFails(r) ==
    /\ Fail /\ pc[r] = "attaching"
    /\ Goto(r, "abandoned")
    /\ UNCHANGED <<records, index, local, row, lossy, persisting, threads, stream, process>>

Attach(r) ==
    /\ pc[r] = "attaching"
    /\ Goto(r, "scheduled")
    /\ UNCHANGED <<records, index, local, stores, threads, stream, process>>

-----------------------------------------------------------------------------
(* Cancellation by a client: the cancel endpoint, or a consumer that       *)
(* disconnects from a run with on_disconnect = cancel.                     *)

Cancel(r, action) ==
    /\ proc = "up" /\ lock = None
    /\ cancels < MaxCancels
    /\ mem[r] \in Active
    /\ Interrupt({r}, action)
    /\ mem' = [mem EXCEPT ![r] = "interrupted"]
    /\ persisting' = persisting \cup {<<None, r>>}
    /\ cancels' = cancels + 1
    /\ UNCHANGED <<index, pc, row, lossy, failures, local, threads, stream, proc, drained, exits, database>>

-----------------------------------------------------------------------------
(* run_agent: the background task. *)

\* A task cancelled before its first step never enters run_agent's body.
NeverStarts(r) ==
    /\ pc[r] = "scheduled" /\ cancelReq[r]
    /\ Goto(r, "neverRan")
    /\ cancelReq' = [cancelReq EXCEPT ![r] = FALSE]
    /\ UNCHANGED <<mem, finalizing, abort, detached, index, local, stores, threads, stream, process>>

Starts(r) ==
    /\ pc[r] = "scheduled" /\ ~cancelReq[r]
    /\ Goto(r, "waiting")
    /\ UNCHANGED <<records, index, local, stores, threads, stream, process>>

\* A poll of wait_for_prior_finalizing that finds nothing left to wait for.
PriorSettled(r) ==
    /\ pc[r] = "waiting" /\ ~cancelReq[r] /\ lock = None
    /\ ~PriorFinalizing(r)
    /\ Goto(r, "marking")
    /\ UNCHANGED <<records, index, local, stores, threads, stream, process>>

MarkRunning(r) ==
    /\ pc[r] = "marking" /\ ~cancelReq[r] /\ lock = None
    /\ mem' = [mem EXCEPT ![r] = "running"]
    /\ Goto(r, "savingRunning")
    /\ UNCHANGED <<finalizing, abort, cancelReq, detached, index, local, stores, threads, stream, process>>

SaveRunning(r) ==
    /\ pc[r] = "savingRunning" /\ ~cancelReq[r]
    /\ WriteRow(r, "running")
    /\ Goto(r, "snapshotting")
    /\ UNCHANGED <<records, index, persisting, local, threads, stream, process>>

\* The pre-run checkpoint is captured, the metadata event opens the stream and
\* the graph loads the head it will build on.
Snapshot(r) ==
    LET head == ckpt[ThreadOf[r]] IN
    /\ pc[r] = "snapshotting" /\ ~cancelReq[r]
    /\ \/ /\ snap' = [snap EXCEPT ![r] = IF head = {} THEN "none" ELSE "taken"]
          /\ UNCHANGED failures
       \/ Fail /\ snap' = [snap EXCEPT ![r] = "failed"]
    /\ snapWork' = [snapWork EXCEPT ![r] = head]
    /\ base' = [base EXCEPT ![r] = head]
    /\ stream' = [stream EXCEPT ![r] = "open"]
    /\ Goto(r, "streaming")
    /\ UNCHANGED <<records, index, row, lossy, persisting, threads, process>>

\* The graph checkpoints its progress and yields a chunk; the loop breaks on
\* the chunk if an abort was requested.
StreamChunk(r) ==
    /\ pc[r] = "streaming" /\ ~cancelReq[r]
    /\ ckpt' = [ckpt EXCEPT ![ThreadOf[r]] = base[r] \cup {r}]
    /\ Goto(r, IF abort[r] = "none" THEN "streaming" ELSE "finishing")
    /\ UNCHANGED <<records, index, local, stores, threadStatus, stream, process>>

StreamEnds(r) ==
    /\ pc[r] = "streaming" /\ ~cancelReq[r]
    /\ Goto(r, "finishing")
    /\ UNCHANGED <<records, index, local, stores, threads, stream, process>>

\* A hidden goal turn streams again from the thread's current head.
GoalTurn(r) ==
    /\ pc[r] = "streaming" /\ ~cancelReq[r] /\ abort[r] = "none"
    /\ base' = [base EXCEPT ![r] = ckpt[ThreadOf[r]]]
    /\ UNCHANGED <<records, index, pc, snap, snapWork, stores, threads, stream, process>>

StreamRaises(r) ==
    /\ pc[r] \in {"snapshotting", "streaming"} /\ ~cancelReq[r]
    /\ Goto(r, "raised")
    /\ UNCHANGED <<records, index, local, stores, threads, stream, process>>

\* The final status of a run nobody aborted: success, or error on a fallback.
FinalStatus(r) ==
    /\ pc[r] = "finishing" /\ ~cancelReq[r] /\ lock = None /\ abort[r] = "none"
    /\ \E s \in {"success", "error"} : mem' = [mem EXCEPT ![r] = s]
    /\ Goto(r, "savingFinal")
    /\ UNCHANGED <<finalizing, abort, cancelReq, detached, index, local, stores, threads, stream, process>>

FinalAborted(r) ==
    /\ pc[r] = "finishing" /\ ~cancelReq[r] /\ abort[r] # "none"
    /\ Goto(r, "aborting")
    /\ UNCHANGED <<records, index, local, stores, threads, stream, process>>

\* except Exception: the run ends in error.
MarkError(r) ==
    /\ pc[r] = "raised" /\ ~cancelReq[r] /\ lock = None
    /\ mem' = [mem EXCEPT ![r] = "error"]
    /\ Goto(r, "savingFinal")
    /\ UNCHANGED <<finalizing, abort, cancelReq, detached, index, local, stores, threads, stream, process>>

\* CancelledError surfaces at the await the task is suspended in.  In the
\* except Exception handler it goes straight to the finally block.  The running
\* status on its way to the store may or may not have landed.
DeliverCancel(r) ==
    /\ pc[r] \in BodyPc /\ cancelReq[r]
    /\ cancelReq' = [cancelReq EXCEPT ![r] = FALSE]
    /\ \/ UNCHANGED row
       \/ pc[r] = "savingRunning" /\ row' = [row EXCEPT ![r] = "running"]
    /\ Goto(r, IF pc[r] = "raised" THEN "closing" ELSE "aborting")
    /\ UNCHANGED <<mem, finalizing, abort, detached, index, local, lossy,
                   failures, persisting, threads, stream, process>>

BeginFinalizing(r) ==
    /\ pc[r] = "aborting" /\ ~cancelReq[r] /\ lock = None
    /\ finalizing' = [finalizing EXCEPT ![r] = TRUE]
    /\ Goto(r, "settling")
    /\ UNCHANGED <<mem, abort, cancelReq, detached, index, local, stores, threads, stream, process>>

MarkAborted(r) ==
    /\ pc[r] = "settling" /\ ~cancelReq[r] /\ lock = None
    /\ mem' = [mem EXCEPT ![r] = IF abort[r] = "rollback" THEN "error" ELSE "interrupted"]
    /\ Goto(r, "savingAbort")
    /\ UNCHANGED <<finalizing, abort, cancelReq, detached, index, local, stores, threads, stream, process>>

SaveFinal(r) ==
    /\ pc[r] \in {"savingFinal", "savingAbort"}
    /\ WriteRow(r, mem[r])
    /\ Goto(r, IF pc[r] = "savingAbort" /\ abort[r] = "rollback" THEN "rollingBack" ELSE "closing")
    /\ UNCHANGED <<records, index, persisting, local, threads, stream, process>>

\* Mutation: a failed capture is taken for an empty thread.
RestoredHeadUnguarded(r) == IF snap[r] = "taken" THEN snapWork[r] ELSE {}

\* What the rollback leaves as the thread's head.  No snapshot reads as an
\* empty thread, whether it was captured empty or never captured.
RestoredHead(r) ==
    CASE snap[r] = "failed"           -> ckpt[ThreadOf[r]]
      [] snap[r] \in {"unset", "none"} -> {}
      [] snap[r] = "taken"            -> snapWork[r]

Rollback(r) ==
    /\ pc[r] = "rollingBack"
    /\ \/ ckpt' = [ckpt EXCEPT ![ThreadOf[r]] = RestoredHead(r)] /\ UNCHANGED failures
       \/ Fail /\ UNCHANGED ckpt
    /\ Goto(r, "closing")
    /\ UNCHANGED <<records, index, local, row, lossy, persisting, threadStatus, stream, process>>

-----------------------------------------------------------------------------
(* run_agent's finally block. *)

\* The completion row carries the status read at the call; without a journal,
\* or with a failing store, nothing is written.  The snapshot is not read again.
Complete(r) ==
    /\ pc[r] = "closing"
    /\ row' \in {row, [row EXCEPT ![r] = mem[r]]}
    /\ snap' = [snap EXCEPT ![r] = "unset"]
    /\ snapWork' = [snapWork EXCEPT ![r] = {}]
    /\ base' = [base EXCEPT ![r] = {}]
    /\ Goto(r, IF mem[r] = "interrupted" THEN "titleWait" ELSE "threadStatus")
    /\ UNCHANGED <<records, index, lossy, failures, persisting, threads, stream, process>>

\* The interrupted title waits for older cleanups, and is left to a newer run
\* that may already have advanced the thread; otherwise the head is read.
TitleRead(r) ==
    /\ pc[r] = "titleWait" /\ lock = None
    /\ ~PriorFinalizing(r)
    /\ IF LaterStartedRun(r)
       THEN Goto(r, "threadStatus") /\ UNCHANGED base
       ELSE Goto(r, "titleWrite") /\ base' = [base EXCEPT ![r] = ckpt[ThreadOf[r]]]
    /\ UNCHANGED <<records, index, snap, snapWork, stores, threads, stream, process>>

\* The head that was read is written back with a title, or nothing is written.
TitleWrite(r) ==
    /\ pc[r] = "titleWrite"
    /\ \/ ckpt' = [ckpt EXCEPT ![ThreadOf[r]] = base[r]]
       \/ UNCHANGED ckpt
    /\ base' = [base EXCEPT ![r] = {}]
    /\ Goto(r, "threadStatus")
    /\ UNCHANGED <<records, index, snap, snapWork, stores, threadStatus, stream, process>>

\* Mutation: the run's status is written as it is.
RawOutcome(r) == mem[r]

ThreadOutcome(r) == IF mem[r] = "success" THEN "idle" ELSE mem[r]

UpdateThread(r) ==
    /\ pc[r] = "threadStatus"
    /\ \/ /\ threadStatus' = [threadStatus EXCEPT ![ThreadOf[r]] = IF @ = "none" THEN @ ELSE ThreadOutcome(r)]
          /\ UNCHANGED failures
       \/ Fail /\ UNCHANGED threadStatus
    /\ Goto(r, "clearing")
    /\ UNCHANGED <<records, index, local, row, lossy, persisting, ckpt, stream, process>>

\* Mutation: the finally block leaves the flag raised.
EndFinalizingForgotten(r) ==
    /\ pc[r] = "clearing"
    /\ Goto(r, "publishing")
    /\ UNCHANGED <<records, index, local, stores, threads, stream, process>>

EndFinalizing(r) ==
    /\ pc[r] = "clearing" /\ (finalizing[r] => lock = None)
    /\ finalizing' = [finalizing EXCEPT ![r] = FALSE]
    /\ Goto(r, "publishing")
    /\ UNCHANGED <<mem, abort, cancelReq, detached, index, local, stores, threads, stream, process>>

PublishEnd(r) ==
    /\ pc[r] = "publishing"
    /\ stream' = [stream EXCEPT ![r] = "ended"]
    /\ Goto(r, "done")
    /\ UNCHANGED <<records, index, local, stores, threads, process>>

-----------------------------------------------------------------------------
(* The process: drain, exit, crash, restart. *)

\* RunManager.shutdown marks the runs in flight, once the handlers are done.
Shutdown ==
    LET V == {r \in Run : mem[r] \in Active /\ TaskActive(r)} IN
    /\ proc = "up" /\ exits < MaxExits
    /\ lock = None /\ persisting = {} /\ \A r \in Run : pc[r] \notin RequestPc
    /\ proc' = "draining"
    /\ drained' = V
    /\ abort' = [r \in Run |-> IF r \in V THEN "interrupt" ELSE abort[r]]
    /\ cancelReq' = [r \in Run |-> cancelReq[r] \/ r \in V]
    /\ UNCHANGED <<mem, finalizing, detached, index, pc, local, stores, threads, stream, cancels, exits, database>>

\* The drained runs whose task is pending or ended cancelled, and those that
\* ended still active.
Unsettled == {r \in drained : \/ TaskActive(r) \/ pc[r] = "neverRan"
                              \/ pc[r] = "done" /\ mem[r] \in Active}

\* The drain ends because its tasks did, or on its timeout.  What it finds
\* unsettled and still active is marked interrupted; the bounded persistence
\* covers all such runs, or is cut short.
DrainEnds ==
    /\ proc = "draining" /\ lock = None
    /\ proc' = IF \E r \in drained : TaskActive(r) THEN "closedLate" ELSE "closed"
    /\ mem' = [r \in Run |-> IF r \in Unsettled /\ mem[r] \in Active THEN "interrupted" ELSE mem[r]]
    /\ \/ /\ row' = [r \in Run |-> IF r \in Unsettled THEN "interrupted" ELSE row[r]]
          /\ UNCHANGED lossy
       \/ /\ Unsettled # {}
          /\ lossy' = [r \in Run |-> lossy[r] \/ r \in Unsettled]
          /\ UNCHANGED row
    /\ UNCHANGED <<finalizing, abort, cancelReq, detached, index, pc, local, failures,
                   persisting, threads, stream, drained, cancels, exits, database>>

\* The process is gone, after its drain or in the middle of anything.
Exit ==
    /\ proc # "down" /\ exits < MaxExits
    /\ exits' = exits + 1
    /\ proc' = "down"
    /\ drained' = {}
    /\ mem' = [r \in Run |-> "absent"]
    /\ finalizing' = [r \in Run |-> FALSE]
    /\ abort' = [r \in Run |-> "none"]
    /\ cancelReq' = [r \in Run |-> FALSE]
    /\ detached' = [r \in Run |-> FALSE]
    /\ lock' = None
    /\ persisting' = {}
    /\ pc' = [r \in Run |-> IF pc[r] = "idle" THEN "idle" ELSE "lost"]
    /\ snap' = [r \in Run |-> "unset"]
    /\ snapWork' = [r \in Run |-> {}]
    /\ base' = [r \in Run |-> {}]
    /\ stream' = IF StreamsSurvive THEN stream ELSE [r \in Run |-> "none"]
    /\ strategy' = [r \in Run |-> "reject"]
    /\ UNCHANGED <<ticket, clock, row, lossy, failures, threads, cancels, database>>

\* Mutation: only running rows are reconciled.
OrphansRunning == {r \in Run : row[r] = "running"}

\* The rows list_inflight returns at startup.
Orphans == {r \in Run : row[r] \in Active}

\* Orphaned rows become errors, their retained streams are ended, and a thread
\* whose newest run was recovered is marked error; what fails on the way is
\* logged and left.
Reconcile ==
    LET newest(r) == \A q \in Run :
            (ThreadOf[q] = ThreadOf[r] /\ row[q] # "none") => ticket[q] <= ticket[r]
    IN
    \E failed, unended \in SUBSET Orphans, unmarked \in SUBSET Thread :
        LET recovered == Orphans \ failed IN
        /\ IF failed \cup unended \cup unmarked = {} THEN UNCHANGED failures ELSE Fail
        /\ row' = [r \in Run |-> IF r \in recovered THEN "error" ELSE row[r]]
        /\ lossy' = [r \in Run |-> lossy[r] \/ r \in failed]
        /\ stream' = [r \in Run |-> IF r \in recovered \ unended /\ stream[r] # "none"
                                    THEN "ended" ELSE stream[r]]
        /\ threadStatus' = [t \in Thread |->
              IF /\ t \notin unmarked /\ threadStatus[t] # "none"
                 /\ \E r \in recovered : ThreadOf[r] = t /\ newest(r)
              THEN "error" ELSE threadStatus[t]]

\* Startup: what a dead process left is reconciled on SQLite, and only there.
Restart ==
    /\ proc = "down"
    /\ proc' = "up"
    /\ IF database = "sqlite" THEN Reconcile
       ELSE UNCHANGED <<row, lossy, failures, stream, threadStatus>>
    /\ UNCHANGED <<records, index, pc, local, persisting, ckpt, drained, cancels, exits, database>>

-----------------------------------------------------------------------------
Request(r) ==
    \/ \E s \in Strategy : CreateBegin(r, s)
    \/ CreateConflict(r)

\* The handler of an admitted run: it always moves on.
Handler(r) ==
    \/ CreateCommit(r) \/ CreateFails(r)
    \/ \E o \in Run \cup {None} : PersistInterrupted(<<o, r>>)
    \/ Notified(r) \/ PrepareThread(r) \/ LaunchFails(r) \/ Attach(r)

Finally(r) ==
    \/ Complete(r) \/ TitleRead(r) \/ TitleWrite(r) \/ UpdateThread(r)
    \/ EndFinalizing(r) \/ PublishEnd(r)

\* The steps of a task that the event loop and its awaits always complete.
Task(r) ==
    \/ NeverStarts(r) \/ Starts(r) \/ PriorSettled(r) \/ MarkRunning(r)
    \/ SaveRunning(r) \/ Snapshot(r) \/ FinalStatus(r) \/ FinalAborted(r)
    \/ MarkError(r) \/ DeliverCancel(r) \/ BeginFinalizing(r) \/ MarkAborted(r)
    \/ SaveFinal(r) \/ Rollback(r) \/ Finally(r)

\* What the graph does of its own accord.
Graph(r) == StreamChunk(r) \/ StreamEnds(r) \/ GoalTurn(r) \/ StreamRaises(r)

Step(r) ==
    \/ Handler(r) /\ proc = "up"
    \/ Request(r)
    \/ \E a \in Action : Cancel(r, a)
    \/ (Task(r) \/ Graph(r)) /\ proc # "down"

Next == (\E r \in Run : Step(r)) \/ Shutdown \/ DrainEnds \/ Exit \/ Restart

Spec == Init /\ [][Next]_vars

(* Fairness: the event loop resumes every coroutine whose await is over, and *)
(* a graph stream ends (the recursion limit and the provider timeouts bound  *)
(* it).  Requests, cancellations, crashes and restarts need never happen.    *)
FairSpec ==
    /\ Spec
    /\ \A r \in Run :
        /\ WF_vars(Handler(r) /\ proc = "up")
        /\ WF_vars(Task(r) /\ proc # "down")
        /\ WF_vars(StreamEnds(r) /\ proc # "down")

-----------------------------------------------------------------------------
(* Properties. *)

\* The pcs of a task that is past wait_for_prior_finalizing and not aborted.
GraphPc == {"marking", "savingRunning", "snapshotting", "streaming", "finishing"}

RecordsOK ==
    /\ mem \in [Run -> Status \cup {"absent"}]
    /\ finalizing \in [Run -> BOOLEAN]
    /\ abort \in [Run -> Action \cup {"none"}]
    /\ cancelReq \in [Run -> BOOLEAN]
    /\ detached \in [Run -> BOOLEAN]

IndexOK ==
    /\ ticket \in [Run -> Nat]
    /\ clock \in Nat
    /\ lock \in Run \cup {None}
    /\ strategy \in [Run -> Strategy]

LocalOK ==
    /\ pc \in [Run -> RequestPc \cup TaskPc \cup StoppedPc]
    /\ snap \in [Run -> {"unset", "none", "taken", "failed"}]
    /\ snapWork \in [Run -> SUBSET Work]
    /\ base \in [Run -> SUBSET Work]

StoresOK ==
    /\ row \in [Run -> Status \cup {"none", "absent"}]
    /\ lossy \in [Run -> BOOLEAN]
    /\ failures \in 0..MaxFailures
    /\ persisting \subseteq (Run \cup {None}) \X Run

ThreadsOK ==
    /\ ckpt \in [Thread -> SUBSET Work]
    /\ threadStatus \in [Thread -> (Status \ {"success"}) \cup {"none", "idle", "absent"}]
    /\ stream \in [Run -> {"none", "open", "ended"}]

ProcessOK ==
    /\ proc \in {"up", "draining", "closed", "closedLate", "down"}
    /\ drained \subseteq Run
    /\ database \in Databases
    /\ cancels \in 0..MaxCancels
    /\ exits \in 0..MaxExits

\* Every variable ranges over the values the code can give it.
TypeOK ==
    RecordsOK /\ IndexOK /\ LocalOK /\ StoresOK /\ ThreadsOK /\ ProcessOK

\* A run that executes its graph has no older run of its thread still in its
\* post-cancel cleanup, unless that run was cancelled before its task existed:
\* what create_or_reject, wait_for_prior_finalizing and the finalizing flag are for.
OlderCleanupFirst ==
    \A p, q \in Run :
        Earlier(p, q) /\ pc[q] \in GraphPc /\ finalizing[p] => detached[p]

\* The inductive strengthening of OlderCleanupFirst, in named parts.
EarlyPc == {"scheduled", "waiting", "raised"} \cup GraphPc

\* What the lock protects: its holder is the newest run of its thread, and a
\* rejecting one has found nothing in flight there.
LockInv ==
    lock # None =>
        /\ proc = "up"
        /\ pc[lock] = "creating"
        /\ ticket[lock] = clock
        /\ strategy[lock] = "reject" => Inflight(ThreadOf[lock]) \subseteq {lock}

\* How the record of one run and its coroutine agree.
RunInv(r) ==
    /\ ticket[r] <= clock
    /\ pc[r] \in RequestPc \cup TaskPc => InIndex(r)
    /\ pc[r] = "idle" => /\ mem[r] = "absent" /\ abort[r] = "none"
                         /\ ~finalizing[r] /\ ~cancelReq[r] /\ ~detached[r]
    /\ proc = "down" => /\ pc[r] \in {"idle", "lost"} /\ mem[r] = "absent"
                        /\ ~finalizing[r] /\ ~cancelReq[r]
    /\ pc[r] \in RequestPc /\ ~detached[r] => mem[r] = "pending"
    /\ pc[r] \in RequestPc \cup EarlyPc /\ ~detached[r] =>
           (finalizing[r] \/ abort[r] # "none" => cancelReq[r])
    /\ proc = "up" /\ cancelReq[r] => mem[r] \notin Active
    /\ proc = "up" /\ ~detached[r] =>
           /\ pc[r] \in {"aborting", "settling"} => mem[r] \notin Active
           /\ mem[r] \in Active => ~finalizing[r]
           /\ pc[r] \in {"scheduled"} \cup BodyPc => mem[r] \in Active \/ finalizing[r]

\* An admitted run has made its predecessors inactive, and those whose task is
\* not yet in its finally block are finalizing.
PairInv(p, q) ==
    Earlier(p, q) /\ lock # q /\ ~detached[p] =>
        /\ mem[p] \notin Active
        /\ pc[p] \in {"scheduled"} \cup BodyPc => finalizing[p]

\* With OlderCleanupFirst, what create_or_reject and the worker maintain
\* together: inductive, and enough for one graph per thread.
AdmissionInv ==
    /\ LockInv
    /\ \A r \in Run : RunInv(r)
    /\ \A p, q \in Run : PairInv(p, q)

\* Two runs of one thread never stream their graphs together, unless the older
\* one was cancelled before its task existed.
OneGraphPerThread ==
    \A p, q \in Run :
        Earlier(p, q) /\ pc[p] = "streaming" /\ pc[q] = "streaming" => detached[p]

\* A run is visible in memory only when its row is in the store
\* (_persist_new_run_to_store), the run being created under the lock excepted.
RowBeforeVisible == \A r \in Run : InIndex(r) /\ lock # r => row[r] # "none"

\* When a task is over and every write was stored, the run's row agrees with
\* its record, or holds the interrupted of a cancel whose write came late.
SettledRowAgrees ==
    \A r \in Run :
        /\ proc = "up" /\ pc[r] \in {"done", "neverRan"} /\ ~lossy[r]
        /\ \A w \in persisting : w[2] # r
        => \/ row[r] = mem[r]
           \/ row[r] = "interrupted" /\ abort[r] # "none"

\* A serving process owns every active row: on SQLite those of a dead process
\* were turned into errors before the first request
\* (reconcile_orphaned_inflight_runs), elsewhere they alone are left.
NoOrphanRow ==
    \A r \in Run :
        proc = "up" /\ row[r] \in Active /\ ~lossy[r]
        => InIndex(r) \/ (database # "sqlite" /\ pc[r] = "lost")

\* When every run of a thread that was admitted has finished its finally block,
\* and none was lost with a process, the thread is not left as running.
ThreadStatusSettles ==
    \A t \in Thread :
        /\ proc = "up" /\ failures = 0
        /\ \A r \in Run : ThreadOf[r] = t => pc[r] \in {"idle", "refused", "done"}
        => threadStatus[t] # "running"

\* What is stored agrees with what the gateway knows, whatever was replaced,
\* cancelled, rolled back or interrupted by an exit before; without SQLite the
\* rows of runs that died with a process stay as they were.
DurableStateAgrees == RowBeforeVisible /\ SettledRowAgrees /\ NoOrphanRow /\ ThreadStatusSettles

\* Cleanup keeps the work of others: a rollback with a captured snapshot and a
\* title write remove at most the run's own work from the head of its thread,
\* if no run of the thread was cancelled before its task existed.
CleanupKeepsOthersWork ==
    [][\A r \in Run :
        LET t == ThreadOf[r] IN
        /\ \/ pc[r] = "rollingBack" /\ pc'[r] = "closing" /\ snap[r] # "unset"
           \/ pc[r] = "titleWrite" /\ pc'[r] = "threadStatus"
        /\ \A q \in Run : ThreadOf[q] = t => ~detached[q]
        => ckpt[t] \ {r} \subseteq ckpt'[t]]_vars

\* A task that entered run_agent ends its stream, unless the process goes down
\* or it waits for the cleanup of a task that never ran.
StartedRunEndsStream ==
    \A r \in Run :
        pc[r] = "waiting" ~>
            \/ stream[r] = "ended" \/ proc # "up"
            \/ \E p \in Run : Earlier(p, r) /\ finalizing[p] /\ pc[p] = "neverRan"

(* What the repository says and the code does not do. *)

\* "rollback: Stop execution, revert to pre-run checkpoint state" (cancel_run):
\* nothing but the run's own work goes.
RollbackRevertsOnlyOwnWork ==
    [][\A r \in Run :
        pc[r] = "rollingBack" /\ pc'[r] = "closing"
        => ckpt[ThreadOf[r]] \ {r} \subseteq ckpt'[ThreadOf[r]]]_vars

\* No "indefinite active run" after a restart (reconcile_orphaned_inflight_runs):
\* no row stays active and no thread running that nobody works for.
RestartLeavesNothingActive ==
    \A r \in Run : proc = "up" /\ failures = 0 /\ pc[r] = "lost" =>
        /\ row[r] \notin Active
        /\ \/ threadStatus[ThreadOf[r]] # "running"
           \/ \E q \in Run : ThreadOf[q] = ThreadOf[r] /\ pc[q] \notin {"idle", "lost"}
=============================================================================
