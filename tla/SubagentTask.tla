---------------------------- MODULE SubagentTask ----------------------------
(***************************************************************************)
(* Subagents in the background (subagents/executor.py) and the task tool   *)
(* that starts them, polls them and gives up on them (task_tool.py).       *)
(*                                                                         *)
(* Four activities share the result holder of a task: the call of the task *)
(* tool on the gateway's loop, the thread of the scheduler pool that runs  *)
(* run_task, the coroutine _aexecute on the isolated loop, and the         *)
(* deferred cleanup on the gateway's loop.  They run in three threads, so  *)
(* every statement that another of them can observe is a step of its own;  *)
(* try_set_terminal is two, since the readers do not take the holder's     *)
(* lock.  A task is named by its tool call id.                             *)
(***************************************************************************)
EXTENDS Naturals, FiniteSets

CONSTANTS
    Task,
    PoolSize,   \* max_workers of _scheduler_pool
    MaxPolls    \* max_poll_count

ASSUME SubagentAssumption ==
    /\ PoolSize \in Nat \ {0}
    /\ MaxPolls \in Nat
    /\ IsFiniteSet(Task)

VARIABLES
    status,      \* the holder's status
    payload,     \* the holder's result and error: which verdict wrote them
    records,     \* the holder's token_usage_records are there
    cancel,      \* cancel_event is set
    lock,        \* who holds the holder's _state_lock
    registered,  \* the keys of _background_tasks
    sched,       \* per task, where run_task is
    exec,        \* per task, where _aexecute is
    call,        \* per task, where the task tool's call is
    polls,       \* per task, poll_count
    deferred,    \* per task, where the deferred cleanup is
    answer,      \* per task, what the call answered: status and payload
    reported,    \* per task, whether the usage was given to the parent's journal
    asked        \* per task, the parent asked for its cancellation

holder == <<status, payload, records, cancel, lock>>
background == <<sched, exec>>
tool == <<call, polls, deferred, answer, reported, asked>>
vars == <<status, payload, records, cancel, lock, registered, sched, exec,
          call, polls, deferred, answer, reported, asked>>

Terminal == {"completed", "failed", "cancelled", "timed_out", "max_turns"}
Status == {"none", "pending", "running"} \cup Terminal
Excuse == {"polling_timed_out", "raised"}
None == <<"none", "none">>

\* "expired", "stopping": the timeout handler before and after its verdict.
\* "failing": the coroutine could not be submitted.  A pc that is a verdict is
\* inside try_set_terminal, with that verdict's fields written.  "broken": an
\* exception left the call.  "unheard": there was no recorder, or it raised.
SchedPc == {"none", "queued", "submitting", "waiting", "expired", "failing", "stopping",
            "done", "lostEntry"} \cup Terminal
ExecPc == {"none", "starting", "streaming", "ended", "killed"} \cup Terminal
CallPc == {"none", "polling", "sleeping", "awaiting", "answered", "broken"}
Reported == {"no", "yes", "unheard"}
DeferredPc == {"none", "polling", "done", "gaveUp"}

IsTerminal(t) == status[t] \in Terminal

\* A verdict's fields are written, completed_at among them: the cleanups take
\* that for terminal, too.
IsConcluded(t) == IsTerminal(t) \/ payload[t] # "none"

\* A worker of the pool is busy until run_task returns.
Busy == {t \in Task : sched[t] \notin {"none", "queued", "done", "lostEntry"}}

Init ==
    /\ status = [t \in Task |-> "none"]
    /\ payload = [t \in Task |-> "none"]
    /\ records = [t \in Task |-> FALSE]
    /\ cancel = [t \in Task |-> FALSE]
    /\ lock = [t \in Task |-> "free"]
    /\ registered = {}
    /\ sched = [t \in Task |-> "none"]
    /\ exec = [t \in Task |-> "none"]
    /\ call = [t \in Task |-> "none"]
    /\ polls = [t \in Task |-> 0]
    /\ deferred = [t \in Task |-> "none"]
    /\ answer = [t \in Task |-> None]
    /\ reported = [t \in Task |-> "no"]
    /\ asked = [t \in Task |-> FALSE]

-----------------------------------------------------------------------------
(* try_set_terminal by w, "sched" or "exec", in two steps. *)

\* Mutation: the status is tested before the lock is taken.
MayStoreUnlocked(t) == ~IsTerminal(t)

\* The holder is free and no verdict is stored yet.
MayStore(t) == lock[t] = "free" /\ ~IsTerminal(t)

\* The fields of the verdict; usage is given by _aexecute only.
StoreFields(t, w, s, usage) ==
    /\ MayStore(t)
    /\ lock' = [lock EXCEPT ![t] = w]
    /\ payload' = [payload EXCEPT ![t] = s]
    /\ records' = [records EXCEPT ![t] = @ \/ usage]
    /\ UNCHANGED <<status, cancel>>

\* The status comes last.
StoreStatus(t, s) ==
    /\ status' = [status EXCEPT ![t] = s]
    /\ lock' = [lock EXCEPT ![t] = "free"]
    /\ UNCHANGED <<payload, records, cancel>>

\* A verdict came first.
TooLate(t) == lock[t] = "free" /\ IsTerminal(t) /\ UNCHANGED holder

-----------------------------------------------------------------------------
(* run_task, in a thread of the scheduler pool. *)

SchedGoto(t, p) == sched' = [sched EXCEPT ![t] = p]

\* The thread takes the task; without its entry the thread ends in a KeyError.
RunTask(t) ==
    /\ sched[t] = "queued"
    /\ Cardinality(Busy) < PoolSize
    /\ IF t \in registered
       THEN /\ status' = [status EXCEPT ![t] = "running"]
            /\ SchedGoto(t, "submitting")
       ELSE /\ SchedGoto(t, "lostEntry")
            /\ UNCHANGED status
    /\ UNCHANGED <<payload, records, cancel, lock, registered, exec, tool>>

Submit(t) ==
    /\ sched[t] = "submitting"
    /\ SchedGoto(t, "waiting")
    /\ exec' = [exec EXCEPT ![t] = "starting"]
    /\ UNCHANGED <<holder, registered, tool>>

\* The isolated loop cannot be started.
SubmitFails(t) ==
    /\ sched[t] = "submitting"
    /\ SchedGoto(t, "failing")
    /\ UNCHANGED <<holder, registered, exec, tool>>

\* execution_future.result returns.
WaitEnds(t) ==
    /\ sched[t] = "waiting" /\ exec[t] = "ended"
    /\ SchedGoto(t, "done")
    /\ UNCHANGED <<holder, registered, exec, tool>>

\* Mutation: the timeout stops the subagent and leaves the verdict to it.
TimesOutSilently(t) ==
    /\ sched[t] = "waiting" /\ exec[t] # "ended"
    /\ cancel' = [cancel EXCEPT ![t] = TRUE]
    /\ SchedGoto(t, "stopping")
    /\ UNCHANGED <<status, payload, records, lock, registered, exec, tool>>

\* timeout_seconds have passed: the subagent is told to stop first ...
TimesOut(t) ==
    /\ sched[t] = "waiting" /\ exec[t] # "ended"
    /\ cancel' = [cancel EXCEPT ![t] = TRUE]
    /\ SchedGoto(t, "expired")
    /\ UNCHANGED <<status, payload, records, lock, registered, exec, tool>>

SchedVerdict(t) == IF sched[t] = "failing" THEN "failed" ELSE "timed_out"

\* ... then the verdict is stored.  The handler of a failed submission looks
\* the entry up again.
SchedStores(t) ==
    /\ sched[t] \in {"expired", "failing"}
    /\ IF sched[t] = "failing" /\ t \notin registered
       THEN /\ SchedGoto(t, "lostEntry")
            /\ UNCHANGED holder
       ELSE \/ /\ StoreFields(t, "sched", SchedVerdict(t), FALSE)
               /\ SchedGoto(t, SchedVerdict(t))
            \/ /\ TooLate(t)
               /\ SchedGoto(t, "stopping")
    /\ UNCHANGED <<registered, exec, tool>>

SchedStored(t) ==
    /\ sched[t] \in Terminal
    /\ StoreStatus(t, sched[t])
    /\ SchedGoto(t, "stopping")
    /\ UNCHANGED <<registered, exec, tool>>

\* execution_future.cancel: the coroutine gets a CancelledError at its next
\* suspension and stores nothing.
StopExecution(t) ==
    /\ sched[t] = "stopping"
    /\ SchedGoto(t, "done")
    /\ exec' = [exec EXCEPT ![t] = IF @ \in {"starting", "streaming"} THEN "killed" ELSE @]
    /\ UNCHANGED <<holder, registered, tool>>

-----------------------------------------------------------------------------
(* _aexecute, on the isolated loop. *)

\* The initial state is built, and the pre-check saw no cancellation.
BeginsStreaming(t) ==
    /\ exec[t] = "starting" /\ ~cancel[t]
    /\ exec' = [exec EXCEPT ![t] = "streaming"]
    /\ UNCHANGED <<holder, registered, sched, tool>>

\* What the coroutine may conclude: it failed; it saw the cancellation, before
\* the stream or at a chunk; the stream was exhausted or hit its limit, even
\* when a cancellation came after the last chunk.
Conclusions(t) ==
    {"failed"} \cup (IF cancel[t] THEN {"cancelled"} ELSE {})
               \cup (IF exec[t] = "streaming" THEN {"completed", "max_turns"} ELSE {})

\* The verdict, with the usage of the model calls if there were any.  Nothing
\* suspends between the conclusion and try_set_terminal.
ExecStores(t) ==
    /\ exec[t] \in {"starting", "streaming"}
    /\ \/ \E s \in Conclusions(t), usage \in {FALSE, exec[t] = "streaming"} :
            /\ StoreFields(t, "exec", s, usage)
            /\ exec' = [exec EXCEPT ![t] = s]
       \/ /\ TooLate(t)
          /\ exec' = [exec EXCEPT ![t] = "ended"]
    /\ UNCHANGED <<registered, sched, tool>>

ExecStored(t) ==
    /\ exec[t] \in Terminal
    /\ StoreStatus(t, exec[t])
    /\ exec' = [exec EXCEPT ![t] = "ended"]
    /\ UNCHANGED <<registered, sched, tool>>

-----------------------------------------------------------------------------
(* The task tool. *)

Goto(t, p) == call' = [call EXCEPT ![t] = p]

\* execute_async.
StartTask(t) ==
    /\ call[t] = "none"
    /\ status' = [status EXCEPT ![t] = "pending"]
    /\ registered' = registered \cup {t}
    /\ sched' = [sched EXCEPT ![t] = "queued"]
    /\ Goto(t, "polling")
    /\ UNCHANGED <<payload, records, cancel, lock, exec,
                   polls, deferred, answer, reported, asked>>

\* Mutation: whatever is asked to be cleaned up is.
CleanedUpAnyway(t) == registered \ {t}

\* cleanup_background_task leaves the entry of a task without a verdict.
CleanedUp(t) == IF IsConcluded(t) THEN registered \ {t} ELSE registered

\* Mutation: only a completed task's usage is reported.
UsageOfCompleted(t) == records[t] /\ status[t] = "completed"

\* There is usage to report.
Usage(t) == records[t]

\* _report_subagent_usage: the parent run may have no recorder among its
\* callbacks, and the journal may raise, which is logged.
Report(t) ==
    IF Usage(t) THEN \E how \in {"yes", "unheard"} : reported' = [reported EXCEPT ![t] = how]
    ELSE UNCHANGED reported

\* A poll finds a terminal status: report, clean up, answer.
PollDone(t) ==
    /\ call[t] = "polling"
    /\ IsTerminal(t)
    /\ Report(t)
    /\ registered' = CleanedUp(t)
    /\ answer' = [answer EXCEPT ![t] = <<status[t], payload[t]>>]
    /\ Goto(t, "answered")
    /\ UNCHANGED <<holder, background, polls, deferred, asked>>

PollRunning(t) ==
    /\ call[t] = "polling"
    /\ ~IsTerminal(t)
    /\ Goto(t, "sleeping")
    /\ UNCHANGED <<holder, registered, background, polls, deferred, answer, reported, asked>>

\* The limit is tested after the sleep and without another look at the status.
PollAgain(t) ==
    /\ call[t] = "sleeping" /\ polls[t] < MaxPolls
    /\ polls' = [polls EXCEPT ![t] = @ + 1]
    /\ Goto(t, "polling")
    /\ UNCHANGED <<holder, registered, background, deferred, answer, reported, asked>>

RequestCancel(t) ==
    /\ cancel' = [cancel EXCEPT ![t] = TRUE]
    /\ asked' = [asked EXCEPT ![t] = TRUE]
    /\ UNCHANGED <<status, payload, records, lock>>

PollLimit(t) ==
    /\ call[t] = "sleeping" /\ polls[t] = MaxPolls
    /\ Report(t)
    /\ RequestCancel(t)
    /\ deferred' = [deferred EXCEPT ![t] = "polling"]
    /\ answer' = [answer EXCEPT ![t] = <<"polling_timed_out", "none">>]
    /\ Goto(t, "answered")
    /\ UNCHANGED <<registered, background, polls>>

\* The parent run is cancelled while the call sleeps.
CallCancelled(t) ==
    /\ call[t] = "sleeping"
    /\ RequestCancel(t)
    /\ Goto(t, "awaiting")
    /\ UNCHANGED <<registered, background, polls, deferred, answer, reported>>

\* The shielded wait ends: the task is terminal, the polls are used up, or a
\* second cancellation arrives.
CallRaises(t) ==
    /\ call[t] = "awaiting"
    /\ Report(t)
    /\ registered' = CleanedUp(t)
    /\ deferred' = [deferred EXCEPT ![t] = IF IsConcluded(t) THEN @ ELSE "polling"]
    /\ answer' = [answer EXCEPT ![t] = <<"raised", "none">>]
    /\ Goto(t, "answered")
    /\ UNCHANGED <<holder, background, polls, asked>>

\* The stream writer, say, raises something else than a cancellation: when the
\* task was started, in a poll, before or after the report, or at the limit.
\* The exception passes, and nobody stops the subagent or removes its entry.
CallBreaks(t) ==
    /\ \/ call[t] = "polling" /\ UNCHANGED reported
       \/ call[t] = "polling" /\ IsTerminal(t) /\ Report(t)
       \/ call[t] = "sleeping" /\ polls[t] = MaxPolls /\ Report(t)
    /\ answer' = [answer EXCEPT ![t] = <<"raised", "none">>]
    /\ Goto(t, "broken")
    /\ UNCHANGED <<holder, registered, background, polls, deferred, asked>>

\* _deferred_cleanup_subagent_task polls on, up to max_polls.
DeferredCleanup(t) ==
    /\ deferred[t] = "polling"
    /\ \/ /\ IsConcluded(t)
          /\ registered' = CleanedUp(t)
          /\ deferred' = [deferred EXCEPT ![t] = "done"]
       \/ /\ ~IsConcluded(t)
          /\ deferred' = [deferred EXCEPT ![t] = "gaveUp"]
          /\ UNCHANGED registered
    /\ UNCHANGED <<holder, background, call, polls, answer, reported, asked>>

-----------------------------------------------------------------------------
Scheduler(t) ==
    \/ RunTask(t) \/ Submit(t) \/ SubmitFails(t) \/ WaitEnds(t) \/ TimesOut(t)
    \/ SchedStores(t) \/ SchedStored(t) \/ StopExecution(t)

Execution(t) == BeginsStreaming(t) \/ ExecStores(t) \/ ExecStored(t)

Call(t) ==
    \/ PollDone(t) \/ PollRunning(t) \/ PollAgain(t) \/ PollLimit(t) \/ CallRaises(t)

Next == \E t \in Task :
    \/ StartTask(t) \/ Scheduler(t) \/ Execution(t)
    \/ Call(t) \/ CallCancelled(t) \/ CallBreaks(t) \/ DeferredCleanup(t)

Spec == Init /\ [][Next]_vars

\* The threads of the pool run, a future's timeout expires, a section under
\* the holder's lock ends, and the gateway's loop wakes its sleepers.  What
\* the subagent does may hang for ever.
FairSpec ==
    /\ Spec
    /\ \A t \in Task :
        WF_vars(Scheduler(t)) /\ SF_vars(RunTask(t)) /\ WF_vars(ExecStored(t))
        /\ WF_vars(Call(t)) /\ WF_vars(DeferredCleanup(t))

-----------------------------------------------------------------------------
\* The types.
TypeOK ==
    /\ status \in [Task -> Status]
    /\ payload \in [Task -> {"none"} \cup Terminal]
    /\ records \in [Task -> BOOLEAN]
    /\ cancel \in [Task -> BOOLEAN]
    /\ lock \in [Task -> {"free", "sched", "exec"}]
    /\ registered \subseteq Task
    /\ sched \in [Task -> SchedPc] /\ Cardinality(Busy) <= PoolSize
    /\ exec \in [Task -> ExecPc]
    /\ call \in [Task -> CallPc]
    /\ polls \in [Task -> 0 .. MaxPolls]
    /\ deferred \in [Task -> DeferredPc]
    /\ answer \in [Task -> ({"none"} \cup Terminal \cup Excuse) \X ({"none"} \cup Terminal)]
    /\ reported \in [Task -> Reported]
    /\ asked \in [Task -> BOOLEAN]

\* The thread of a task finds the entry it looks up by its id, when it starts
\* and when the submission failed: nobody removes the entry of a task that is
\* still queued, however long ago its caller gave up on it.
EntryOutlivesWork ==
    \A t \in Task : sched[t] \in {"queued", "failing"} => t \in registered

\* A call that saw its subagent's verdict, be it while it was cancelled, has
\* given all of its usage to the parent's journal, unless the parent has none or
\* the journal raised; what an exception interrupts, or a deferred cleanup
\* finishes, need not be reported.
AnsweredUsageReported ==
    \A t \in Task : call[t] = "answered" /\ deferred[t] = "none" =>
        (reported[t] # "no" <=> records[t])

\* A call that answered or was cancelled leaves no entry behind, except to a
\* deferred cleanup, which may give up on a task that does not end in time.
NoEntryForgotten ==
    \A t \in registered : call[t] = "answered" => deferred[t] \in {"polling", "gaveUp"}

\* An entry of _background_tasks lives as long as somebody needs it, and no
\* longer, unless its call was left by an exception (CallBreaks).
EntriesKept == TypeOK /\ EntryOutlivesWork /\ NoEntryForgotten

\* The outcome of a task as its holder shows it: torn if status and payload
\* are of different verdicts.
Shown(t) == IF ~IsTerminal(t) THEN "open" ELSE IF payload[t] = status[t] THEN status[t] ELSE "torn"
Said(t) == IF answer[t][1] \notin Terminal \/ answer[t][1] = answer[t][2] THEN answer[t][1] ELSE "torn"

\* One verdict per task, whole, whichever of timeout, failure, cancellation
\* and completion comes first; the late ones change nothing, and the call
\* answers that verdict.
Promise == INSTANCE TaskOutcome
    WITH Outcome <- Terminal,
         outcome <- [t \in Task |-> Shown(t)],
         answer <- [t \in Task |-> Said(t)]
ImplementsTaskOutcome == Promise!Spec

\* A subagent that hangs keeps neither its caller nor the subagents queued
\* behind it: every queued task reaches a verdict.
EveryTaskSettles == \A t \in Task : (sched[t] = "queued") ~> IsTerminal(t)

-----------------------------------------------------------------------------
(* What the repository says and the code does not do. *)

\* "This prevents memory leaks" (cleanup_background_task): no call that is over leaves
\* its entry to nobody.
NoEntryLeaks ==
    \A t \in registered : call[t] \in {"answered", "broken"} => deferred[t] # "none"

\* executor.py: a CANCELLED result says "Cancelled by user".
CancelledOnlyWhenAsked ==
    \A t \in Task : status[t] = "cancelled" => asked[t]
=============================================================================
