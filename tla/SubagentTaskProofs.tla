------------------------- MODULE SubagentTaskProofs -------------------------
(***************************************************************************)
(* SubagentTask keeps its types, loses no entry a thread still needs, and  *)
(* implements TaskOutcome, for every number of tasks, threads and polls.   *)
(***************************************************************************)
EXTENDS SubagentTask, FiniteSetTheorems, TLAPS

\* Who is inside try_set_terminal, and what it has written so far.
LockOf(t) ==
    /\ lock[t] = "sched" <=> sched[t] \in Terminal
    /\ lock[t] = "exec" <=> exec[t] \in Terminal
    /\ lock[t] # "free" => ~IsTerminal(t)
    /\ lock[t] = "sched" => payload[t] = sched[t]
    /\ lock[t] = "exec" => payload[t] = exec[t]
    /\ IsTerminal(t) => payload[t] = status[t]
    /\ payload[t] # "none" => IsTerminal(t) \/ lock[t] # "free"

\* Until the coroutine is submitted nobody decides, and the entry is there.
EarlyOf(t) ==
    /\ call[t] = "none" <=> sched[t] = "none"
    /\ sched[t] \in {"none", "queued", "submitting", "failing"} =>
         exec[t] = "none" /\ ~IsTerminal(t) /\ payload[t] = "none"
    /\ sched[t] \in {"queued", "submitting", "failing"} => t \in registered
    /\ sched[t] # "lostEntry"

\* What the call said, and what it reported.
AnswerOf(t) ==
    /\ call[t] \notin {"answered", "broken"} => answer[t] = None /\ reported[t] = "no"
    /\ answer[t][1] \in Terminal => answer[t] = <<status[t], status[t]>>
    /\ call[t] = "answered" /\ deferred[t] = "none" =>
         (reported[t] # "no" <=> records[t]) /\ payload[t] # "none"
    /\ t \in registered /\ call[t] = "answered" => deferred[t] \in {"polling", "gaveUp"}

TaskInv == \A t \in Task : LockOf(t) /\ EarlyOf(t) /\ AnswerOf(t)

SubagentInv == TypeOK /\ TaskInv

USE DEF Terminal, None

-----------------------------------------------------------------------------
(* Types. *)

\* The pool's workers, after a step that starts none.
LEMMA BusyShrinks ==
  ASSUME TypeOK, Busy' \subseteq Busy
  PROVE  Cardinality(Busy') <= PoolSize
<1>1. IsFiniteSet(Busy) /\ Cardinality(Busy) \in Nat
  BY SubagentAssumption, FS_Subset, FS_CardinalityType DEF Busy
<1>2. IsFiniteSet(Busy') /\ Cardinality(Busy') <= Cardinality(Busy) /\ Cardinality(Busy') \in Nat
  BY <1>1, FS_Subset, FS_CardinalityType
<1> QED
  BY <1>1, <1>2, SubagentAssumption DEF TypeOK

\* ... and after one that starts a worker.
LEMMA BusyGrows ==
  ASSUME TypeOK, NEW t \in Task, RunTask(t)
  PROVE  Cardinality(Busy') <= PoolSize
<1>1. IsFiniteSet(Busy) /\ Cardinality(Busy) \in Nat
  BY SubagentAssumption, FS_Subset, FS_CardinalityType DEF Busy
<1>2. IsFiniteSet(Busy \cup {t}) /\ Cardinality(Busy \cup {t}) <= Cardinality(Busy) + 1
      /\ Cardinality(Busy \cup {t}) \in Nat
  BY <1>1, FS_AddElement, FS_CardinalityType
<1>3. Busy' \subseteq Busy \cup {t}
  BY DEF RunTask, SchedGoto, Busy, TypeOK
<1>4. Cardinality(Busy') <= Cardinality(Busy \cup {t}) /\ Cardinality(Busy') \in Nat
  BY <1>2, <1>3, FS_Subset, FS_CardinalityType
<1>5. Cardinality(Busy) < PoolSize
  BY DEF RunTask
<1> QED
  BY <1>1, <1>2, <1>4, <1>5, SubagentAssumption

LEMMA InitInv == Init => SubagentInv
<1> SUFFICES ASSUME Init PROVE SubagentInv
  OBVIOUS
<1>1. Cardinality(Busy) <= PoolSize
  <2>1. Busy = {}
    BY DEF Init, Busy
  <2> QED BY <2>1, FS_EmptySet, SubagentAssumption
<1>2. TypeOK
  BY <1>1, SubagentAssumption DEF Init, TypeOK, Status, SchedPc, ExecPc, CallPc, Reported, DeferredPc, Excuse
<1>3. TaskInv
  BY DEF Init, TaskInv, LockOf, EarlyOf, AnswerOf, IsTerminal
<1> QED BY <1>2, <1>3 DEF SubagentInv

-----------------------------------------------------------------------------
(* Steps. *)

\* What a step of one task leaves alone.
Untouched(u) ==
    /\ status'[u] = status[u] /\ payload'[u] = payload[u] /\ records'[u] = records[u]
    /\ lock'[u] = lock[u] /\ sched'[u] = sched[u] /\ exec'[u] = exec[u]
    /\ call'[u] = call[u] /\ answer'[u] = answer[u] /\ reported'[u] = reported[u]
    /\ (u \in registered' <=> u \in registered) /\ deferred'[u] = deferred[u]

LEMMA UntouchedInv ==
  ASSUME NEW u \in Task, Untouched(u), LockOf(u), EarlyOf(u), AnswerOf(u)
  PROVE  LockOf(u)' /\ EarlyOf(u)' /\ AnswerOf(u)'
BY DEF Untouched, LockOf, EarlyOf, AnswerOf, IsTerminal

\* The steps of a task, one by one.
StepOf(t) ==
    \/ StartTask(t) \/ Scheduler(t) \/ Execution(t)
    \/ Call(t) \/ CallCancelled(t) \/ CallBreaks(t) \/ DeferredCleanup(t)

LEMMA OnlyItsTask ==
  ASSUME TypeOK, NEW t \in Task, StepOf(t)
  PROVE  \A u \in Task \ {t} : Untouched(u)
<1>1. CASE StartTask(t)
  BY <1>1 DEF StartTask, Goto, Untouched, TypeOK, holder, background, tool
<1>2. CASE RunTask(t)
  BY <1>2 DEF RunTask, SchedGoto, Untouched, TypeOK, holder, background, tool
<1>3. CASE Submit(t)
  BY <1>3 DEF Submit, SchedGoto, Untouched, TypeOK, holder, background, tool
<1>4. CASE SubmitFails(t)
  BY <1>4 DEF SubmitFails, SchedGoto, Untouched, TypeOK, holder, background, tool
<1>5. CASE WaitEnds(t)
  BY <1>5 DEF WaitEnds, SchedGoto, Untouched, TypeOK, holder, background, tool
<1>6. CASE TimesOut(t)
  BY <1>6 DEF TimesOut, SchedGoto, Untouched, TypeOK, holder, background, tool
<1>7. CASE SchedStores(t)
  BY <1>7 DEF SchedStores, SchedGoto, SchedVerdict, StoreFields, MayStore, TooLate, Untouched, TypeOK, holder, background, tool
<1>8. CASE SchedStored(t)
  BY <1>8 DEF SchedStored, SchedGoto, StoreStatus, Untouched, TypeOK, holder, background, tool
<1>9. CASE StopExecution(t)
  BY <1>9 DEF StopExecution, SchedGoto, Untouched, TypeOK, holder, background, tool
<1>10. CASE BeginsStreaming(t)
  BY <1>10 DEF BeginsStreaming, Untouched, TypeOK, holder, background, tool
<1>11. CASE ExecStores(t)
  BY <1>11 DEF ExecStores, StoreFields, MayStore, TooLate, Conclusions, Untouched, TypeOK, holder, background, tool
<1>12. CASE ExecStored(t)
  BY <1>12 DEF ExecStored, StoreStatus, Untouched, TypeOK, holder, background, tool
<1>13. CASE PollDone(t)
  BY <1>13 DEF PollDone, CleanedUp, IsConcluded, Report, Usage, Goto, Untouched, TypeOK, holder, background, tool
<1>14. CASE PollRunning(t)
  BY <1>14 DEF PollRunning, Goto, Untouched, TypeOK, holder, background, tool
<1>15. CASE PollAgain(t)
  BY <1>15 DEF PollAgain, Goto, Untouched, TypeOK, holder, background, tool
<1>16. CASE PollLimit(t)
  BY <1>16 DEF PollLimit, RequestCancel, Report, Usage, Goto, Untouched, TypeOK, holder, background, tool
<1>17. CASE CallCancelled(t)
  BY <1>17 DEF CallCancelled, RequestCancel, Goto, Untouched, TypeOK, holder, background, tool
<1>18. CASE CallRaises(t)
  BY <1>18 DEF CallRaises, CleanedUp, IsConcluded, Report, Usage, Goto, Untouched, TypeOK, holder, background, tool
<1>19. CASE DeferredCleanup(t)
  BY <1>19 DEF DeferredCleanup, CleanedUp, IsConcluded, Untouched, TypeOK, holder, background, tool
<1>20. CASE CallBreaks(t)
  BY <1>20 DEF CallBreaks, Report, Goto, Untouched, TypeOK, holder, background, tool
<1> QED
  BY <1>1, <1>2, <1>3, <1>4, <1>5, <1>6, <1>7, <1>8, <1>9, <1>10, <1>11, <1>12, <1>13, <1>14, <1>15, <1>16, <1>17, <1>18, <1>19, <1>20
     DEF StepOf, Scheduler, Execution, Call

\* The type of everything but the pool's workers.
TypesOnly ==
    /\ status \in [Task -> Status]
    /\ payload \in [Task -> {"none"} \cup Terminal]
    /\ records \in [Task -> BOOLEAN]
    /\ cancel \in [Task -> BOOLEAN]
    /\ lock \in [Task -> {"free", "sched", "exec"}]
    /\ registered \subseteq Task
    /\ sched \in [Task -> SchedPc]
    /\ exec \in [Task -> ExecPc]
    /\ call \in [Task -> CallPc]
    /\ polls \in [Task -> 0 .. MaxPolls]
    /\ deferred \in [Task -> DeferredPc]
    /\ answer \in [Task -> ({"none"} \cup Terminal \cup Excuse) \X ({"none"} \cup Terminal)]
    /\ reported \in [Task -> Reported]
    /\ asked \in [Task -> BOOLEAN]

LEMMA TypesStep ==
  ASSUME TypeOK, NEW t \in Task, StepOf(t)
  PROVE  TypesOnly'
<1> TypesOnly
  BY DEF TypeOK, TypesOnly
<1> USE DEF Status, SchedPc, ExecPc, CallPc, Reported, DeferredPc, Excuse
<1>1. CASE StartTask(t)
  BY <1>1 DEF StartTask, Goto, TypesOnly, holder, background, tool
<1>2. CASE RunTask(t)
  <2>1. /\ status' = status \/ status' = [status EXCEPT ![t] = "running"]
        /\ sched' = [sched EXCEPT ![t] = "submitting"] \/ sched' = [sched EXCEPT ![t] = "lostEntry"]
    BY <1>2 DEF RunTask, SchedGoto
  <2>2. status' \in [Task -> Status]
    BY <2>1 DEF TypesOnly
  <2>3. sched' \in [Task -> SchedPc]
    BY <2>1 DEF TypesOnly
  <2> QED
    BY <2>2, <2>3, <1>2 DEF RunTask, TypesOnly, tool
<1>3. CASE Submit(t)
  BY <1>3 DEF Submit, SchedGoto, TypesOnly, holder, background, tool
<1>4. CASE SubmitFails(t)
  BY <1>4 DEF SubmitFails, SchedGoto, TypesOnly, holder, background, tool
<1>5. CASE WaitEnds(t)
  BY <1>5 DEF WaitEnds, SchedGoto, TypesOnly, holder, background, tool
<1>6. CASE TimesOut(t)
  BY <1>6 DEF TimesOut, SchedGoto, TypesOnly, holder, background, tool
<1>7. CASE SchedStores(t)
  <2>1. CASE StoreFields(t, "sched", SchedVerdict(t), FALSE) /\ SchedGoto(t, SchedVerdict(t))
    BY <1>7, <2>1 DEF SchedStores, SchedGoto, SchedVerdict, StoreFields, TypesOnly, tool
  <2>2. CASE UNCHANGED holder /\ (SchedGoto(t, "lostEntry") \/ SchedGoto(t, "stopping"))
    <3>1. sched' \in [Task -> SchedPc]
      BY <2>2 DEF SchedGoto, TypesOnly
    <3> QED BY <1>7, <2>2, <3>1 DEF SchedStores, TypesOnly, holder, tool
  <2> QED BY <1>7, <2>1, <2>2 DEF SchedStores, TooLate
<1>8. CASE SchedStored(t)
  BY <1>8 DEF SchedStored, SchedGoto, StoreStatus, TypesOnly, holder, background, tool
<1>9. CASE StopExecution(t)
  BY <1>9 DEF StopExecution, SchedGoto, TypesOnly, holder, background, tool
<1>10. CASE BeginsStreaming(t)
  BY <1>10 DEF BeginsStreaming, TypesOnly, holder, background, tool
<1>11. CASE ExecStores(t)
  <2>1. ASSUME NEW s \in Conclusions(t), NEW usage \in {FALSE, exec[t] = "streaming"},
               StoreFields(t, "exec", s, usage), exec' = [exec EXCEPT ![t] = s]
        PROVE  TypesOnly'
    <3>1. s \in Terminal /\ usage \in BOOLEAN
      BY <2>1 DEF Conclusions
    <3>2. payload' \in [Task -> {"none"} \cup Terminal] /\ exec' \in [Task -> ExecPc]
      BY <2>1, <3>1 DEF StoreFields, TypesOnly
    <3>3. records' \in [Task -> BOOLEAN]
      BY <2>1, <3>1, Zenon DEF StoreFields, TypesOnly
    <3> QED BY <1>11, <2>1, <3>2, <3>3 DEF ExecStores, StoreFields, TypesOnly, tool
  <2>2. CASE TooLate(t) /\ exec' = [exec EXCEPT ![t] = "ended"]
    BY <1>11, <2>2 DEF ExecStores, TooLate, TypesOnly, holder, tool
  <2> QED BY <1>11, <2>1, <2>2 DEF ExecStores
<1>12. CASE ExecStored(t)
  BY <1>12 DEF ExecStored, StoreStatus, TypesOnly, holder, background, tool
<1>13. CASE PollDone(t)
  <2>1. answer' \in [Task -> ({"none"} \cup Terminal \cup Excuse) \X ({"none"} \cup Terminal)]
    <3>1. status[t] \in Terminal /\ payload[t] \in {"none"} \cup Terminal
      BY <1>13 DEF PollDone, IsTerminal, TypesOnly
    <3>2. <<status[t], payload[t]>> \in ({"none"} \cup Terminal \cup Excuse) \X ({"none"} \cup Terminal)
      BY <3>1
    <3> QED BY <1>13, <3>2, Zenon DEF PollDone, TypesOnly
  <2>2. registered' \subseteq Task
    BY <1>13 DEF PollDone, CleanedUp, IsConcluded, TypesOnly
  <2>3. reported' \in [Task -> Reported]
    <3>1. reported' = reported \/ \E how \in {"yes", "unheard"} : reported' = [reported EXCEPT ![t] = how]
      BY <1>13, Zenon DEF PollDone, Report
    <3> QED BY <3>1 DEF TypesOnly
  <2> QED BY <1>13, <2>1, <2>2, <2>3 DEF PollDone, Goto, TypesOnly, holder, background
<1>14. CASE PollRunning(t)
  BY <1>14 DEF PollRunning, Goto, TypesOnly, holder, background, tool
<1>15. CASE PollAgain(t)
  <2>1. polls' \in [Task -> 0 .. MaxPolls]
    BY <1>15, SubagentAssumption DEF PollAgain, TypesOnly
  <2> QED BY <1>15, <2>1 DEF PollAgain, Goto, TypesOnly, holder, background
<1>16. CASE PollLimit(t)
  BY <1>16 DEF PollLimit, RequestCancel, Report, Usage, Goto, TypesOnly, holder, background, tool
<1>17. CASE CallCancelled(t)
  BY <1>17 DEF CallCancelled, RequestCancel, Goto, TypesOnly, holder, background, tool
<1>18. CASE CallRaises(t)
  BY <1>18 DEF CallRaises, CleanedUp, IsConcluded, Report, Usage, Goto, TypesOnly, holder, background, tool
<1>19. CASE DeferredCleanup(t)
  BY <1>19 DEF DeferredCleanup, CleanedUp, IsConcluded, TypesOnly, holder, background, tool
<1>20. CASE CallBreaks(t)
  BY <1>20 DEF CallBreaks, Report, Goto, TypesOnly, holder, background, tool
<1> QED
  BY <1>1, <1>2, <1>3, <1>4, <1>5, <1>6, <1>7, <1>8, <1>9, <1>10, <1>11, <1>12, <1>13, <1>14, <1>15, <1>16, <1>17, <1>18, <1>19, <1>20
     DEF StepOf, Scheduler, Execution, Call

LEMMA LockStep ==
  ASSUME SubagentInv, NEW t \in Task, StepOf(t)
  PROVE  LockOf(t)'
<1> TypeOK /\ LockOf(t) /\ EarlyOf(t)
  BY DEF SubagentInv, TaskInv
<1> USE DEF TypeOK, Status, SchedPc, ExecPc
<1>1. CASE StartTask(t)
  BY <1>1 DEF StartTask, Goto, LockOf, EarlyOf, IsTerminal, holder, background, tool
<1>2. CASE RunTask(t)
  BY <1>2 DEF RunTask, SchedGoto, LockOf, EarlyOf, IsTerminal, holder, background, tool
<1>3. CASE Submit(t)
  BY <1>3 DEF Submit, SchedGoto, LockOf, EarlyOf, IsTerminal, holder, background, tool
<1>4. CASE SubmitFails(t)
  BY <1>4 DEF SubmitFails, SchedGoto, LockOf, EarlyOf, IsTerminal, holder, background, tool
<1>5. CASE WaitEnds(t)
  BY <1>5 DEF WaitEnds, SchedGoto, LockOf, EarlyOf, IsTerminal, holder, background, tool
<1>6. CASE TimesOut(t)
  BY <1>6 DEF TimesOut, SchedGoto, LockOf, EarlyOf, IsTerminal, holder, background, tool
<1>7. CASE SchedStores(t)
  BY <1>7 DEF SchedStores, SchedGoto, SchedVerdict, StoreFields, MayStore, TooLate, LockOf, EarlyOf, IsTerminal, holder, background, tool
<1>8. CASE SchedStored(t)
  BY <1>8 DEF SchedStored, SchedGoto, StoreStatus, LockOf, EarlyOf, IsTerminal, holder, background, tool
<1>9. CASE StopExecution(t)
  BY <1>9 DEF StopExecution, SchedGoto, LockOf, EarlyOf, IsTerminal, holder, background, tool
<1>10. CASE BeginsStreaming(t)
  BY <1>10 DEF BeginsStreaming, LockOf, EarlyOf, IsTerminal, holder, background, tool
<1>11. CASE ExecStores(t)
  BY <1>11 DEF ExecStores, StoreFields, MayStore, TooLate, Conclusions, LockOf, EarlyOf, IsTerminal, holder, background, tool
<1>12. CASE ExecStored(t)
  BY <1>12 DEF ExecStored, StoreStatus, LockOf, EarlyOf, IsTerminal, holder, background, tool
<1>13. CASE PollDone(t)
  BY <1>13 DEF PollDone, CleanedUp, IsConcluded, Report, Usage, Goto, LockOf, EarlyOf, IsTerminal, holder, background, tool
<1>14. CASE PollRunning(t)
  BY <1>14 DEF PollRunning, Goto, LockOf, EarlyOf, IsTerminal, holder, background, tool
<1>15. CASE PollAgain(t)
  BY <1>15 DEF PollAgain, Goto, LockOf, EarlyOf, IsTerminal, holder, background, tool
<1>16. CASE PollLimit(t)
  BY <1>16 DEF PollLimit, RequestCancel, Report, Usage, Goto, LockOf, EarlyOf, IsTerminal, holder, background, tool
<1>17. CASE CallCancelled(t)
  BY <1>17 DEF CallCancelled, RequestCancel, Goto, LockOf, EarlyOf, IsTerminal, holder, background, tool
<1>18. CASE CallRaises(t)
  BY <1>18 DEF CallRaises, CleanedUp, IsConcluded, Report, Usage, Goto, LockOf, EarlyOf, IsTerminal, holder, background, tool
<1>19. CASE DeferredCleanup(t)
  BY <1>19 DEF DeferredCleanup, CleanedUp, IsConcluded, LockOf, EarlyOf, IsTerminal, holder, background, tool
<1>20. CASE CallBreaks(t)
  BY <1>20 DEF CallBreaks, Report, Goto, LockOf, EarlyOf, IsTerminal, holder, background, tool
<1> QED
  BY <1>1, <1>2, <1>3, <1>4, <1>5, <1>6, <1>7, <1>8, <1>9, <1>10, <1>11, <1>12, <1>13, <1>14, <1>15, <1>16, <1>17, <1>18, <1>19, <1>20
     DEF StepOf, Scheduler, Execution, Call

LEMMA EarlyStep ==
  ASSUME SubagentInv, NEW t \in Task, StepOf(t)
  PROVE  EarlyOf(t)'
<1> TypeOK /\ LockOf(t) /\ EarlyOf(t)
  BY DEF SubagentInv, TaskInv
<1> USE DEF TypeOK
<1>1. CASE StartTask(t)
  BY <1>1 DEF StartTask, Goto, LockOf, EarlyOf, IsTerminal, holder, background, tool
<1>2. CASE RunTask(t)
  BY <1>2 DEF RunTask, SchedGoto, LockOf, EarlyOf, IsTerminal, holder, background, tool
<1>3. CASE Submit(t)
  BY <1>3 DEF Submit, SchedGoto, LockOf, EarlyOf, IsTerminal, holder, background, tool
<1>4. CASE SubmitFails(t)
  BY <1>4 DEF SubmitFails, SchedGoto, LockOf, EarlyOf, IsTerminal, holder, background, tool
<1>5. CASE WaitEnds(t)
  BY <1>5 DEF WaitEnds, SchedGoto, LockOf, EarlyOf, IsTerminal, holder, background, tool
<1>6. CASE TimesOut(t)
  BY <1>6 DEF TimesOut, SchedGoto, LockOf, EarlyOf, IsTerminal, holder, background, tool
<1>7. CASE SchedStores(t)
  BY <1>7 DEF SchedStores, SchedGoto, SchedVerdict, StoreFields, MayStore, TooLate, LockOf, EarlyOf, IsTerminal, holder, background, tool
<1>8. CASE SchedStored(t)
  BY <1>8 DEF SchedStored, SchedGoto, StoreStatus, LockOf, EarlyOf, IsTerminal, holder, background, tool
<1>9. CASE StopExecution(t)
  BY <1>9 DEF StopExecution, SchedGoto, LockOf, EarlyOf, IsTerminal, holder, background, tool
<1>10. CASE BeginsStreaming(t)
  BY <1>10 DEF BeginsStreaming, LockOf, EarlyOf, IsTerminal, holder, background, tool
<1>11. CASE ExecStores(t)
  BY <1>11 DEF ExecStores, StoreFields, MayStore, TooLate, Conclusions, LockOf, EarlyOf, IsTerminal, holder, background, tool
<1>12. CASE ExecStored(t)
  BY <1>12 DEF ExecStored, StoreStatus, LockOf, EarlyOf, IsTerminal, holder, background, tool
<1>13. CASE PollDone(t)
  BY <1>13 DEF PollDone, CleanedUp, IsConcluded, Report, Usage, Goto, LockOf, EarlyOf, IsTerminal, holder, background, tool
<1>14. CASE PollRunning(t)
  BY <1>14 DEF PollRunning, Goto, LockOf, EarlyOf, IsTerminal, holder, background, tool
<1>15. CASE PollAgain(t)
  BY <1>15 DEF PollAgain, Goto, LockOf, EarlyOf, IsTerminal, holder, background, tool
<1>16. CASE PollLimit(t)
  BY <1>16 DEF PollLimit, RequestCancel, Report, Usage, Goto, LockOf, EarlyOf, IsTerminal, holder, background, tool
<1>17. CASE CallCancelled(t)
  BY <1>17 DEF CallCancelled, RequestCancel, Goto, LockOf, EarlyOf, IsTerminal, holder, background, tool
<1>18. CASE CallRaises(t)
  BY <1>18 DEF CallRaises, CleanedUp, IsConcluded, Report, Usage, Goto, LockOf, EarlyOf, IsTerminal, holder, background, tool
<1>19. CASE DeferredCleanup(t)
  BY <1>19 DEF DeferredCleanup, CleanedUp, IsConcluded, LockOf, EarlyOf, IsTerminal, holder, background, tool
<1>20. CASE CallBreaks(t)
  BY <1>20 DEF CallBreaks, Report, Goto, LockOf, EarlyOf, IsTerminal, holder, background, tool
<1> QED
  BY <1>1, <1>2, <1>3, <1>4, <1>5, <1>6, <1>7, <1>8, <1>9, <1>10, <1>11, <1>12, <1>13, <1>14, <1>15, <1>16, <1>17, <1>18, <1>19, <1>20
     DEF StepOf, Scheduler, Execution, Call

LEMMA AnswerStep ==
  ASSUME SubagentInv, NEW t \in Task, StepOf(t)
  PROVE  AnswerOf(t)'
<1> TypeOK /\ LockOf(t) /\ EarlyOf(t) /\ AnswerOf(t)
  BY DEF SubagentInv, TaskInv
<1> USE DEF TypeOK, Excuse
<1>1. CASE StartTask(t)
  BY <1>1 DEF StartTask, Goto, AnswerOf, LockOf, EarlyOf, IsTerminal, holder, background, tool
<1>2. CASE RunTask(t)
  BY <1>2 DEF RunTask, SchedGoto, AnswerOf, LockOf, EarlyOf, IsTerminal, holder, background, tool
<1>3. CASE Submit(t)
  BY <1>3 DEF Submit, SchedGoto, AnswerOf, LockOf, EarlyOf, IsTerminal, holder, background, tool
<1>4. CASE SubmitFails(t)
  BY <1>4 DEF SubmitFails, SchedGoto, AnswerOf, LockOf, EarlyOf, IsTerminal, holder, background, tool
<1>5. CASE WaitEnds(t)
  BY <1>5 DEF WaitEnds, SchedGoto, AnswerOf, LockOf, EarlyOf, IsTerminal, holder, background, tool
<1>6. CASE TimesOut(t)
  BY <1>6 DEF TimesOut, SchedGoto, AnswerOf, LockOf, EarlyOf, IsTerminal, holder, background, tool
<1>7. CASE SchedStores(t)
  BY <1>7 DEF SchedStores, SchedGoto, SchedVerdict, StoreFields, MayStore, TooLate, AnswerOf, LockOf, EarlyOf, IsTerminal, holder, background, tool
<1>8. CASE SchedStored(t)
  BY <1>8 DEF SchedStored, SchedGoto, StoreStatus, AnswerOf, LockOf, EarlyOf, IsTerminal, holder, background, tool
<1>9. CASE StopExecution(t)
  BY <1>9 DEF StopExecution, SchedGoto, AnswerOf, LockOf, EarlyOf, IsTerminal, holder, background, tool
<1>10. CASE BeginsStreaming(t)
  BY <1>10 DEF BeginsStreaming, AnswerOf, LockOf, EarlyOf, IsTerminal, holder, background, tool
<1>11. CASE ExecStores(t)
  BY <1>11 DEF ExecStores, StoreFields, MayStore, TooLate, Conclusions, AnswerOf, LockOf, EarlyOf, IsTerminal, holder, background, tool
<1>12. CASE ExecStored(t)
  BY <1>12 DEF ExecStored, StoreStatus, AnswerOf, LockOf, EarlyOf, IsTerminal, holder, background, tool
<1>13. CASE PollDone(t)
  BY <1>13 DEF PollDone, CleanedUp, IsConcluded, Report, Usage, Goto, AnswerOf, LockOf, EarlyOf, IsTerminal, holder, background, tool
<1>14. CASE PollRunning(t)
  BY <1>14 DEF PollRunning, Goto, AnswerOf, LockOf, EarlyOf, IsTerminal, holder, background, tool
<1>15. CASE PollAgain(t)
  BY <1>15 DEF PollAgain, Goto, AnswerOf, LockOf, EarlyOf, IsTerminal, holder, background, tool
<1>16. CASE PollLimit(t)
  BY <1>16 DEF PollLimit, RequestCancel, Report, Usage, Goto, AnswerOf, LockOf, EarlyOf, IsTerminal, holder, background, tool
<1>17. CASE CallCancelled(t)
  BY <1>17 DEF CallCancelled, RequestCancel, Goto, AnswerOf, LockOf, EarlyOf, IsTerminal, holder, background, tool
<1>18. CASE CallRaises(t)
  BY <1>18 DEF CallRaises, CleanedUp, IsConcluded, Report, Usage, Goto, AnswerOf, LockOf, EarlyOf, IsTerminal, holder, background, tool
<1>19. CASE DeferredCleanup(t)
  BY <1>19 DEF DeferredCleanup, CleanedUp, IsConcluded, AnswerOf, LockOf, EarlyOf, IsTerminal, holder, background, tool
<1>20. CASE CallBreaks(t)
  BY <1>20 DEF CallBreaks, Report, Goto, AnswerOf, LockOf, EarlyOf, IsTerminal, holder, background, tool
<1> QED
  BY <1>1, <1>2, <1>3, <1>4, <1>5, <1>6, <1>7, <1>8, <1>9, <1>10, <1>11, <1>12, <1>13, <1>14, <1>15, <1>16, <1>17, <1>18, <1>19, <1>20
     DEF StepOf, Scheduler, Execution, Call

-----------------------------------------------------------------------------
LEMMA NextStep == SubagentInv /\ Next => SubagentInv'
<1> SUFFICES ASSUME SubagentInv, NEW t \in Task, StepOf(t) PROVE SubagentInv'
  BY DEF Next, StepOf
<1> TypeOK
  BY DEF SubagentInv
<1>1. Cardinality(Busy') <= PoolSize
  <2>1. CASE RunTask(t)
    BY <2>1, BusyGrows
  <2>2. CASE ~RunTask(t)
    <3>1. Busy' \subseteq Busy
      BY <2>2 DEF StepOf, Scheduler, Execution, Call, TypeOK, Busy, StartTask, Submit, SubmitFails,
         WaitEnds, TimesOut, SchedStores, SchedStored, StopExecution, SchedGoto, BeginsStreaming,
         ExecStores, ExecStored, PollDone, PollRunning, PollAgain, PollLimit, CallCancelled,
         CallRaises, CallBreaks, DeferredCleanup, background
    <3> QED BY <3>1, BusyShrinks
  <2> QED BY <2>1, <2>2
<1>2. TypeOK'
  BY <1>1, TypesStep DEF TypesOnly, TypeOK
<1>3. LockOf(t)' /\ EarlyOf(t)' /\ AnswerOf(t)'
  BY LockStep, EarlyStep, AnswerStep
<1>4. \A u \in Task \ {t} : LockOf(u)' /\ EarlyOf(u)' /\ AnswerOf(u)'
  BY OnlyItsTask, UntouchedInv DEF SubagentInv, TaskInv
<1> QED
  BY <1>2, <1>3, <1>4 DEF SubagentInv, TaskInv

LEMMA StutterInv == SubagentInv /\ UNCHANGED vars => SubagentInv'
BY DEF SubagentInv, vars, TypeOK, Busy, TaskInv, LockOf, EarlyOf, AnswerOf, IsTerminal

\* SubagentInv is inductive.
LEMMA Invariance == Spec => []SubagentInv
<1>1. SubagentInv /\ [Next]_vars => SubagentInv'
  BY NextStep, StutterInv
<1> QED
  BY <1>1, InitInv, PTL DEF Spec

\* Every variable keeps its type, and never more than PoolSize threads run a
\* task, for every number of tasks (SubagentResult, _scheduler_pool).
THEOREM TypeCorrect == Spec => []TypeOK
BY Invariance, PTL DEF SubagentInv

\* A call that saw the verdict gave all of its usage to the parent's journal, or
\* to nobody for want of one that takes it (_report_subagent_usage).
THEOREM UsageReported == Spec => []AnsweredUsageReported
<1>1. SubagentInv => AnsweredUsageReported
  BY DEF SubagentInv, TaskInv, AnswerOf, AnsweredUsageReported
<1> QED
  BY <1>1, Invariance, PTL

\* The entry of a task that is queued or whose submission failed is there, so
\* the threads of execute_async never meet a KeyError, and a call that answered
\* or was cancelled leaves its entry to a deferred cleanup, or none.
THEOREM EntriesAreKept == Spec => []EntriesKept
<1>1. SubagentInv => EntryOutlivesWork
  BY DEF SubagentInv, TaskInv, EarlyOf, EntryOutlivesWork
<1>2. SubagentInv => NoEntryForgotten
  BY DEF SubagentInv, TypeOK, TaskInv, AnswerOf, NoEntryForgotten
<1>3. SubagentInv => EntriesKept
  BY <1>1, <1>2 DEF SubagentInv, EntriesKept
<1> QED
  BY <1>3, Invariance, PTL

-----------------------------------------------------------------------------
(* The refinement. *)

\* A holder shows what was decided, never a torn verdict.
LEMMA Whole ==
  ASSUME SubagentInv, NEW u \in Task
  PROVE  /\ Shown(u) = IF IsTerminal(u) THEN status[u] ELSE "open"
         /\ Said(u) = answer[u][1]
BY DEF SubagentInv, TaskInv, LockOf, AnswerOf, Shown, Said, IsTerminal

LEMMA WholeNext ==
  ASSUME SubagentInv', NEW u \in Task
  PROVE  /\ Shown(u)' = IF IsTerminal(u)' THEN status'[u] ELSE "open"
         /\ Said(u)' = answer'[u][1]
BY DEF SubagentInv, TaskInv, LockOf, AnswerOf, Shown, Said, IsTerminal

\* The other tasks show and say what they did.
LEMMA OthersShow ==
  ASSUME NEW u \in Task, Untouched(u)
  PROVE  Shown(u)' = Shown(u) /\ Said(u)' = Said(u)
BY DEF Untouched, Shown, Said, IsTerminal

\* What a step of a task can do to what is shown and said.
Decides(t) == Shown(t) = "open" /\ Shown(t)' \in Terminal /\ Said(t)' = Said(t)
Answers(t) == Said(t) = "none" /\ Shown(t) # "open" /\ Said(t)' = Shown(t) /\ Shown(t)' = Shown(t)
Abandons(t) == Said(t) = "none" /\ Said(t)' \in Excuse /\ Shown(t)' = Shown(t)
Same(t) == Said(t)' = Said(t) /\ Shown(t)' = Shown(t)

LEMMA ShowStep ==
  ASSUME SubagentInv, SubagentInv', NEW t \in Task, StepOf(t)
  PROVE  Decides(t) \/ Answers(t) \/ Abandons(t) \/ Same(t)
<1> USE DEF IsTerminal, holder, background, tool
<1> TypeOK /\ LockOf(t) /\ EarlyOf(t) /\ AnswerOf(t)
  BY DEF SubagentInv, TaskInv
<1>0. /\ Shown(t) = IF IsTerminal(t) THEN status[t] ELSE "open"
      /\ Said(t) = answer[t][1]
      /\ Shown(t)' = IF IsTerminal(t)' THEN status'[t] ELSE "open"
      /\ Said(t)' = answer'[t][1]
  BY Whole, WholeNext
<1> USE DEF TypeOK, LockOf, EarlyOf
<1>1. ASSUME StartTask(t) PROVE Same(t)
  BY <1>0, <1>1 DEF StartTask, Goto, Same
<1>2. ASSUME RunTask(t) PROVE Same(t)
  BY <1>0, <1>2 DEF RunTask, SchedGoto, Same
<1>3. ASSUME Submit(t) PROVE Same(t)
  BY <1>0, <1>3 DEF Submit, SchedGoto, Same
<1>4. ASSUME SubmitFails(t) PROVE Same(t)
  BY <1>0, <1>4 DEF SubmitFails, SchedGoto, Same
<1>5. ASSUME WaitEnds(t) PROVE Same(t)
  BY <1>0, <1>5 DEF WaitEnds, SchedGoto, Same
<1>6. ASSUME TimesOut(t) PROVE Same(t)
  BY <1>0, <1>6 DEF TimesOut, SchedGoto, Same
<1>7. ASSUME SchedStores(t) PROVE Same(t)
  BY <1>0, <1>7 DEF SchedStores, SchedGoto, SchedVerdict, StoreFields, MayStore, TooLate, Same
<1>8. ASSUME SchedStored(t) PROVE Decides(t)
  BY <1>0, <1>8 DEF SchedStored, SchedGoto, StoreStatus, Decides
<1>9. ASSUME StopExecution(t) PROVE Same(t)
  BY <1>0, <1>9 DEF StopExecution, SchedGoto, Same
<1>10. ASSUME BeginsStreaming(t) PROVE Same(t)
  BY <1>0, <1>10 DEF BeginsStreaming, Same
<1>11. ASSUME ExecStores(t) PROVE Same(t)
  BY <1>0, <1>11 DEF ExecStores, StoreFields, MayStore, TooLate, Conclusions, Same
<1>12. ASSUME ExecStored(t) PROVE Decides(t)
  BY <1>0, <1>12 DEF ExecStored, StoreStatus, Decides
<1>13. ASSUME PollDone(t) PROVE Answers(t)
  BY <1>0, <1>13 DEF PollDone, CleanedUp, IsConcluded, Report, Usage, Goto, Answers, AnswerOf, Excuse
<1>14. ASSUME PollRunning(t) PROVE Same(t)
  BY <1>0, <1>14 DEF PollRunning, Goto, Same
<1>15. ASSUME PollAgain(t) PROVE Same(t)
  BY <1>0, <1>15 DEF PollAgain, Goto, Same
<1>16. ASSUME PollLimit(t) PROVE Abandons(t)
  BY <1>0, <1>16 DEF PollLimit, RequestCancel, Report, Usage, Goto, Abandons, AnswerOf, Excuse
<1>17. ASSUME CallCancelled(t) PROVE Same(t)
  BY <1>0, <1>17 DEF CallCancelled, RequestCancel, Goto, Same
<1>18. ASSUME CallRaises(t) PROVE Abandons(t)
  BY <1>0, <1>18 DEF CallRaises, CleanedUp, IsConcluded, Report, Usage, Goto, Abandons, AnswerOf, Excuse
<1>19. ASSUME DeferredCleanup(t) PROVE Same(t)
  BY <1>0, <1>19 DEF DeferredCleanup, CleanedUp, IsConcluded, Same
<1>20. ASSUME CallBreaks(t) PROVE Abandons(t)
  BY <1>0, <1>20 DEF CallBreaks, Report, Goto, Abandons, AnswerOf, Excuse
<1> QED
  BY <1>1, <1>2, <1>3, <1>4, <1>5, <1>6, <1>7, <1>8, <1>9, <1>10, <1>11, <1>12, <1>13, <1>14, <1>15, <1>16, <1>17, <1>18, <1>19, <1>20
     DEF StepOf, Scheduler, Execution, Call

LEMMA RefineStep == SubagentInv /\ SubagentInv' /\ [Next]_vars => [Promise!Next]_(Promise!vars)
<1> SUFFICES ASSUME SubagentInv, SubagentInv', [Next]_vars
             PROVE  [Promise!Next]_(Promise!vars)
  OBVIOUS
<1>1. CASE UNCHANGED vars
  BY <1>1 DEF vars, Promise!vars, Shown, Said, IsTerminal
<1>2. ASSUME NEW t \in Task, StepOf(t) PROVE [Promise!Next]_(Promise!vars)
  <2>1. \A u \in Task \ {t} : Shown(u)' = Shown(u) /\ Said(u)' = Said(u)
    BY <1>2, OnlyItsTask, OthersShow DEF SubagentInv
  <2>2. CASE Decides(t)
    <3>1. Promise!Decide(t)
      BY <2>1, <2>2 DEF Decides, Promise!Decide
    <3> QED BY <3>1 DEF Promise!Next
  <2>3. CASE Answers(t)
    <3>1. Promise!Answer(t)
      BY <2>1, <2>3 DEF Answers, Promise!Answer
    <3> QED BY <3>1 DEF Promise!Next
  <2>4. CASE Abandons(t)
    <3>1. Promise!Abandon(t)
      BY <2>1, <2>4 DEF Abandons, Promise!Abandon
    <3> QED BY <3>1 DEF Promise!Next
  <2>5. CASE Same(t)
    BY <2>1, <2>5 DEF Same, Promise!vars
  <2> QED BY <1>2, <2>2, <2>3, <2>4, <2>5, ShowStep
<1> QED
  BY <1>1, <1>2 DEF Next, StepOf

LEMMA RefineInit == Init => Promise!Init
BY DEF Init, Promise!Init, Shown, Said, IsTerminal

\* The background tasks implement TaskOutcome: one verdict per task, whole and
\* final, and the call answers that verdict or none.
THEOREM Refinement == Spec => ImplementsTaskOutcome
<1>1. SubagentInv /\ SubagentInv' /\ [Next]_vars => [Promise!Next]_(Promise!vars)
  BY RefineStep
<1> QED
  BY <1>1, RefineInit, Invariance, PTL DEF Spec, ImplementsTaskOutcome, Promise!Spec
=============================================================================
