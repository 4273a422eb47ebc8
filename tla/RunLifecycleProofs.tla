------------------------- MODULE RunLifecycleProofs -------------------------
(***************************************************************************)
(* Theorems of RunLifecycle for every number of runs and threads: types,   *)
(* what the admission of runs guarantees, and that the durable stores      *)
(* agree with the records.                                                 *)
(***************************************************************************)
EXTENDS RunLifecycle, TLAPS

\* A status write keeps the types of the store.
LEMMA WriteRowType ==
  ASSUME TypeOK, NEW r \in Run, NEW v \in Status \cup {"absent"}, WriteRow(r, v)
  PROVE  /\ row' \in [Run -> Status \cup {"none", "absent"}]
         /\ lossy' \in [Run -> BOOLEAN]
         /\ failures' \in 0..MaxFailures
<1> USE DEF TypeOK, StoresOK
<1>1. CASE row' = [row EXCEPT ![r] = v] /\ UNCHANGED <<lossy, failures>>
  BY <1>1
<1>2. CASE Fail /\ lossy' = [lossy EXCEPT ![r] = TRUE] /\ UNCHANGED row
  <2>1. failures' \in 0..MaxFailures
    BY <1>2, BoundAssumption DEF Fail
  <2>2. lossy' \in [Run -> BOOLEAN]
    BY <1>2, Zenon
  <2> QED BY <2>1, <2>2, <1>2
<1> QED BY <1>1, <1>2 DEF WriteRow

\* So does an interruption of the records.
LEMMA InterruptType ==
  ASSUME TypeOK, NEW V \in SUBSET Run, NEW a \in Strategy, Interrupt(V, a),
         V # {} => a \in Action
  PROVE  /\ finalizing' \in [Run -> BOOLEAN]
         /\ abort' \in [Run -> Action \cup {"none"}]
         /\ cancelReq' \in [Run -> BOOLEAN]
         /\ detached' \in [Run -> BOOLEAN]
<1> USE DEF TypeOK, RecordsOK, Interrupt, TaskActive
<1>1. finalizing' \in [Run -> BOOLEAN]
  <2>1. ASSUME NEW r \in Run
        PROVE  (IF r \in V THEN TaskActive(r) ELSE finalizing[r]) \in BOOLEAN
    <3>1. CASE r \in V
      BY <3>1
    <3>2. CASE r \notin V
      BY <3>2
    <3> QED BY <3>1, <3>2
  <2> QED BY <2>1, Zenon
<1>2. abort' \in [Run -> Action \cup {"none"}]
  BY DEF Strategy
<1>3. cancelReq' \in [Run -> BOOLEAN]
  BY Zenon
<1>4. detached' \in [Run -> BOOLEAN]
  BY Zenon
<1> QED BY <1>1, <1>2, <1>3, <1>4

\* Every step keeps every variable in its type.
LEMMA TypeStep == TypeOK /\ [Next]_vars => TypeOK'
<1> SUFFICES ASSUME TypeOK, [Next]_vars PROVE TypeOK'
  OBVIOUS
<1> USE RunAssumption, BoundAssumption
    DEF TypeOK, RecordsOK, IndexOK, LocalOK, StoresOK, ThreadsOK, ProcessOK,
        records, index, local, stores, threads, process
<1>1. CASE UNCHANGED vars
  BY <1>1 DEF vars
<1>2. ASSUME NEW r \in Run, NEW s \in Strategy, CreateBegin(r, s) PROVE TypeOK'
  BY <1>2 DEF CreateBegin, Goto, Status, Active, RequestPc
<1>3. ASSUME NEW r \in Run, CreateConflict(r) PROVE TypeOK'
  BY <1>3 DEF CreateConflict, Goto,
        Active, Terminal, Status, Action, Strategy, Work, RequestPc, BodyPc, FinalPc, TaskPc, StoppedPc
<1>4. ASSUME NEW r \in Run, CreateCommit(r) PROVE TypeOK'
  <2>1. /\ Replaced(r) \in SUBSET Run
        /\ Replaced(r) # {} => strategy[r] \in Action
    BY DEF Replaced, Inflight, Strategy
  <2>2. /\ finalizing' \in [Run -> BOOLEAN]
        /\ abort' \in [Run -> Action \cup {"none"}]
        /\ cancelReq' \in [Run -> BOOLEAN]
        /\ detached' \in [Run -> BOOLEAN]
    BY <1>4, <2>1, InterruptType DEF CreateCommit
  <2>3. RecordsOK'
    BY <1>4, <2>1, <2>2 DEF CreateCommit, Status, Terminal
  <2>4. StoresOK'
    BY <1>4, <2>1 DEF CreateCommit, Status, Active
  <2>5. IndexOK' /\ LocalOK'
    BY <1>4 DEF CreateCommit, Goto, Strategy, RequestPc
  <2> QED BY <1>4, <2>3, <2>4, <2>5 DEF CreateCommit
<1>5. ASSUME NEW r \in Run, CreateFails(r) PROVE TypeOK'
  <2>1. failures' \in 0..MaxFailures
    BY <1>5 DEF CreateFails, Fail
  <2>2. row' \in [Run -> Status \cup {"none", "absent"}]
    BY <1>5 DEF CreateFails, Status, Active
  <2>3. lossy' \in [Run -> BOOLEAN]
    BY <1>5, Zenon DEF CreateFails
  <2>4. RecordsOK' /\ IndexOK' /\ LocalOK'
    BY <1>5 DEF CreateFails, Goto, Strategy, StoppedPc
  <2> QED BY <1>5, <2>1, <2>2, <2>3, <2>4 DEF CreateFails
<1>6. ASSUME NEW r \in Run, Notified(r) PROVE TypeOK'
  BY <1>6 DEF Notified, Goto,
        Active, Terminal, Status, Action, Strategy, Work, RequestPc, BodyPc, FinalPc, TaskPc, StoppedPc
<1>7. ASSUME NEW r \in Run, PrepareThread(r) PROVE TypeOK'
  <2>1. failures' \in 0..MaxFailures
    BY <1>7 DEF PrepareThread, Fail
  <2>2. threadStatus' \in [Thread -> (Status \ {"success"}) \cup {"none", "idle", "absent"}]
    BY <1>7 DEF PrepareThread, Status, Active
  <2>3. pc' \in [Run -> RequestPc \cup TaskPc \cup StoppedPc]
    BY <1>7 DEF PrepareThread, Goto, RequestPc
  <2> QED BY <1>7, <2>1, <2>2, <2>3 DEF PrepareThread
<1>8. ASSUME NEW r \in Run, LaunchFails(r) PROVE TypeOK'
  <2>1. failures' \in 0..MaxFailures
    BY <1>8 DEF LaunchFails, Fail
  <2>2. pc' \in [Run -> RequestPc \cup TaskPc \cup StoppedPc]
    BY <1>8 DEF LaunchFails, Goto, StoppedPc
  <2> QED BY <1>8, <2>1, <2>2 DEF LaunchFails
<1>9. ASSUME NEW r \in Run, Attach(r) PROVE TypeOK'
  BY <1>9 DEF Attach, Goto,
        Active, Terminal, Status, Action, Strategy, Work, RequestPc, BodyPc, FinalPc, TaskPc, StoppedPc
<1>10. ASSUME NEW r \in Run, NeverStarts(r) PROVE TypeOK'
  BY <1>10 DEF NeverStarts, Goto,
        Active, Terminal, Status, Action, Strategy, Work, RequestPc, BodyPc, FinalPc, TaskPc, StoppedPc
<1>11. ASSUME NEW r \in Run, Starts(r) PROVE TypeOK'
  BY <1>11 DEF Starts, Goto,
        Active, Terminal, Status, Action, Strategy, Work, RequestPc, BodyPc, FinalPc, TaskPc, StoppedPc
<1>12. ASSUME NEW r \in Run, PriorSettled(r) PROVE TypeOK'
  BY <1>12 DEF PriorSettled, Goto,
        Active, Terminal, Status, Action, Strategy, Work, RequestPc, BodyPc, FinalPc, TaskPc, StoppedPc
<1>13. ASSUME NEW r \in Run, MarkRunning(r) PROVE TypeOK'
  BY <1>13 DEF MarkRunning, Goto,
        Active, Terminal, Status, Action, Strategy, Work, RequestPc, BodyPc, FinalPc, TaskPc, StoppedPc
<1>14. ASSUME NEW r \in Run, SaveRunning(r) PROVE TypeOK'
  <2>1. /\ row' \in [Run -> Status \cup {"none", "absent"}]
        /\ lossy' \in [Run -> BOOLEAN]
        /\ failures' \in 0..MaxFailures
    BY <1>14, WriteRowType DEF SaveRunning, Status, Active
  <2>2. LocalOK'
    BY <1>14 DEF SaveRunning, Goto, TaskPc, BodyPc
  <2> QED BY <1>14, <2>1, <2>2 DEF SaveRunning
<1>15. ASSUME NEW r \in Run, Snapshot(r) PROVE TypeOK'
  <2>1. failures' \in 0..MaxFailures
    BY <1>15 DEF Snapshot, Fail
  <2>2. pc' \in [Run -> RequestPc \cup TaskPc \cup StoppedPc]
    BY <1>15 DEF Snapshot, Goto, TaskPc, BodyPc
  <2>3. snap' \in [Run -> {"unset", "none", "taken", "failed"}]
    BY <1>15 DEF Snapshot
  <2>4. snapWork' \in [Run -> SUBSET Work] /\ base' \in [Run -> SUBSET Work]
    BY <1>15 DEF Snapshot
  <2>5. stream' \in [Run -> {"none", "open", "ended"}]
    BY <1>15 DEF Snapshot
  <2> QED BY <1>15, <2>1, <2>2, <2>3, <2>4, <2>5 DEF Snapshot
<1>16. ASSUME NEW r \in Run, FinalStatus(r) PROVE TypeOK'
  BY <1>16 DEF FinalStatus, Goto,
        Active, Terminal, Status, Action, Strategy, Work, RequestPc, BodyPc, FinalPc, TaskPc, StoppedPc
<1>17. ASSUME NEW r \in Run, FinalAborted(r) PROVE TypeOK'
  BY <1>17 DEF FinalAborted, Goto,
        Active, Terminal, Status, Action, Strategy, Work, RequestPc, BodyPc, FinalPc, TaskPc, StoppedPc
<1>18. ASSUME NEW r \in Run, MarkError(r) PROVE TypeOK'
  BY <1>18 DEF MarkError, Goto,
        Active, Terminal, Status, Action, Strategy, Work, RequestPc, BodyPc, FinalPc, TaskPc, StoppedPc
<1>19. ASSUME NEW r \in Run, DeliverCancel(r) PROVE TypeOK'
  BY <1>19 DEF DeliverCancel, Goto,
        Active, Terminal, Status, Action, Strategy, Work, RequestPc, BodyPc, FinalPc, TaskPc, StoppedPc
<1>20. ASSUME NEW r \in Run, BeginFinalizing(r) PROVE TypeOK'
  BY <1>20 DEF BeginFinalizing, Goto,
        Active, Terminal, Status, Action, Strategy, Work, RequestPc, BodyPc, FinalPc, TaskPc, StoppedPc
<1>21. ASSUME NEW r \in Run, MarkAborted(r) PROVE TypeOK'
  BY <1>21 DEF MarkAborted, Goto,
        Active, Terminal, Status, Action, Strategy, Work, RequestPc, BodyPc, FinalPc, TaskPc, StoppedPc
<1>22. ASSUME NEW r \in Run, SaveFinal(r) PROVE TypeOK'
  <2>1. /\ row' \in [Run -> Status \cup {"none", "absent"}]
        /\ lossy' \in [Run -> BOOLEAN]
        /\ failures' \in 0..MaxFailures
    BY <1>22, WriteRowType DEF SaveFinal
  <2>2. LocalOK'
    BY <1>22 DEF SaveFinal, Goto, TaskPc, FinalPc
  <2> QED BY <1>22, <2>1, <2>2 DEF SaveFinal
<1>23. ASSUME NEW r \in Run, Rollback(r) PROVE TypeOK'
  <2>1. failures' \in 0..MaxFailures
    BY <1>23 DEF Rollback, Fail
  <2>2. ckpt' \in [Thread -> SUBSET Work]
    BY <1>23 DEF Rollback, RestoredHead
  <2>3. pc' \in [Run -> RequestPc \cup TaskPc \cup StoppedPc]
    BY <1>23 DEF Rollback, Goto, FinalPc, TaskPc
  <2> QED BY <1>23, <2>1, <2>2, <2>3 DEF Rollback
<1>24. ASSUME NEW r \in Run, Complete(r) PROVE TypeOK'
  BY <1>24 DEF Complete, Goto,
        Active, Terminal, Status, Action, Strategy, Work, RequestPc, BodyPc, FinalPc, TaskPc, StoppedPc
<1>25. ASSUME NEW r \in Run, TitleRead(r) PROVE TypeOK'
  <2>1. LocalOK'
    <3>1. CASE LaterStartedRun(r)
      BY <1>25, <3>1 DEF TitleRead, Goto, TaskPc, FinalPc
    <3>2. CASE ~LaterStartedRun(r)
      BY <1>25, <3>2 DEF TitleRead, Goto, TaskPc, FinalPc
    <3> QED BY <3>1, <3>2
  <2> QED BY <1>25, <2>1 DEF TitleRead
<1>26. ASSUME NEW r \in Run, TitleWrite(r) PROVE TypeOK'
  BY <1>26 DEF TitleWrite, Goto,
        Active, Terminal, Status, Action, Strategy, Work, RequestPc, BodyPc, FinalPc, TaskPc, StoppedPc
<1>27. ASSUME NEW r \in Run, UpdateThread(r) PROVE TypeOK'
  <2>1. ThreadOutcome(r) \in (Status \ {"success"}) \cup {"idle", "absent"}
    BY DEF ThreadOutcome
  <2>2. ThreadsOK'
    BY <1>27, <2>1 DEF UpdateThread
  <2>3. LocalOK' /\ StoresOK'
    BY <1>27 DEF UpdateThread, Goto, Fail, TaskPc, FinalPc
  <2> QED BY <1>27, <2>2, <2>3 DEF UpdateThread
<1>28. ASSUME NEW r \in Run, EndFinalizing(r) PROVE TypeOK'
  BY <1>28 DEF EndFinalizing, Goto,
        Active, Terminal, Status, Action, Strategy, Work, RequestPc, BodyPc, FinalPc, TaskPc, StoppedPc
<1>29. ASSUME NEW r \in Run, PublishEnd(r) PROVE TypeOK'
  BY <1>29 DEF PublishEnd, Goto,
        Active, Terminal, Status, Action, Strategy, Work, RequestPc, BodyPc, FinalPc, TaskPc, StoppedPc
<1>30. ASSUME NEW r \in Run, StreamChunk(r) PROVE TypeOK'
  BY <1>30 DEF StreamChunk, Goto,
        Active, Terminal, Status, Action, Strategy, Work, RequestPc, BodyPc, FinalPc, TaskPc, StoppedPc
<1>31. ASSUME NEW r \in Run, StreamEnds(r) PROVE TypeOK'
  BY <1>31 DEF StreamEnds, Goto,
        Active, Terminal, Status, Action, Strategy, Work, RequestPc, BodyPc, FinalPc, TaskPc, StoppedPc
<1>32. ASSUME NEW r \in Run, GoalTurn(r) PROVE TypeOK'
  BY <1>32 DEF GoalTurn, Goto,
        Active, Terminal, Status, Action, Strategy, Work, RequestPc, BodyPc, FinalPc, TaskPc, StoppedPc
<1>33. ASSUME NEW r \in Run, StreamRaises(r) PROVE TypeOK'
  BY <1>33 DEF StreamRaises, Goto,
        Active, Terminal, Status, Action, Strategy, Work, RequestPc, BodyPc, FinalPc, TaskPc, StoppedPc
<1>34. ASSUME NEW r \in Run, NEW o \in Run \cup {None}, PersistInterrupted(<<o, r>>)
      PROVE TypeOK'
  <2>1. /\ row' \in [Run -> Status \cup {"none", "absent"}]
        /\ lossy' \in [Run -> BOOLEAN]
        /\ failures' \in 0..MaxFailures
    BY <1>34, WriteRowType DEF PersistInterrupted, Status, Terminal
  <2> QED BY <1>34, <2>1 DEF PersistInterrupted
<1>35. ASSUME NEW r \in Run, NEW a \in Action, Cancel(r, a) PROVE TypeOK'
  <2>1. /\ finalizing' \in [Run -> BOOLEAN]
        /\ abort' \in [Run -> Action \cup {"none"}]
        /\ cancelReq' \in [Run -> BOOLEAN]
        /\ detached' \in [Run -> BOOLEAN]
    BY <1>35, InterruptType DEF Cancel, Strategy
  <2>2. RecordsOK'
    BY <1>35, <2>1 DEF Cancel, Status, Terminal
  <2>3. StoresOK' /\ ProcessOK'
    BY <1>35 DEF Cancel
  <2> QED BY <1>35, <2>2, <2>3 DEF Cancel
<1>36. CASE Shutdown
  <2>1. cancelReq' \in [Run -> BOOLEAN]
    BY <1>36, Zenon DEF Shutdown
  <2>2. abort' \in [Run -> Action \cup {"none"}]
    BY <1>36 DEF Shutdown, Action
  <2> QED BY <1>36, <2>1, <2>2 DEF Shutdown
<1>37. CASE DrainEnds
  <2>1. mem' \in [Run -> Status \cup {"absent"}]
    BY <1>37 DEF DrainEnds, Unsettled, Status, Terminal
  <2>2. row' \in [Run -> Status \cup {"none", "absent"}]
    BY <1>37 DEF DrainEnds, Unsettled, Status, Terminal
  <2>3. lossy' \in [Run -> BOOLEAN]
    <3>1. CASE UNCHANGED lossy
      BY <3>1
    <3>2. CASE lossy' = [r \in Run |-> lossy[r] \/ r \in Unsettled]
      BY <3>2, Zenon
    <3>3. UNCHANGED lossy \/ lossy' = [r \in Run |-> lossy[r] \/ r \in Unsettled]
      BY <1>37, Zenon DEF DrainEnds
    <3> QED BY <3>1, <3>2, <3>3
  <2>4. proc' \in {"closed", "closedLate"}
    BY <1>37 DEF DrainEnds
  <2> QED BY <1>37, <2>1, <2>2, <2>3, <2>4 DEF DrainEnds
<1>38. CASE Exit
  <2>1. RecordsOK'
    BY <1>38 DEF Exit
  <2>2. IndexOK' /\ ProcessOK'
    BY <1>38 DEF Exit, Strategy
  <2>3. LocalOK'
    BY <1>38 DEF Exit, StoppedPc
  <2>4. ThreadsOK' /\ StoresOK'
    BY <1>38 DEF Exit
  <2> QED BY <2>1, <2>2, <2>3, <2>4
<1>39. CASE Restart
  <2>1. CASE Reconcile
    <3>1. PICK failed \in SUBSET Orphans :
            /\ row' = [r \in Run |-> IF r \in Orphans \ failed THEN "error" ELSE row[r]]
            /\ lossy' = [r \in Run |-> lossy[r] \/ r \in failed]
      BY <2>1, ZenonT(30) DEF Reconcile
    <3>2. failures' \in 0..MaxFailures
      <4>1. failures' = failures \/ Fail
        BY <2>1, Zenon DEF Reconcile
      <4> QED BY <4>1 DEF Fail
    <3>3. row' \in [Run -> Status \cup {"none", "absent"}]
      BY <3>1 DEF Status, Terminal
    <3>4. lossy' \in [Run -> BOOLEAN]
      BY <3>1, Zenon
    <3>5. stream' \in [Run -> {"none", "open", "ended"}]
      <4>1. stream' = [r \in Run |-> stream'[r]]
        BY <2>1 DEF Reconcile
      <4>2. \A r \in Run : stream'[r] \in {"ended", stream[r]}
        BY <2>1 DEF Reconcile
      <4> QED BY <4>1, <4>2
    <3>6. threadStatus' \in [Thread -> (Status \ {"success"}) \cup {"none", "idle", "absent"}]
      BY <2>1 DEF Reconcile, Status, Terminal
    <3> QED BY <1>39, <3>2, <3>3, <3>4, <3>5, <3>6 DEF Restart
  <2>2. CASE UNCHANGED <<row, lossy, failures, stream, threadStatus>>
    BY <1>39, <2>2 DEF Restart
  <2> QED BY <1>39, <2>1, <2>2 DEF Restart
<1> QED
  BY <1>1, <1>2, <1>3, <1>4, <1>5, <1>6, <1>7, <1>8, <1>9, <1>10, <1>11, <1>12, <1>13,
     <1>14, <1>15, <1>16, <1>17, <1>18, <1>19, <1>20, <1>21, <1>22, <1>23, <1>24, <1>25,
     <1>26, <1>27, <1>28, <1>29, <1>30, <1>31, <1>32, <1>33, <1>34, <1>35, <1>36, <1>37,
     <1>38, <1>39
  DEF Next, Step, Request, Handler, Task, Finally, Graph

LEMMA TypeInit == Init => TypeOK
  BY RunAssumption, BoundAssumption
  DEF Init, TypeOK, RecordsOK, IndexOK, LocalOK, StoresOK, ThreadsOK, ProcessOK,
      StoppedPc, Strategy, Work

\* Every variable of the lifecycle keeps its type in every execution.
THEOREM TypeCorrect == Spec => []TypeOK
  BY TypeInit, TypeStep, PTL DEF Spec
-----------------------------------------------------------------------------
(* Admission: no graph runs during the cleanup of an older run, and no two   *)
(* graphs of a thread run together.                                          *)

Inv == TypeOK /\ AdmissionInv /\ OlderCleanupFirst

Pc == RequestPc \cup TaskPc \cup StoppedPc

\* A coroutine that moves on from a to b, its record as it was, makes no claim
\* that it did not make before.
Benign(a, b) ==
    /\ a # "creating" /\ b # "idle"
    /\ b \in RequestPc \cup TaskPc => a \in RequestPc \cup TaskPc
    /\ b \in RequestPc => a \in RequestPc
    /\ b \in RequestPc \cup EarlyPc => a \in RequestPc \cup EarlyPc
    /\ b \in {"scheduled"} \cup BodyPc => a \in {"scheduled"} \cup BodyPc
    /\ b \in GraphPc => a \in GraphPc
    /\ b \in {"aborting", "settling"} => a \in {"aborting", "settling"}

LEMMA BenignMove ==
  ASSUME Inv, NEW r \in Run, NEW b \in Pc, Benign(pc[r], b), proc # "down",
         pc' = [pc EXCEPT ![r] = b], proc' = proc,
         UNCHANGED <<records, index>>
  PROVE  AdmissionInv' /\ OlderCleanupFirst'
<1> USE DEF Inv, TypeOK, RecordsOK, IndexOK, LocalOK, records, index
<1>1. LockInv'
  BY DEF AdmissionInv, LockInv, Benign, Inflight
<1>2. ASSUME NEW x \in Run PROVE RunInv(x)'
  BY DEF AdmissionInv, RunInv, Benign, InIndex
<1>3. ASSUME NEW x \in Run, NEW y \in Run PROVE PairInv(x, y)'
  BY DEF AdmissionInv, PairInv, Benign, Earlier, InIndex
<1>4. OlderCleanupFirst'
  BY DEF OlderCleanupFirst, Benign, Earlier, InIndex
<1> QED BY <1>1, <1>2, <1>3, <1>4 DEF AdmissionInv

\* A step of r that changes no record but puts r's coroutine somewhere benign.
LEMMA BenignSteps ==
  ASSUME Inv, NEW r \in Run, proc # "down",
         \/ CreateConflict(r) \/ Notified(r) \/ PrepareThread(r) \/ LaunchFails(r)
         \/ Starts(r) \/ SaveRunning(r) \/ Snapshot(r) \/ SaveFinal(r) \/ Rollback(r)
         \/ Complete(r) \/ TitleRead(r) \/ TitleWrite(r) \/ UpdateThread(r)
         \/ PublishEnd(r) \/ StreamChunk(r) \/ StreamEnds(r) \/ StreamRaises(r)
  PROVE  AdmissionInv' /\ OlderCleanupFirst'
<1> DEFINE Moves(b) == /\ b \in Pc /\ Benign(pc[r], b)
                       /\ pc' = [pc EXCEPT ![r] = b]
<1> USE DEF Goto, Benign, Pc, RequestPc, TaskPc, StoppedPc, EarlyPc, GraphPc, BodyPc, FinalPc
<1>1. CASE CreateConflict(r)
  <2>1. Moves("refused") BY <1>1 DEF CreateConflict
  <2> QED BY <2>1, <1>1, BenignMove DEF CreateConflict, process
<1>2. CASE Notified(r)
  <2>1. Moves("preparing") BY <1>2 DEF Notified
  <2> QED BY <2>1, <1>2, BenignMove DEF Notified, process
<1>3. CASE PrepareThread(r)
  <2>1. Moves("attaching") BY <1>3 DEF PrepareThread
  <2> QED BY <2>1, <1>3, BenignMove DEF PrepareThread, process
<1>4. CASE LaunchFails(r)
  <2>1. Moves("abandoned") BY <1>4 DEF LaunchFails
  <2> QED BY <2>1, <1>4, BenignMove DEF LaunchFails, process
<1>5. CASE Starts(r)
  <2>1. Moves("waiting") BY <1>5 DEF Starts
  <2> QED BY <2>1, <1>5, BenignMove DEF Starts, process
<1>6. CASE SaveRunning(r)
  <2>1. Moves("snapshotting") BY <1>6 DEF SaveRunning
  <2> QED BY <2>1, <1>6, BenignMove DEF SaveRunning, process
<1>7. CASE Snapshot(r)
  <2>1. Moves("streaming") BY <1>7 DEF Snapshot
  <2> QED BY <2>1, <1>7, BenignMove DEF Snapshot, process
<1>8. CASE SaveFinal(r)
  <2>1. Moves("rollingBack") \/ Moves("closing") BY <1>8 DEF SaveFinal
  <2> QED BY <2>1, <1>8, BenignMove DEF SaveFinal, process
<1>9. CASE Rollback(r)
  <2>1. Moves("closing") BY <1>9 DEF Rollback
  <2> QED BY <2>1, <1>9, BenignMove DEF Rollback, process
<1>10. CASE Complete(r)
  <2>1. Moves("titleWait") \/ Moves("threadStatus") BY <1>10 DEF Complete
  <2> QED BY <2>1, <1>10, BenignMove DEF Complete, process
<1>11. CASE TitleRead(r)
  <2>1. Moves("titleWrite") \/ Moves("threadStatus") BY <1>11 DEF TitleRead
  <2> QED BY <2>1, <1>11, BenignMove DEF TitleRead, process
<1>12. CASE TitleWrite(r)
  <2>1. Moves("threadStatus") BY <1>12 DEF TitleWrite
  <2> QED BY <2>1, <1>12, BenignMove DEF TitleWrite, process
<1>13. CASE UpdateThread(r)
  <2>1. Moves("clearing") BY <1>13 DEF UpdateThread
  <2> QED BY <2>1, <1>13, BenignMove DEF UpdateThread, process
<1>14. CASE PublishEnd(r)
  <2>1. Moves("done") BY <1>14 DEF PublishEnd
  <2> QED BY <2>1, <1>14, BenignMove DEF PublishEnd, process
<1>15. CASE StreamChunk(r)
  <2>1. Moves("streaming") \/ Moves("finishing") BY <1>15 DEF StreamChunk
  <2> QED BY <2>1, <1>15, BenignMove DEF StreamChunk, process
<1>16. CASE StreamEnds(r)
  <2>1. Moves("finishing") BY <1>16 DEF StreamEnds
  <2> QED BY <2>1, <1>16, BenignMove DEF StreamEnds, process
<1>17. CASE StreamRaises(r)
  <2>1. Moves("raised") BY <1>17 DEF StreamRaises
  <2> QED BY <2>1, <1>17, BenignMove DEF StreamRaises, process
<1> QED BY <1>1, <1>2, <1>3, <1>4, <1>5, <1>6, <1>7, <1>8, <1>9, <1>10, <1>11,
           <1>12, <1>13, <1>14, <1>15, <1>16, <1>17

\* The records of the runs in V after an interruption, and of the others.
LEMMA InterruptAt ==
  ASSUME TypeOK, NEW V \in SUBSET Run, NEW a, Interrupt(V, a), NEW r \in Run
  PROVE  /\ r \in V => /\ finalizing'[r] = TaskActive(r)
                       /\ abort'[r] = a
                       /\ cancelReq'[r] = (cancelReq[r] \/ TaskActive(r))
                       /\ detached'[r] = (detached[r] \/ ~TaskActive(r))
         /\ r \notin V => /\ finalizing'[r] = finalizing[r]
                          /\ abort'[r] = abort[r]
                          /\ cancelReq'[r] = cancelReq[r]
                          /\ detached'[r] = detached[r]
<1>1. /\ abort'[r] = IF r \in V THEN a ELSE abort[r]
      /\ finalizing'[r] = IF r \in V THEN TaskActive(r) ELSE finalizing[r]
      /\ cancelReq'[r] = (cancelReq[r] \/ (r \in V /\ TaskActive(r)))
      /\ detached'[r] = (detached[r] \/ (r \in V /\ ~TaskActive(r)))
  BY Zenon DEF Interrupt
<1>2. cancelReq[r] \in BOOLEAN /\ detached[r] \in BOOLEAN
  BY DEF TypeOK, RecordsOK
<1>3. CASE r \in V
  BY <1>1, <1>3, Zenon
<1>4. CASE r \notin V
  BY <1>1, <1>2, <1>4, Zenon
<1> QED BY <1>3, <1>4

\* A client's cancellation makes one active record inactive.
LEMMA CancelKeeps ==
  ASSUME Inv, NEW r \in Run, NEW a \in Action, Cancel(r, a)
  PROVE  AdmissionInv' /\ OlderCleanupFirst'
<1> USE DEF Inv, TypeOK, RecordsOK, IndexOK, LocalOK, index, process, TaskActive
<1>1. ASSUME NEW x \in Run
      PROVE  /\ x = r => /\ mem[x] \in Active /\ mem'[x] = "interrupted"
                         /\ finalizing'[x] <=> TaskActive(x)
                         /\ cancelReq'[x] <=> (cancelReq[x] \/ TaskActive(x))
                         /\ detached'[x] <=> (detached[x] \/ ~TaskActive(x))
             /\ x # r => /\ mem'[x] = mem[x] /\ finalizing'[x] = finalizing[x]
                         /\ abort'[x] = abort[x] /\ cancelReq'[x] = cancelReq[x]
                         /\ detached'[x] = detached[x]
  <2>1. /\ Interrupt({r}, a) /\ mem[r] \in Active
        /\ mem' = [mem EXCEPT ![r] = "interrupted"]
    BY DEF Cancel
  <2>2. /\ x = r => mem[x] \in Active /\ mem'[x] = "interrupted"
        /\ x # r => mem'[x] = mem[x]
    BY <2>1
  <2>3. {r} \in SUBSET Run /\ (x = r <=> x \in {r})
    OBVIOUS
  <2> HIDE DEF TaskActive, TypeOK, RecordsOK, IndexOK, LocalOK
  <2>4. /\ x \in {r} => /\ finalizing'[x] = TaskActive(x)
                        /\ cancelReq'[x] = (cancelReq[x] \/ TaskActive(x))
                        /\ detached'[x] = (detached[x] \/ ~TaskActive(x))
        /\ x \notin {r} => /\ finalizing'[x] = finalizing[x] /\ abort'[x] = abort[x]
                           /\ cancelReq'[x] = cancelReq[x] /\ detached'[x] = detached[x]
    BY <2>1, <2>3, InterruptAt, Zenon
  <2> QED BY <2>2, <2>3, <2>4, Zenon
<1>2. /\ pc' = pc /\ UNCHANGED <<ticket, clock, lock, strategy, proc>>
      /\ proc = "up" /\ lock = None
  BY DEF Cancel
<1>3. LockInv'
  BY <1>2, RunAssumption DEF LockInv
<1>4. ASSUME NEW x \in Run PROVE RunInv(x)'
  <2>1. RunInv(x)
    BY DEF AdmissionInv
  <2>2. CASE x # r
    BY <1>1, <1>2, <2>1, <2>2 DEF RunInv, InIndex
  <2>3. CASE x = r
    <3>1. mem[x] \in Active /\ mem'[x] = "interrupted" /\ "interrupted" \notin Active
      BY <1>1, <2>3 DEF Active
    <3>2. TaskActive(x) => finalizing'[x] /\ cancelReq'[x]
      BY <1>1, <2>3
    <3>3. ~detached'[x] => TaskActive(x) /\ ~detached[x]
      BY <1>1, <2>3
    <3>4. pc[x] # "idle" /\ (TaskActive(x) => pc[x] \notin RequestPc)
      BY <2>1, <3>1 DEF RunInv, Active, TaskPc, RequestPc, BodyPc, FinalPc
    <3> QED BY <1>2, <2>1, <3>1, <3>2, <3>3, <3>4 DEF RunInv, InIndex
  <2> QED BY <2>2, <2>3
<1>5. ASSUME NEW x \in Run, NEW y \in Run PROVE PairInv(x, y)'
  BY <1>1, <1>2 DEF AdmissionInv, PairInv, Earlier, InIndex, Active, TaskPc, BodyPc
<1>6. OlderCleanupFirst'
  BY <1>1, <1>2, RunAssumption DEF OlderCleanupFirst, AdmissionInv, PairInv, Earlier,
     InIndex, Active
<1> QED BY <1>3, <1>4, <1>5, <1>6 DEF AdmissionInv

\* Steps of a task that write its record.
LEMMA RecordSteps ==
  ASSUME Inv, NEW r \in Run, proc # "down"
  PROVE  /\ MarkRunning(r) => AdmissionInv' /\ OlderCleanupFirst'
         /\ FinalStatus(r) => AdmissionInv' /\ OlderCleanupFirst'
         /\ MarkError(r) => AdmissionInv' /\ OlderCleanupFirst'
         /\ MarkAborted(r) => AdmissionInv' /\ OlderCleanupFirst'
<1> USE DEF Inv, TypeOK, RecordsOK, IndexOK, LocalOK, index, process, Goto
<1>0. pc[r] \in BodyPc => InIndex(r)
  BY DEF AdmissionInv, RunInv, TaskPc
<1>1. CASE MarkRunning(r)
  <2>1. LockInv'
    BY <1>1, RunAssumption DEF MarkRunning, LockInv
  <2>2. ASSUME NEW x \in Run PROVE RunInv(x)'
    BY <1>1 DEF MarkRunning, AdmissionInv, RunInv, InIndex, Active, EarlyPc, GraphPc,
       RequestPc, TaskPc, BodyPc, FinalPc
  <2>3. ASSUME NEW x \in Run, NEW y \in Run PROVE Earlier(x, y)' <=> Earlier(x, y)
    BY <1>1, <1>0 DEF MarkRunning, Earlier, InIndex, BodyPc
  <2>4. ASSUME NEW x \in Run, NEW y \in Run PROVE PairInv(x, y)'
    BY <1>1, <2>3 DEF MarkRunning, AdmissionInv, PairInv, Active, BodyPc, RunInv, EarlyPc, GraphPc
  <2>5. OlderCleanupFirst'
    BY <1>1, <2>3 DEF MarkRunning, OlderCleanupFirst, GraphPc
  <2> QED BY <2>1, <2>2, <2>4, <2>5 DEF AdmissionInv
<1>2. CASE FinalStatus(r)
  <2>1. LockInv'
    BY <1>2, RunAssumption DEF FinalStatus, LockInv
  <2>2. ASSUME NEW x \in Run PROVE RunInv(x)'
    BY <1>2 DEF FinalStatus, AdmissionInv, RunInv, InIndex, Active, EarlyPc, GraphPc,
       RequestPc, TaskPc, BodyPc, FinalPc
  <2>3. ASSUME NEW x \in Run, NEW y \in Run PROVE Earlier(x, y)' <=> Earlier(x, y)
    BY <1>2, <1>0 DEF FinalStatus, Earlier, InIndex, BodyPc
  <2>4. ASSUME NEW x \in Run, NEW y \in Run PROVE PairInv(x, y)'
    BY <1>2, <2>3 DEF FinalStatus, AdmissionInv, PairInv, Active, BodyPc
  <2>5. OlderCleanupFirst'
    BY <1>2, <2>3 DEF FinalStatus, OlderCleanupFirst, GraphPc
  <2> QED BY <2>1, <2>2, <2>4, <2>5 DEF AdmissionInv
<1>3. CASE MarkError(r)
  <2>1. LockInv'
    BY <1>3, RunAssumption DEF MarkError, LockInv
  <2>2. ASSUME NEW x \in Run PROVE RunInv(x)'
    BY <1>3 DEF MarkError, AdmissionInv, RunInv, InIndex, Active, EarlyPc, GraphPc,
       RequestPc, TaskPc, BodyPc, FinalPc
  <2>3. ASSUME NEW x \in Run, NEW y \in Run PROVE Earlier(x, y)' <=> Earlier(x, y)
    BY <1>3, <1>0 DEF MarkError, Earlier, InIndex, BodyPc
  <2>4. ASSUME NEW x \in Run, NEW y \in Run PROVE PairInv(x, y)'
    BY <1>3, <2>3 DEF MarkError, AdmissionInv, PairInv, Active, BodyPc
  <2>5. OlderCleanupFirst'
    BY <1>3, <2>3 DEF MarkError, OlderCleanupFirst, GraphPc
  <2> QED BY <2>1, <2>2, <2>4, <2>5 DEF AdmissionInv
<1>4. CASE MarkAborted(r)
  <2>1. LockInv'
    BY <1>4, RunAssumption DEF MarkAborted, LockInv
  <2>2. ASSUME NEW x \in Run PROVE RunInv(x)'
    BY <1>4 DEF MarkAborted, AdmissionInv, RunInv, InIndex, Active, EarlyPc, GraphPc,
       RequestPc, TaskPc, BodyPc, FinalPc
  <2>3. ASSUME NEW x \in Run, NEW y \in Run PROVE Earlier(x, y)' <=> Earlier(x, y)
    BY <1>4, <1>0 DEF MarkAborted, Earlier, InIndex, BodyPc
  <2>4. ASSUME NEW x \in Run, NEW y \in Run PROVE PairInv(x, y)'
    BY <1>4, <2>3 DEF MarkAborted, AdmissionInv, PairInv, Active, BodyPc
  <2>5. OlderCleanupFirst'
    BY <1>4, <2>3 DEF MarkAborted, OlderCleanupFirst, GraphPc
  <2> QED BY <2>1, <2>2, <2>4, <2>5 DEF AdmissionInv
<1> QED BY <1>1, <1>2, <1>3, <1>4

\* Creation: the record is inserted under the lock.
LEMMA CreateBeginKeeps ==
  ASSUME Inv, NEW r \in Run, NEW s \in Strategy, CreateBegin(r, s)
  PROVE  AdmissionInv' /\ OlderCleanupFirst'
<1> USE RunAssumption
    DEF Inv, TypeOK, RecordsOK, IndexOK, LocalOK, process, Goto, CreateBegin
<1>1. LockInv'
  BY DEF LockInv, Inflight
<1>2. ASSUME NEW x \in Run PROVE RunInv(x)'
  BY DEF AdmissionInv, RunInv, InIndex, Active, EarlyPc, GraphPc, RequestPc, TaskPc, BodyPc, FinalPc
<1>3. ASSUME NEW x \in Run, NEW y \in Run, Earlier(x, y)'
      PROVE  x # r /\ (y # r => Earlier(x, y))
  BY <1>3 DEF AdmissionInv, RunInv, Earlier, InIndex
<1>4. ASSUME NEW x \in Run, NEW y \in Run PROVE PairInv(x, y)'
  BY <1>3 DEF AdmissionInv, PairInv
<1>5. OlderCleanupFirst'
  BY <1>3 DEF OlderCleanupFirst, GraphPc
<1> QED BY <1>1, <1>2, <1>4, <1>5 DEF AdmissionInv

\* Creation failed: the record is gone again.
LEMMA CreateFailsKeeps ==
  ASSUME Inv, NEW r \in Run, CreateFails(r)
  PROVE  AdmissionInv' /\ OlderCleanupFirst'
<1> USE RunAssumption
    DEF Inv, TypeOK, RecordsOK, IndexOK, LocalOK, process, Goto, CreateFails
<1>1. LockInv'
  BY DEF LockInv
<1>2. ASSUME NEW x \in Run PROVE RunInv(x)'
  BY DEF AdmissionInv, LockInv, RunInv, InIndex, Active, EarlyPc, GraphPc, RequestPc,
     TaskPc, BodyPc, FinalPc
<1>3. ASSUME NEW x \in Run, NEW y \in Run, Earlier(x, y)'
      PROVE  x # r /\ y # r /\ Earlier(x, y)
  BY <1>3 DEF Earlier, InIndex
<1>4. ASSUME NEW x \in Run, NEW y \in Run PROVE PairInv(x, y)'
  BY <1>3 DEF AdmissionInv, PairInv
<1>5. OlderCleanupFirst'
  BY <1>3 DEF OlderCleanupFirst
<1> QED BY <1>1, <1>2, <1>4, <1>5 DEF AdmissionInv

\* The task is attached to a run that is pending, or was cancelled before.
LEMMA AttachKeeps ==
  ASSUME Inv, NEW r \in Run, Attach(r), proc = "up"
  PROVE  AdmissionInv' /\ OlderCleanupFirst'
<1> USE DEF Inv, TypeOK, RecordsOK, IndexOK, LocalOK, records, index, process, Goto, Attach
<1>1. LockInv'
  BY DEF AdmissionInv, LockInv, Inflight
<1>2. ASSUME NEW x \in Run PROVE RunInv(x)'
  BY DEF AdmissionInv, RunInv, InIndex, Active, EarlyPc, GraphPc, RequestPc, TaskPc, BodyPc
<1>3. ASSUME NEW x \in Run, NEW y \in Run PROVE PairInv(x, y)'
  BY DEF AdmissionInv, PairInv, RunInv, Earlier, InIndex, Active, RequestPc
<1>4. OlderCleanupFirst'
  BY DEF OlderCleanupFirst, Earlier, InIndex, GraphPc
<1> QED BY <1>1, <1>2, <1>3, <1>4 DEF AdmissionInv

\* wait_for_prior_finalizing returns: the run may execute its graph.
LEMMA PriorSettledKeeps ==
  ASSUME Inv, NEW r \in Run, PriorSettled(r), proc # "down"
  PROVE  AdmissionInv' /\ OlderCleanupFirst'
<1> USE DEF Inv, TypeOK, RecordsOK, IndexOK, LocalOK, records, index, process, Goto, PriorSettled
<1>1. LockInv'
  BY DEF AdmissionInv, LockInv
<1>2. ASSUME NEW x \in Run PROVE RunInv(x)'
  BY DEF AdmissionInv, RunInv, InIndex, Active, EarlyPc, GraphPc, RequestPc, TaskPc, BodyPc
<1>3. ASSUME NEW x \in Run, NEW y \in Run PROVE PairInv(x, y)'
  BY DEF AdmissionInv, PairInv, Earlier, InIndex, BodyPc
<1>4. OlderCleanupFirst'
  BY DEF OlderCleanupFirst, PriorFinalizing, Earlier, InIndex
<1> QED BY <1>1, <1>2, <1>3, <1>4 DEF AdmissionInv

\* An aborted run leaves its stream loop; without a cancellation of its task it
\* must have been cancelled before it had one.
LEMMA FinalAbortedKeeps ==
  ASSUME Inv, NEW r \in Run, FinalAborted(r), proc # "down"
  PROVE  AdmissionInv' /\ OlderCleanupFirst'
<1> USE DEF Inv, TypeOK, RecordsOK, IndexOK, LocalOK, records, index, process, Goto, FinalAborted
<1>1. LockInv'
  BY DEF AdmissionInv, LockInv, Inflight
<1>2. ASSUME NEW x \in Run PROVE RunInv(x)'
  BY DEF AdmissionInv, RunInv, InIndex, EarlyPc, GraphPc, RequestPc, TaskPc, BodyPc
<1>3. ASSUME NEW x \in Run, NEW y \in Run PROVE PairInv(x, y)'
  BY DEF AdmissionInv, PairInv, Earlier, InIndex, BodyPc
<1>4. OlderCleanupFirst'
  BY DEF OlderCleanupFirst, Earlier, InIndex, GraphPc
<1> QED BY <1>1, <1>2, <1>3, <1>4 DEF AdmissionInv

\* A cancellation takes effect in the task: it never starts, or it aborts.
LEMMA CancelledKeeps ==
  ASSUME Inv, NEW r \in Run, NeverStarts(r) \/ DeliverCancel(r), proc # "down"
  PROVE  AdmissionInv' /\ OlderCleanupFirst'
<1> USE DEF Inv, TypeOK, RecordsOK, IndexOK, LocalOK, index, process, Goto
<1>1. PICK b \in {"neverRan", "closing", "aborting"} :
        /\ pc' = [pc EXCEPT ![r] = b]
        /\ b # "neverRan" => pc[r] \in BodyPc
  BY DEF NeverStarts, DeliverCancel
<1>2. /\ pc[r] \in {"scheduled"} \cup BodyPc
      /\ UNCHANGED <<mem, finalizing, abort, detached, ticket, clock, lock, strategy, proc>>
  BY DEF NeverStarts, DeliverCancel
<1>3. cancelReq[r] /\ cancelReq' = [cancelReq EXCEPT ![r] = FALSE]
  BY DEF NeverStarts, DeliverCancel
<1>4. ASSUME NEW x \in Run PROVE x # r => cancelReq'[x] = cancelReq[x]
  BY <1>3
<1>5. ~cancelReq'[r]
  BY <1>3, Zenon
<1>6. LockInv'
  BY <1>1, <1>2 DEF AdmissionInv, LockInv, Inflight, BodyPc
<1>7. ASSUME NEW x \in Run PROVE RunInv(x)'
  BY <1>1, <1>2, <1>3, <1>4, <1>5
  DEF AdmissionInv, RunInv, InIndex, EarlyPc, GraphPc, RequestPc, TaskPc, BodyPc
<1>8. ASSUME NEW x \in Run, NEW y \in Run PROVE PairInv(x, y)'
  BY <1>1, <1>2 DEF AdmissionInv, PairInv, Earlier, InIndex, BodyPc
<1>9. OlderCleanupFirst'
  BY <1>1, <1>2 DEF OlderCleanupFirst, Earlier, InIndex, GraphPc
<1> QED BY <1>6, <1>7, <1>8, <1>9 DEF AdmissionInv

\* The aborted task marks itself finalizing: an older run of a graph that runs
\* was finalizing already.
LEMMA BeginFinalizingKeeps ==
  ASSUME Inv, NEW r \in Run, BeginFinalizing(r), proc # "down"
  PROVE  AdmissionInv' /\ OlderCleanupFirst'
<1> USE DEF Inv, TypeOK, RecordsOK, IndexOK, LocalOK, index, process, Goto
<1>1. /\ pc[r] = "aborting" /\ pc' = [pc EXCEPT ![r] = "settling"]
      /\ lock = None /\ ~cancelReq[r]
      /\ UNCHANGED <<mem, abort, cancelReq, detached, ticket, clock, lock, strategy, proc>>
  BY DEF BeginFinalizing
<1>2. ASSUME NEW x \in Run PROVE x # r => finalizing'[x] = finalizing[x]
  BY DEF BeginFinalizing
<1>3. finalizing'[r]
  BY Zenon DEF BeginFinalizing
<1>4. LockInv'
  BY <1>1, RunAssumption DEF LockInv
<1>5. ASSUME NEW x \in Run PROVE RunInv(x)'
  BY <1>1, <1>2, <1>3
  DEF AdmissionInv, RunInv, InIndex, EarlyPc, GraphPc, RequestPc, TaskPc, BodyPc
<1>6. ASSUME NEW x \in Run, NEW y \in Run PROVE PairInv(x, y)'
  BY <1>1, <1>2, <1>3 DEF AdmissionInv, PairInv, Earlier, InIndex, BodyPc
<1>7. OlderCleanupFirst'
  BY <1>1, <1>2, RunAssumption
  DEF AdmissionInv, PairInv, OlderCleanupFirst, Earlier, InIndex, GraphPc, BodyPc
<1> QED BY <1>4, <1>5, <1>6, <1>7 DEF AdmissionInv

\* The finally block clears the flag.
LEMMA EndFinalizingKeeps ==
  ASSUME Inv, NEW r \in Run, EndFinalizing(r), proc # "down"
  PROVE  AdmissionInv' /\ OlderCleanupFirst'
<1> USE DEF Inv, TypeOK, RecordsOK, IndexOK, LocalOK, index, process, Goto
<1>1. /\ pc[r] = "clearing" /\ pc' = [pc EXCEPT ![r] = "publishing"]
      /\ UNCHANGED <<mem, abort, cancelReq, detached, ticket, clock, lock, strategy, proc>>
  BY DEF EndFinalizing
<1>2. ASSUME NEW x \in Run PROVE x # r => finalizing'[x] = finalizing[x]
  BY DEF EndFinalizing
<1>3. ~finalizing'[r]
  BY Zenon DEF EndFinalizing
<1>4. LockInv'
  BY <1>1, <1>2, <1>3 DEF AdmissionInv, LockInv, Inflight
<1>5. ASSUME NEW x \in Run PROVE RunInv(x)'
  BY <1>1, <1>2, <1>3
  DEF AdmissionInv, RunInv, InIndex, EarlyPc, GraphPc, RequestPc, TaskPc, BodyPc, FinalPc
<1>6. ASSUME NEW x \in Run, NEW y \in Run PROVE PairInv(x, y)'
  BY <1>1, <1>2, <1>3 DEF AdmissionInv, PairInv, Earlier, InIndex, BodyPc
<1>7. OlderCleanupFirst'
  BY <1>1, <1>2, <1>3 DEF OlderCleanupFirst, Earlier, InIndex, GraphPc
<1> QED BY <1>4, <1>5, <1>6, <1>7 DEF AdmissionInv

\* The drain at shutdown cancels the tasks of the active runs.
LEMMA ShutdownKeeps ==
  ASSUME Inv, Shutdown
  PROVE  AdmissionInv' /\ OlderCleanupFirst'
<1> USE DEF Inv, TypeOK, RecordsOK, IndexOK, LocalOK, index
<1> DEFINE V == {r \in Run : mem[r] \in Active /\ TaskActive(r)}
<1>1. /\ lock = None /\ proc = "up" /\ proc' = "draining"
      /\ UNCHANGED <<mem, finalizing, detached, ticket, clock, lock, strategy, pc>>
  BY DEF Shutdown
<1>2. ASSUME NEW x \in Run PROVE abort'[x] = IF x \in V THEN "interrupt" ELSE abort[x]
  BY DEF Shutdown
<1>3. ASSUME NEW x \in Run PROVE cancelReq'[x] = (cancelReq[x] \/ x \in V)
  BY Zenon DEF Shutdown
<1>4. ASSUME NEW x \in Run PROVE x \in V => pc[x] # "idle"
  BY DEF TaskActive, TaskPc, BodyPc, FinalPc
<1>5. ASSUME NEW x \in Run PROVE cancelReq[x] \in BOOLEAN
  OBVIOUS
<1> HIDE DEF V, Inv, TypeOK, RecordsOK
<1>6. ASSUME NEW x \in Run
      PROVE  /\ x \in V => cancelReq'[x]
             /\ x \notin V => cancelReq'[x] = cancelReq[x]
  BY <1>3, <1>5, Zenon
<1> USE DEF Inv, TypeOK, RecordsOK
<1>7. ASSUME NEW x \in Run PROVE RunInv(x)'
  <2>1. RunInv(x)
    BY DEF AdmissionInv
  <2> QED BY <1>1, <1>2, <1>4, <1>6, <2>1 DEF RunInv, InIndex
<1>8. LockInv'
  BY <1>1 DEF LockInv
<1>9. ASSUME NEW x \in Run, NEW y \in Run PROVE PairInv(x, y)'
  BY <1>1 DEF AdmissionInv, PairInv, Earlier, InIndex
<1>10. OlderCleanupFirst'
  BY <1>1 DEF OlderCleanupFirst, Earlier, InIndex
<1> QED BY <1>7, <1>8, <1>9, <1>10 DEF AdmissionInv

\* The end of the drain marks what did not settle.
LEMMA DrainEndsKeeps ==
  ASSUME Inv, DrainEnds
  PROVE  AdmissionInv' /\ OlderCleanupFirst'
<1> USE DEF Inv, TypeOK, RecordsOK, IndexOK, LocalOK, index
<1>1. /\ lock = None /\ proc = "draining" /\ proc' \in {"closed", "closedLate"}
      /\ UNCHANGED <<finalizing, abort, cancelReq, detached, ticket, clock, lock, strategy, pc>>
  BY DEF DrainEnds
<1>2. ASSUME NEW x \in Run
      PROVE  \/ mem'[x] = mem[x]
             \/ /\ mem[x] \in Active /\ mem'[x] = "interrupted"
                /\ TaskActive(x) \/ pc[x] \in {"neverRan", "done"}
  BY DEF DrainEnds, Unsettled
<1>3. ASSUME NEW x \in Run PROVE RunInv(x)'
  BY <1>1, <1>2
  DEF AdmissionInv, RunInv, InIndex, Active, TaskActive, EarlyPc, GraphPc, RequestPc,
      TaskPc, BodyPc, FinalPc
<1>4. LockInv'
  BY <1>1 DEF LockInv
<1>5. ASSUME NEW x \in Run, NEW y \in Run PROVE Earlier(x, y)' <=> Earlier(x, y)
  BY <1>1, <1>2 DEF Earlier, InIndex, Active
<1>6. ASSUME NEW x \in Run, NEW y \in Run PROVE PairInv(x, y)'
  BY <1>1, <1>2, <1>5 DEF AdmissionInv, PairInv, Active
<1>7. OlderCleanupFirst'
  BY <1>1, <1>5 DEF OlderCleanupFirst
<1> QED BY <1>3, <1>4, <1>6, <1>7 DEF AdmissionInv

\* The process goes, and comes back with no record in memory.
LEMMA ExitKeeps ==
  ASSUME Inv, Exit
  PROVE  AdmissionInv' /\ OlderCleanupFirst'
<1> USE DEF Inv, TypeOK, RecordsOK, IndexOK, LocalOK
<1>1. LockInv'
  BY DEF LockInv, Exit
<1>2. ASSUME NEW x \in Run PROVE mem'[x] = "absent"
  BY DEF Exit
<1>3. ASSUME NEW x \in Run PROVE RunInv(x)'
  <2>1. ~finalizing'[x] /\ ~cancelReq'[x] /\ ~detached'[x]
    BY Zenon DEF Exit
  <2>2. /\ pc'[x] \in {"idle", "lost"} /\ abort'[x] = "none" /\ proc' = "down"
        /\ UNCHANGED <<ticket, clock>>
    BY DEF Exit
  <2> QED BY <1>2, <2>1, <2>2
          DEF AdmissionInv, RunInv, InIndex, Active, EarlyPc, GraphPc, RequestPc, TaskPc, BodyPc, FinalPc
<1>4. ASSUME NEW x \in Run, NEW y \in Run PROVE ~Earlier(x, y)'
  BY <1>2 DEF Earlier, InIndex
<1> QED BY <1>1, <1>3, <1>4 DEF AdmissionInv, PairInv, OlderCleanupFirst

LEMMA RestartKeeps ==
  ASSUME Inv, Restart
  PROVE  AdmissionInv' /\ OlderCleanupFirst'
<1> USE DEF Inv, TypeOK, RecordsOK, IndexOK, LocalOK, records, index
<1>1. proc = "down" /\ proc' = "up" /\ UNCHANGED <<records, index, pc>>
  BY DEF Restart
<1>2. LockInv'
  BY <1>1, RunAssumption DEF AdmissionInv, LockInv
<1>3. ASSUME NEW x \in Run PROVE RunInv(x)'
  BY <1>1 DEF AdmissionInv, RunInv, InIndex, Active, EarlyPc, GraphPc, RequestPc, TaskPc,
     BodyPc, FinalPc
<1>4. ASSUME NEW x \in Run, NEW y \in Run PROVE ~Earlier(x, y)'
  BY <1>1 DEF AdmissionInv, RunInv, Earlier, InIndex
<1> QED BY <1>2, <1>3, <1>4 DEF AdmissionInv, PairInv, OlderCleanupFirst

\* Admission: the new run is stored and what its strategy replaces is
\* interrupted, so that each of its predecessors is inactive, and finalizing if
\* its task has not reached its finally block.
LEMMA CreateCommitKeeps ==
  ASSUME Inv, NEW r \in Run, CreateCommit(r)
  PROVE  AdmissionInv' /\ OlderCleanupFirst'
<1> DEFINE V == Replaced(r)
<1>1. /\ lock = r /\ lock' = None /\ r \notin V /\ V \in SUBSET Run
      /\ pc' = [pc EXCEPT ![r] = "notifying"]
      /\ UNCHANGED <<ticket, clock, proc>>
      /\ Interrupt(V, strategy[r]) /\ TypeOK
  <2>1. r \notin V /\ V \in SUBSET Run
    BY DEF Replaced, Inflight
  <2> QED BY <2>1 DEF CreateCommit, Goto, process, Inv
<1>2. ASSUME NEW x \in Run
      PROVE  /\ x \in V => /\ finalizing'[x] = TaskActive(x)
                           /\ cancelReq'[x] = (cancelReq[x] \/ TaskActive(x))
                           /\ detached'[x] = (detached[x] \/ ~TaskActive(x))
             /\ x \notin V => /\ finalizing'[x] = finalizing[x] /\ abort'[x] = abort[x]
                              /\ cancelReq'[x] = cancelReq[x] /\ detached'[x] = detached[x]
  <2> HIDE DEF V
  <2> QED BY <1>1, InterruptAt, ZenonT(30)
<1>3. ASSUME NEW x \in Run
      PROVE  /\ x \in V => mem[x] \in Active /\ ~finalizing[x] /\ mem'[x] = "interrupted"
             /\ x \notin V => mem'[x] = mem[x]
  BY DEF CreateCommit, Replaced, Inflight
<1> HIDE DEF V
<1>4. "interrupted" \notin Active /\ "absent" \notin Active
  BY DEF Active
<1> USE DEF Inv, TypeOK, RecordsOK, IndexOK, LocalOK
<1>5. LockInv'
  BY <1>1 DEF LockInv
<1>6. pc[r] = "creating" /\ proc = "up"
  BY <1>1, RunAssumption DEF AdmissionInv, LockInv
<1>7. ASSUME NEW x \in Run PROVE RunInv(x)'
  <2>1. RunInv(x)
    BY DEF AdmissionInv
  <2>2. CASE x \notin V
    BY <1>1, <1>2, <1>3, <1>6, <2>1, <2>2
    DEF RunInv, InIndex, RequestPc, TaskPc, EarlyPc, GraphPc, BodyPc, FinalPc
  <2>3. CASE x \in V
    <3>1. TaskActive(x) => finalizing'[x] /\ cancelReq'[x] /\ pc[x] \notin RequestPc
      BY <1>2, <2>3 DEF TaskActive, RequestPc, TaskPc, BodyPc, FinalPc
    <3>2. ~detached'[x] => TaskActive(x) /\ ~detached[x]
      BY <1>2, <2>3
    <3>3. pc[x] # "idle" /\ pc'[x] = pc[x]
      BY <1>1, <1>3, <1>4, <2>1, <2>3 DEF RunInv
    <3> QED BY <1>1, <1>3, <1>4, <1>6, <2>1, <2>3, <3>1, <3>2, <3>3 DEF RunInv, InIndex
  <2> QED BY <2>2, <2>3
<1>8. ASSUME NEW x \in Run, NEW y \in Run PROVE Earlier(x, y)' <=> Earlier(x, y)
  BY <1>1, <1>3, <1>4 DEF Earlier, InIndex
<1>9. ASSUME NEW x \in Run, NEW y \in Run, Earlier(x, y), ~detached'[x]
      PROVE  mem'[x] \notin Active /\ (pc'[x] \in {"scheduled"} \cup BodyPc => finalizing'[x])
  <2>1. CASE x \in V
    BY <1>1, <1>2, <1>3, <1>4, <1>9, <2>1 DEF TaskActive, TaskPc
  <2>2. CASE x \notin V /\ y # r
    BY <1>1, <1>2, <1>3, <1>9, <2>2 DEF AdmissionInv, PairInv, BodyPc
  <2>3. CASE x \notin V /\ y = r
    <3>1. x # r /\ ThreadOf[x] = ThreadOf[r] /\ pc'[x] = pc[x] /\ ~detached[x]
      BY <1>1, <1>2, <1>9, <2>3 DEF Earlier
    <3>2. x \notin Inflight(ThreadOf[r]) \/ finalizing[x]
      BY <1>1, <2>3, <3>1, RunAssumption
      DEF V, Replaced, AdmissionInv, LockInv
    <3>3. mem[x] \in Active \/ finalizing[x] => x \in Inflight(ThreadOf[r])
      BY <3>1 DEF Inflight
    <3>4. RunInv(x)
      BY DEF AdmissionInv
    <3> QED BY <1>2, <1>3, <1>6, <2>3, <3>1, <3>2, <3>3, <3>4 DEF RunInv
  <2> QED BY <2>1, <2>2, <2>3
<1>10. ASSUME NEW x \in Run, NEW y \in Run PROVE PairInv(x, y)'
  BY <1>8, <1>9 DEF PairInv
<1>11. OlderCleanupFirst'
  <2> SUFFICES ASSUME NEW p \in Run, NEW q \in Run,
                      Earlier(p, q), pc'[q] \in GraphPc, finalizing'[p]
               PROVE  detached'[p]
    BY <1>8 DEF OlderCleanupFirst
  <2>1. q # r /\ pc[q] \in GraphPc
    BY <1>1 DEF GraphPc
  <2>2. CASE p \notin V
    BY <1>2, <2>1, <2>2 DEF OlderCleanupFirst
  <2>3. CASE p \in V
    <3>1. detached[p]
      BY <1>1, <1>3, <2>1, <2>3 DEF AdmissionInv, PairInv
    <3> QED BY <1>2, <2>3, <3>1, Zenon
  <2> QED BY <2>2, <2>3
<1> QED BY <1>5, <1>7, <1>10, <1>11 DEF AdmissionInv

\* Every step keeps the invariant.
LEMMA InvStep == Inv /\ [Next]_vars => Inv'
<1> SUFFICES ASSUME Inv, [Next]_vars PROVE AdmissionInv' /\ OlderCleanupFirst'
  BY TypeStep DEF Inv
<1>1. CASE UNCHANGED vars
  BY <1>1 DEF Inv, vars, records, index, process, AdmissionInv, LockInv, RunInv, PairInv,
     OlderCleanupFirst, Earlier, InIndex, Inflight
<1>2. ASSUME NEW r \in Run, Handler(r), proc = "up" PROVE AdmissionInv' /\ OlderCleanupFirst'
  <2>1. ASSUME NEW w, PersistInterrupted(w) PROVE AdmissionInv' /\ OlderCleanupFirst'
    BY <2>1 DEF Inv, PersistInterrupted, records, index, process, AdmissionInv, LockInv,
       RunInv, PairInv, OlderCleanupFirst, Earlier, InIndex, Inflight
  <2> QED BY <1>2, <2>1, CreateCommitKeeps, CreateFailsKeeps, BenignSteps, AttachKeeps
          DEF Handler
<1>3. ASSUME NEW r \in Run, Request(r) PROVE AdmissionInv' /\ OlderCleanupFirst'
  <2>1. CreateConflict(r) => proc # "down"
    BY DEF CreateConflict
  <2> QED BY <1>3, <2>1, CreateBeginKeeps, BenignSteps DEF Request
<1>4. ASSUME NEW r \in Run, Task(r), proc # "down" PROVE AdmissionInv' /\ OlderCleanupFirst'
  BY <1>4, CancelledKeeps, BenignSteps, PriorSettledKeeps, RecordSteps, FinalAbortedKeeps,
     BeginFinalizingKeeps, EndFinalizingKeeps DEF Task, Finally
<1>5. ASSUME NEW r \in Run, Graph(r), proc # "down" PROVE AdmissionInv' /\ OlderCleanupFirst'
  <2>1. CASE GoalTurn(r)
    BY <2>1 DEF Inv, GoalTurn, records, index, process, AdmissionInv, LockInv, RunInv,
       PairInv, OlderCleanupFirst, Earlier, InIndex, Inflight
  <2> QED BY <1>5, <2>1, BenignSteps DEF Graph
<1> QED BY <1>1, <1>2, <1>3, <1>4, <1>5, CancelKeeps, ShutdownKeeps, DrainEndsKeeps,
           ExitKeeps, RestartKeeps DEF Next, Step

LEMMA InvInit == Init => Inv
<1> SUFFICES ASSUME Init PROVE Inv
  OBVIOUS
<1>1. TypeOK
  BY TypeInit
<1>2. AdmissionInv
  BY RunAssumption
  DEF Init, AdmissionInv, LockInv, RunInv, PairInv, Earlier, InIndex, Active, TaskPc, BodyPc,
      FinalPc, RequestPc, EarlyPc, GraphPc
<1>3. OlderCleanupFirst
  BY DEF Init, OlderCleanupFirst, Earlier, InIndex
<1> QED BY <1>1, <1>2, <1>3 DEF Inv

\* The lock's holder, the records and the coroutines agree in every execution.
THEOREM AdmissionSafety == Spec => []AdmissionInv
<1>1. Inv => AdmissionInv
  BY DEF Inv
<1> QED BY InvInit, InvStep, <1>1, PTL DEF Spec

\* No graph runs while an older run of its thread is still finalizing, unless
\* that run was cancelled before it had a task.
THEOREM CleanupOrder == Spec => []OlderCleanupFirst
<1>1. Inv => OlderCleanupFirst
  BY DEF Inv
<1> QED BY InvInit, InvStep, <1>1, PTL DEF Spec

\* Two graphs of a thread never stream together, with the same exception: the
\* older run is finalizing as long as its task is in its body.
THEOREM GraphExclusion == Spec => []OneGraphPerThread
<1>1. Inv => OneGraphPerThread
  <2> SUFFICES ASSUME Inv, NEW p \in Run, NEW q \in Run, Earlier(p, q),
                      pc[p] = "streaming", pc[q] = "streaming"
               PROVE  detached[p]
    BY DEF OneGraphPerThread
  <2>1. lock # q
    BY RunAssumption DEF Inv, AdmissionInv, LockInv
  <2>2. detached[p] \/ finalizing[p]
    BY <2>1 DEF Inv, AdmissionInv, PairInv, BodyPc
  <2> QED BY <2>2 DEF Inv, OlderCleanupFirst, GraphPc
<1> QED BY InvInit, InvStep, <1>1, PTL DEF Spec
-----------------------------------------------------------------------------
(* Durability: what the stores say of a run, and of a thread.                *)

\* The pcs behind the last status write, in a serving process.
SavedPc == (FinalPc \ {"savingFinal", "savingAbort"}) \cup {"done", "neverRan"}

\* An interruption of r is on its way to the store, has arrived, or was lost.
Pending(r)     == \E w \in persisting : w[2] = r
Interrupted(r) == Pending(r) \/ lossy[r] \/ (row[r] = "interrupted" /\ abort[r] # "none")

\* What is known of the row of r: there before anyone sees the run, the status
\* of its record once that was written, and never active without an owner.
DurableRun(r) ==
    /\ pc[r] \in {"idle", "creating"} => row[r] = "none" /\ ~Pending(r)
    /\ pc[r] = "creating" => lock = r /\ mem[r] = "pending" /\ ~cancelReq[r]
    /\ InIndex(r) /\ pc[r] # "creating" => row[r] # "none"
    /\ Pending(r) => abort[r] # "none"
    /\ proc = "up" =>
         /\ pc[r] \in FinalPc => mem[r] \notin Active /\ ~cancelReq[r]
         /\ cancelReq[r] => Interrupted(r)
         /\ pc[r] \in SavedPc => row[r] = mem[r] \/ Interrupted(r)
         /\ row[r] \in Active /\ ~lossy[r] => InIndex(r) \/ (database # "sqlite" /\ pc[r] = "lost")

\* Run r may still have to say what becomes of its thread, or has left with its
\* process.
Unsaid(r) ==
    /\ pc[r] \notin {"idle", "refused", "creating", "notifying", "preparing"}
    /\ proc = "up" => pc[r] \notin {"clearing", "publishing", "done"}

\* A thread is left running only by a run that may still speak for it.
DurableThread(t) ==
    failures = 0 /\ threadStatus[t] = "running" => \E r \in Run : ThreadOf[r] = t /\ Unsaid(r)

DurableInv == (\A r \in Run : DurableRun(r)) /\ (\A t \in Thread : DurableThread(t))

\* What the ledger of a run consists of, and the moves of a coroutine that say
\* nothing new about it.
ledger == <<mem, abort, cancelReq, row, lossy, persisting, lock, proc, database>>

GentlePc(a, b) ==
    /\ a \notin {"creating", "lost"} /\ b \notin {"idle", "creating"}
    /\ b \in FinalPc => a \in FinalPc
    /\ b \in SavedPc => a \in SavedPc

\* A run that a step leaves alone.
LEMMA SameRun ==
  ASSUME NEW x \in Run, DurableRun(x), Pending(x)' <=> Pending(x),
         pc'[x] = pc[x], mem'[x] = mem[x], abort'[x] = abort[x], cancelReq'[x] = cancelReq[x],
         row'[x] = row[x], lossy'[x] = lossy[x], lock = x => lock' = x,
         proc' = "up" => proc = "up", database' = database
  PROVE  DurableRun(x)'
BY DEF DurableRun, Interrupted, InIndex

\* A coroutine moves on, with the records and rows as they are.
LEMMA GentleMove ==
  ASSUME Inv, DurableInv, NEW r \in Run, NEW b, pc' = [pc EXCEPT ![r] = b],
         UNCHANGED ledger, GentlePc(pc[r], b)
  PROVE  \A x \in Run : DurableRun(x)'
<1> USE DEF ledger, GentlePc
<1> SUFFICES ASSUME NEW x \in Run PROVE DurableRun(x)'
  OBVIOUS
<1>1. DurableRun(x) /\ (Pending(x)' <=> Pending(x))
  BY DEF DurableInv, Pending
<1>2. pc'[x] = IF x = r THEN b ELSE pc[x]
  BY DEF Inv, TypeOK, LocalOK
<1>3. CASE x # r
  BY <1>1, <1>2, <1>3, SameRun
<1>4. CASE x = r
  BY <1>1, <1>2, <1>4 DEF DurableRun, Interrupted, InIndex
<1> QED BY <1>3, <1>4

\* The steps of that kind.
LEMMA GentleSteps ==
  ASSUME Inv, DurableInv, NEW r \in Run,
         \/ CreateConflict(r) \/ Notified(r) \/ PrepareThread(r) \/ LaunchFails(r) \/ Attach(r)
         \/ Starts(r) \/ PriorSettled(r) \/ Snapshot(r) \/ StreamEnds(r) \/ StreamRaises(r)
         \/ FinalAborted(r) \/ BeginFinalizing(r) \/ Rollback(r) \/ TitleWrite(r) \/ UpdateThread(r)
         \/ EndFinalizing(r) \/ PublishEnd(r) \/ TitleRead(r) \/ StreamChunk(r)
  PROVE  \A x \in Run : DurableRun(x)'
<1> USE DEF Goto, FinalPc, SavedPc, records, index, stores, process
<1>1. CASE CreateConflict(r)
  <2>1. pc' = [pc EXCEPT ![r] = "refused"]
    BY <1>1 DEF CreateConflict
  <2>2. pc[r] = "idle" /\ UNCHANGED ledger
    BY <1>1 DEF CreateConflict, ledger
  <2>3. GentlePc(pc[r], "refused")
    BY <2>2 DEF GentlePc
  <2> HIDE DEF FinalPc, SavedPc
  <2> QED BY <2>1, <2>2, <2>3, GentleMove
<1>2. CASE Notified(r)
  <2>1. pc' = [pc EXCEPT ![r] = "preparing"]
    BY <1>2 DEF Notified
  <2>2. pc[r] = "notifying" /\ UNCHANGED ledger
    BY <1>2 DEF Notified, ledger
  <2>3. GentlePc(pc[r], "preparing")
    BY <2>2 DEF GentlePc
  <2> HIDE DEF FinalPc, SavedPc
  <2> QED BY <2>1, <2>2, <2>3, GentleMove
<1>3. CASE PrepareThread(r)
  <2>1. pc' = [pc EXCEPT ![r] = "attaching"]
    BY <1>3 DEF PrepareThread
  <2>2. pc[r] = "preparing" /\ UNCHANGED ledger
    BY <1>3 DEF PrepareThread, ledger
  <2>3. GentlePc(pc[r], "attaching")
    BY <2>2 DEF GentlePc
  <2> HIDE DEF FinalPc, SavedPc
  <2> QED BY <2>1, <2>2, <2>3, GentleMove
<1>4. CASE LaunchFails(r)
  <2>1. pc' = [pc EXCEPT ![r] = "abandoned"]
    BY <1>4 DEF LaunchFails
  <2>2. pc[r] = "attaching" /\ UNCHANGED ledger
    BY <1>4 DEF LaunchFails, ledger
  <2>3. GentlePc(pc[r], "abandoned")
    BY <2>2 DEF GentlePc
  <2> HIDE DEF FinalPc, SavedPc
  <2> QED BY <2>1, <2>2, <2>3, GentleMove
<1>5. CASE Attach(r)
  <2>1. pc' = [pc EXCEPT ![r] = "scheduled"]
    BY <1>5 DEF Attach
  <2>2. pc[r] = "attaching" /\ UNCHANGED ledger
    BY <1>5 DEF Attach, ledger
  <2>3. GentlePc(pc[r], "scheduled")
    BY <2>2 DEF GentlePc
  <2> HIDE DEF FinalPc, SavedPc
  <2> QED BY <2>1, <2>2, <2>3, GentleMove
<1>6. CASE Starts(r)
  <2>1. pc' = [pc EXCEPT ![r] = "waiting"]
    BY <1>6 DEF Starts
  <2>2. pc[r] = "scheduled" /\ UNCHANGED ledger
    BY <1>6 DEF Starts, ledger
  <2>3. GentlePc(pc[r], "waiting")
    BY <2>2 DEF GentlePc
  <2> HIDE DEF FinalPc, SavedPc
  <2> QED BY <2>1, <2>2, <2>3, GentleMove
<1>7. CASE PriorSettled(r)
  <2>1. pc' = [pc EXCEPT ![r] = "marking"]
    BY <1>7 DEF PriorSettled
  <2>2. pc[r] = "waiting" /\ UNCHANGED ledger
    BY <1>7 DEF PriorSettled, ledger
  <2>3. GentlePc(pc[r], "marking")
    BY <2>2 DEF GentlePc
  <2> HIDE DEF FinalPc, SavedPc
  <2> QED BY <2>1, <2>2, <2>3, GentleMove
<1>8. CASE Snapshot(r)
  <2>1. pc' = [pc EXCEPT ![r] = "streaming"]
    BY <1>8 DEF Snapshot
  <2>2. pc[r] = "snapshotting" /\ UNCHANGED ledger
    BY <1>8 DEF Snapshot, ledger
  <2>3. GentlePc(pc[r], "streaming")
    BY <2>2 DEF GentlePc
  <2> HIDE DEF FinalPc, SavedPc
  <2> QED BY <2>1, <2>2, <2>3, GentleMove
<1>9. CASE StreamEnds(r)
  <2>1. pc' = [pc EXCEPT ![r] = "finishing"]
    BY <1>9 DEF StreamEnds
  <2>2. pc[r] = "streaming" /\ UNCHANGED ledger
    BY <1>9 DEF StreamEnds, ledger
  <2>3. GentlePc(pc[r], "finishing")
    BY <2>2 DEF GentlePc
  <2> HIDE DEF FinalPc, SavedPc
  <2> QED BY <2>1, <2>2, <2>3, GentleMove
<1>10. CASE StreamRaises(r)
  <2>1. pc' = [pc EXCEPT ![r] = "raised"]
    BY <1>10 DEF StreamRaises
  <2>2. pc[r] \in {"snapshotting", "streaming"} /\ UNCHANGED ledger
    BY <1>10 DEF StreamRaises, ledger
  <2>3. GentlePc(pc[r], "raised")
    BY <2>2 DEF GentlePc
  <2> HIDE DEF FinalPc, SavedPc
  <2> QED BY <2>1, <2>2, <2>3, GentleMove
<1>11. CASE FinalAborted(r)
  <2>1. pc' = [pc EXCEPT ![r] = "aborting"]
    BY <1>11 DEF FinalAborted
  <2>2. pc[r] = "finishing" /\ UNCHANGED ledger
    BY <1>11 DEF FinalAborted, ledger
  <2>3. GentlePc(pc[r], "aborting")
    BY <2>2 DEF GentlePc
  <2> HIDE DEF FinalPc, SavedPc
  <2> QED BY <2>1, <2>2, <2>3, GentleMove
<1>12. CASE BeginFinalizing(r)
  <2>1. pc' = [pc EXCEPT ![r] = "settling"]
    BY <1>12 DEF BeginFinalizing
  <2>2. pc[r] = "aborting" /\ UNCHANGED ledger
    BY <1>12 DEF BeginFinalizing, ledger
  <2>3. GentlePc(pc[r], "settling")
    BY <2>2 DEF GentlePc
  <2> HIDE DEF FinalPc, SavedPc
  <2> QED BY <2>1, <2>2, <2>3, GentleMove
<1>13. CASE Rollback(r)
  <2>1. pc' = [pc EXCEPT ![r] = "closing"]
    BY <1>13 DEF Rollback
  <2>2. pc[r] = "rollingBack" /\ UNCHANGED ledger
    BY <1>13 DEF Rollback, ledger
  <2>3. GentlePc(pc[r], "closing")
    BY <2>2 DEF GentlePc
  <2> HIDE DEF FinalPc, SavedPc
  <2> QED BY <2>1, <2>2, <2>3, GentleMove
<1>14. CASE TitleWrite(r)
  <2>1. pc' = [pc EXCEPT ![r] = "threadStatus"]
    BY <1>14 DEF TitleWrite
  <2>2. pc[r] = "titleWrite" /\ UNCHANGED ledger
    BY <1>14 DEF TitleWrite, ledger
  <2>3. GentlePc(pc[r], "threadStatus")
    BY <2>2 DEF GentlePc
  <2> HIDE DEF FinalPc, SavedPc
  <2> QED BY <2>1, <2>2, <2>3, GentleMove
<1>15. CASE UpdateThread(r)
  <2>1. pc' = [pc EXCEPT ![r] = "clearing"]
    BY <1>15 DEF UpdateThread
  <2>2. pc[r] = "threadStatus" /\ UNCHANGED ledger
    BY <1>15 DEF UpdateThread, ledger
  <2>3. GentlePc(pc[r], "clearing")
    BY <2>2 DEF GentlePc
  <2> HIDE DEF FinalPc, SavedPc
  <2> QED BY <2>1, <2>2, <2>3, GentleMove
<1>16. CASE EndFinalizing(r)
  <2>1. pc' = [pc EXCEPT ![r] = "publishing"]
    BY <1>16 DEF EndFinalizing
  <2>2. pc[r] = "clearing" /\ UNCHANGED ledger
    BY <1>16 DEF EndFinalizing, ledger
  <2>3. GentlePc(pc[r], "publishing")
    BY <2>2 DEF GentlePc
  <2> HIDE DEF FinalPc, SavedPc
  <2> QED BY <2>1, <2>2, <2>3, GentleMove
<1>17. CASE PublishEnd(r)
  <2>1. pc' = [pc EXCEPT ![r] = "done"]
    BY <1>17 DEF PublishEnd
  <2>2. pc[r] = "publishing" /\ UNCHANGED ledger
    BY <1>17 DEF PublishEnd, ledger
  <2>3. GentlePc(pc[r], "done")
    BY <2>2 DEF GentlePc
  <2> HIDE DEF FinalPc, SavedPc
  <2> QED BY <2>1, <2>2, <2>3, GentleMove
<1>18. CASE TitleRead(r)
  <2>1. \/ pc' = [pc EXCEPT ![r] = "titleWrite"]
        \/ pc' = [pc EXCEPT ![r] = "threadStatus"]
    BY <1>18 DEF TitleRead
  <2>2. pc[r] = "titleWait" /\ UNCHANGED ledger
    BY <1>18 DEF TitleRead, ledger
  <2>3. GentlePc(pc[r], "titleWrite") /\ GentlePc(pc[r], "threadStatus")
    BY <2>2 DEF GentlePc
  <2> HIDE DEF FinalPc, SavedPc
  <2> QED BY <2>1, <2>2, <2>3, GentleMove
<1>19. CASE StreamChunk(r)
  <2>1. \/ pc' = [pc EXCEPT ![r] = "streaming"]
        \/ pc' = [pc EXCEPT ![r] = "finishing"]
    BY <1>19 DEF StreamChunk
  <2>2. pc[r] = "streaming" /\ UNCHANGED ledger
    BY <1>19 DEF StreamChunk, ledger
  <2>3. GentlePc(pc[r], "streaming") /\ GentlePc(pc[r], "finishing")
    BY <2>2 DEF GentlePc
  <2> HIDE DEF FinalPc, SavedPc
  <2> QED BY <2>1, <2>2, <2>3, GentleMove
<1> QED BY <1>1, <1>2, <1>3, <1>4, <1>5, <1>6, <1>7, <1>8, <1>9, <1>10, <1>11, <1>12,
           <1>13, <1>14, <1>15, <1>16, <1>17, <1>18, <1>19

\* What a status write leaves in the store.
LEMMA WriteRowAt ==
  ASSUME TypeOK, NEW r \in Run, NEW v, WriteRow(r, v), NEW x \in Run
  PROVE  /\ x # r => row'[x] = row[x] /\ lossy'[x] = lossy[x]
         /\ x = r => \/ row'[x] = v /\ lossy'[x] = lossy[x]
                     \/ row'[x] = row[x] /\ lossy'[x]
<1>1. CASE row' = [row EXCEPT ![r] = v] /\ UNCHANGED <<lossy, failures>>
  BY <1>1 DEF TypeOK, StoresOK
<1>2. CASE Fail /\ lossy' = [lossy EXCEPT ![r] = TRUE] /\ UNCHANGED row
  <2>1. lossy \in [Run -> BOOLEAN]
    BY DEF TypeOK, StoresOK
  <2>2. x # r => lossy'[x] = lossy[x]
    BY <1>2, <2>1
  <2>3. lossy'[r]
    BY <1>2, <2>1, Zenon
  <2> QED BY <1>2, <2>2, <2>3
<1> QED BY <1>1, <1>2 DEF WriteRow

\* The task writes its row: running, or the final status of its record.
LEMMA RowSteps ==
  ASSUME Inv, DurableInv, NEW r \in Run, SaveRunning(r) \/ SaveFinal(r) \/ Complete(r)
  PROVE  \A x \in Run : DurableRun(x)'
<1> USE DEF Inv, TypeOK, RecordsOK, LocalOK
<1>1. /\ UNCHANGED <<mem, abort, cancelReq, persisting, lock, proc, database>>
      /\ pc[r] \in TaskPc
  BY DEF SaveRunning, SaveFinal, Complete, records, index, process, TaskPc, BodyPc, FinalPc
<1>2. DurableRun(r) /\ RunInv(r)
  BY DEF DurableInv, AdmissionInv
<1>3. InIndex(r) /\ InIndex(r)' /\ row[r] # "none" /\ pc[r] # "creating"
  BY <1>1, <1>2 DEF RunInv, DurableRun, InIndex, TaskPc, BodyPc, FinalPc
<1>4. PICK b \in TaskPc : pc' = [pc EXCEPT ![r] = b]
  BY DEF SaveRunning, SaveFinal, Complete, Goto, TaskPc, BodyPc, FinalPc
<1>5. ASSUME NEW x \in Run \ {r} PROVE DurableRun(x)'
  <2>1. row'[x] = row[x] /\ lossy'[x] = lossy[x]
    <3>1. CASE Complete(r)
      BY <3>1 DEF Complete, StoresOK
    <3>2. CASE ~Complete(r)
      BY <3>2, WriteRowAt DEF SaveRunning, SaveFinal
    <3> QED BY <3>1, <3>2
  <2>2. DurableRun(x) /\ (Pending(x)' <=> Pending(x))
    BY <1>1 DEF DurableInv, Pending
  <2> QED BY <1>1, <1>4, <2>1, <2>2, SameRun
<1>6. CASE SaveRunning(r)
  <2>1. \/ row'[r] = "running" /\ lossy'[r] = lossy[r]
        \/ row'[r] = row[r] /\ lossy'[r]
    BY <1>6, WriteRowAt DEF SaveRunning
  <2>2. pc'[r] = "snapshotting" /\ ~cancelReq[r]
    BY <1>6 DEF SaveRunning, Goto
  <2>3. DurableRun(r)'
    BY <1>1, <1>2, <1>3, <2>1, <2>2 DEF DurableRun, Pending, FinalPc, SavedPc
  <2> QED BY <1>5, <2>3
<1>7. CASE SaveFinal(r)
  <2>1. \/ row'[r] = mem[r] /\ lossy'[r] = lossy[r]
        \/ row'[r] = row[r] /\ lossy'[r]
    BY <1>7, WriteRowAt DEF SaveFinal
  <2>2. pc[r] \in FinalPc /\ pc'[r] \in {"rollingBack", "closing"}
    BY <1>7 DEF SaveFinal, Goto, FinalPc
  <2>3. mem[r] # "none"
    BY DEF Status, Active, Terminal
  <2>4. DurableRun(r)'
    BY <1>1, <1>2, <1>3, <2>1, <2>2, <2>3 DEF DurableRun, Pending, Interrupted
  <2> QED BY <1>5, <2>4
<1>8. CASE Complete(r)
  <2>1. row'[r] \in {row[r], mem[r]} /\ UNCHANGED lossy
    BY <1>8 DEF Complete, StoresOK
  <2>2. pc[r] = "closing" /\ pc'[r] \in {"titleWait", "threadStatus"}
    BY <1>8 DEF Complete, Goto
  <2>3. mem[r] # "none"
    BY DEF Status, Active, Terminal
  <2>4. proc = "up" => row'[r] = mem[r] \/ Interrupted(r)'
    BY <1>1, <1>2, <2>1, <2>2 DEF DurableRun, Pending, Interrupted, FinalPc, SavedPc
  <2>5. DurableRun(r)'
    BY <1>1, <1>2, <1>3, <2>1, <2>2, <2>3, <2>4 DEF DurableRun, Pending, FinalPc
  <2> QED BY <1>5, <2>5
<1> QED BY <1>6, <1>7, <1>8

\* The task writes its record: running, or the final status.
LEMMA MarkSteps ==
  ASSUME Inv, DurableInv, NEW r \in Run,
         MarkRunning(r) \/ FinalStatus(r) \/ MarkError(r) \/ MarkAborted(r)
  PROVE  \A x \in Run : DurableRun(x)'
<1> USE DEF Inv, TypeOK, RecordsOK, LocalOK
<1>1. /\ UNCHANGED <<abort, cancelReq, row, lossy, persisting, lock, proc, database>>
      /\ pc[r] \in BodyPc /\ ~cancelReq[r]
  BY DEF MarkRunning, FinalStatus, MarkError, MarkAborted, index, stores, process, BodyPc
<1>2. DurableRun(r) /\ RunInv(r)
  BY DEF DurableInv, AdmissionInv
<1>3. PICK s \in Status, b \in {"savingRunning", "savingFinal", "savingAbort"} :
        /\ mem' = [mem EXCEPT ![r] = s] /\ pc' = [pc EXCEPT ![r] = b]
        /\ s \in Active => b = "savingRunning"
  BY DEF MarkRunning, FinalStatus, MarkError, MarkAborted, Goto, Status, Active, Terminal
<1>4. InIndex(r) /\ row[r] # "none"
  BY <1>1, <1>2 DEF RunInv, DurableRun, InIndex, TaskPc, BodyPc
<1>5. s # "absent"
  BY DEF Status, Active, Terminal
<1>6. ASSUME NEW x \in Run \ {r} PROVE DurableRun(x)'
  <2>1. DurableRun(x) /\ (Pending(x)' <=> Pending(x))
    BY <1>1 DEF DurableInv, Pending
  <2> QED BY <1>1, <1>3, <2>1, SameRun
<1>7. DurableRun(r)'
  <2>1. mem'[r] = s /\ pc'[r] = b
    BY <1>3
  <2> QED BY <1>1, <1>2, <1>3, <1>4, <1>5, <2>1 DEF DurableRun, Pending, InIndex, FinalPc, SavedPc
<1> QED BY <1>6, <1>7

\* A cancellation reaches the task: the interrupted status it stands for is on
\* its way already.
LEMMA DeliverySteps ==
  ASSUME Inv, DurableInv, NEW r \in Run, DeliverCancel(r) \/ NeverStarts(r)
  PROVE  \A x \in Run : DurableRun(x)'
<1> USE DEF Inv, TypeOK, RecordsOK, LocalOK
<1>1. /\ UNCHANGED <<mem, abort, lossy, persisting, lock, proc, database>>
      /\ pc[r] \in {"scheduled"} \cup BodyPc /\ cancelReq[r]
  BY DEF DeliverCancel, NeverStarts, index, stores, process
<1>2. DurableRun(r) /\ RunInv(r)
  BY DEF DurableInv, AdmissionInv
<1>3. PICK b \in {"neverRan", "closing", "aborting"} : pc' = [pc EXCEPT ![r] = b]
  BY DEF DeliverCancel, NeverStarts, Goto
<1>4. cancelReq' = [cancelReq EXCEPT ![r] = FALSE]
  BY DEF DeliverCancel, NeverStarts
<1>5. \/ row' = row
      \/ b = "aborting" /\ row' = [row EXCEPT ![r] = "running"]
  BY <1>3 DEF DeliverCancel, NeverStarts, Goto, stores
<1>6. InIndex(r) /\ row[r] # "none"
  BY <1>1, <1>2 DEF RunInv, DurableRun, InIndex, TaskPc, BodyPc
<1>7. ASSUME NEW x \in Run \ {r} PROVE DurableRun(x)'
  <2>1. DurableRun(x) /\ (Pending(x)' <=> Pending(x))
    BY <1>1 DEF DurableInv, Pending
  <2>2. cancelReq'[x] = cancelReq[x] /\ row'[x] = row[x] /\ pc'[x] = pc[x]
    BY <1>3, <1>4, <1>5 DEF StoresOK
  <2> QED BY <1>1, <2>1, <2>2, SameRun
<1>8. DurableRun(r)'
  <2>1. ~cancelReq'[r]
    BY <1>4, Zenon
  <2>2. pc'[r] = b
    BY <1>3
  <2>3. row'[r] = row[r] \/ (b = "aborting" /\ row'[r] = "running")
    BY <1>5 DEF StoresOK
  <2>4. proc = "up" => mem[r] \notin Active /\ Interrupted(r)
    BY <1>1, <1>2 DEF RunInv, DurableRun
  <2> QED BY <1>1, <1>2, <1>6, <2>1, <2>2, <2>3, <2>4
          DEF DurableRun, Pending, Interrupted, InIndex, FinalPc, SavedPc
<1> QED BY <1>7, <1>8

\* Creation: the record before its row, then the row or neither.
LEMMA CreateSteps ==
  ASSUME Inv, DurableInv, NEW r \in Run,
         (\E s \in Strategy : CreateBegin(r, s)) \/ CreateFails(r)
  PROVE  \A x \in Run : DurableRun(x)'
<1> USE RunAssumption DEF Inv, TypeOK, RecordsOK, IndexOK, LocalOK, StoresOK
<1>1. UNCHANGED <<abort, cancelReq, persisting, proc, database>>
  BY DEF CreateBegin, CreateFails, stores, process
<1>2. DurableRun(r) /\ RunInv(r)
  BY DEF DurableInv, AdmissionInv
<1>3. CASE \E s \in Strategy : CreateBegin(r, s)
  <2>1. /\ pc[r] = "idle" /\ lock = None /\ lock' = r /\ row' = row /\ lossy' = lossy
        /\ mem' = [mem EXCEPT ![r] = "pending"] /\ pc' = [pc EXCEPT ![r] = "creating"]
    BY <1>3 DEF CreateBegin, Goto, stores
  <2>2. ASSUME NEW x \in Run \ {r} PROVE DurableRun(x)'
    <3>1. DurableRun(x) /\ (Pending(x)' <=> Pending(x))
      BY <1>1 DEF DurableInv, Pending
    <3> QED BY <1>1, <2>1, <3>1, SameRun
  <2>3. DurableRun(r)'
    BY <1>1, <1>2, <2>1 DEF DurableRun, RunInv, Pending, InIndex, FinalPc, SavedPc
  <2> QED BY <2>2, <2>3
<1>4. CASE CreateFails(r)
  <2>1. /\ lock = r /\ lock' = None
        /\ mem' = [mem EXCEPT ![r] = "absent"] /\ pc' = [pc EXCEPT ![r] = "failed"]
    BY <1>4 DEF CreateFails, Goto
  <2>2. \/ row' = row /\ lossy' = lossy
        \/ row' = [row EXCEPT ![r] = "pending"] /\ lossy' = [lossy EXCEPT ![r] = TRUE]
    BY <1>4 DEF CreateFails
  <2>3. ASSUME NEW x \in Run \ {r} PROVE DurableRun(x)'
    <3>1. DurableRun(x) /\ (Pending(x)' <=> Pending(x))
      BY <1>1 DEF DurableInv, Pending
    <3>2. row'[x] = row[x] /\ lossy'[x] = lossy[x]
      BY <2>2
    <3> QED BY <1>1, <2>1, <3>1, <3>2, SameRun
  <2>4. row'[r] = "none" \/ lossy'[r]
    <3>1. pc[r] = "creating"
      BY <2>1 DEF AdmissionInv, LockInv
    <3>2. CASE row' = row
      BY <1>2, <3>1, <3>2 DEF DurableRun
    <3>3. CASE lossy' = [lossy EXCEPT ![r] = TRUE]
      BY <3>3, Zenon
    <3> QED BY <2>2, <3>2, <3>3
  <2>5. ~cancelReq[r] /\ ~Pending(r)
    BY <1>2, <2>1 DEF AdmissionInv, LockInv, DurableRun
  <2>6. DurableRun(r)'
    BY <1>1, <1>2, <2>1, <2>4, <2>5 DEF DurableRun, Pending, InIndex, FinalPc, SavedPc, Active
  <2> QED BY <2>3, <2>6
<1> QED BY <1>3, <1>4

\* An active record is interrupted, and its row will be.
LEMMA InterruptedRun ==
  ASSUME Inv, DurableInv, NEW v \in Run, mem[v] \in Active, proc = "up",
         pc[v] # "creating", pc'[v] = pc[v], row'[v] = row[v], lossy'[v] = lossy[v],
         mem'[v] = "interrupted", abort'[v] # "none", Pending(v)'
  PROVE  DurableRun(v)'
<1>1. DurableRun(v) /\ RunInv(v)
  BY DEF Inv, DurableInv, AdmissionInv
<1>2. pc[v] # "idle" /\ pc[v] \notin FinalPc
  BY <1>1 DEF RunInv, DurableRun, Active
<1>3. proc = "up" => row[v] # "none"
  BY <1>1, <1>2 DEF DurableRun, InIndex, Active
<1> QED BY <1>1, <1>2, <1>3 DEF DurableRun, Interrupted, InIndex, Active

\* The cancel endpoint.
LEMMA CancelSteps ==
  ASSUME Inv, DurableInv, NEW r \in Run, NEW a \in Action, Cancel(r, a)
  PROVE  \A x \in Run : DurableRun(x)'
<1> USE RunAssumption DEF Inv
<1>1. /\ proc = "up" /\ lock = None /\ mem[r] \in Active
      /\ UNCHANGED <<lock, pc, row, lossy, proc, database>>
      /\ mem' = [mem EXCEPT ![r] = "interrupted"]
      /\ persisting' = persisting \cup {<<None, r>>}
      /\ Interrupt({r}, a) /\ TypeOK
  BY DEF Cancel, index
<1>2. mem'[r] = "interrupted"
  BY <1>1 DEF TypeOK, RecordsOK
<1>3. abort'[r] # "none"
  <2>1. abort'[r] = a
    BY <1>1, InterruptAt
  <2> QED BY <2>1 DEF Action
<1>4. Pending(r)'
  <2>1. <<None, r>> \in persisting'
    BY <1>1
  <2> QED BY <2>1 DEF Pending
<1>5. pc[r] # "creating"
  BY <1>1 DEF DurableInv, DurableRun
<1>6. ASSUME NEW x \in Run \ {r} PROVE DurableRun(x)'
  <2>1. DurableRun(x) /\ (Pending(x)' <=> Pending(x))
    BY <1>1 DEF DurableInv, Pending
  <2>2. abort'[x] = abort[x] /\ cancelReq'[x] = cancelReq[x]
    BY <1>1, InterruptAt
  <2>3. mem'[x] = mem[x]
    BY <1>1 DEF TypeOK, RecordsOK
  <2> QED BY <1>1, <2>1, <2>2, <2>3, SameRun
<1>7. DurableRun(r)'
  BY <1>1, <1>2, <1>3, <1>4, <1>5, InterruptedRun
<1> QED BY <1>6, <1>7

\* Admission stores the new row and interrupts what the strategy replaces.
LEMMA CommitSteps ==
  ASSUME Inv, DurableInv, NEW r \in Run, CreateCommit(r)
  PROVE  \A x \in Run : DurableRun(x)'
<1> DEFINE V == Replaced(r)
<1> USE RunAssumption DEF Inv
<1>1. /\ V \in SUBSET Run /\ r \notin V
      /\ \A v \in V : mem[v] \in Active
      /\ V # {} => strategy[r] \in Action
  BY DEF Replaced, Inflight, TypeOK, IndexOK, Strategy
<1>2. /\ lock = r /\ lock' = None /\ pc[r] = "creating" /\ proc = "up"
      /\ UNCHANGED <<lossy, proc, database>>
      /\ row' = [row EXCEPT ![r] = "pending"]
      /\ pc' = [pc EXCEPT ![r] = "notifying"]
      /\ persisting' = persisting \cup ({r} \X V)
      /\ mem' = [v \in Run |-> IF v \in V THEN "interrupted" ELSE mem[v]]
      /\ Interrupt(V, strategy[r]) /\ TypeOK
  BY DEF CreateCommit, Goto, process, AdmissionInv, LockInv
<1> HIDE DEF V
<1>3. ASSUME NEW x \in V PROVE DurableRun(x)'
  <2>1. x \in Run /\ x # r /\ mem[x] \in Active /\ mem'[x] = "interrupted"
    BY <1>1, <1>2
  <2>2. abort'[x] # "none"
    <3>1. abort'[x] = strategy[r]
      BY <1>1, <1>2, <2>1, InterruptAt
    <3> QED BY <1>1, <3>1 DEF Action
  <2>3. Pending(x)'
    <3>1. <<r, x>> \in persisting'
      BY <1>2
    <3> QED BY <3>1 DEF Pending
  <2>4. pc[x] # "creating"
    BY <1>2, <2>1 DEF DurableInv, DurableRun
  <2>5. pc'[x] = pc[x] /\ row'[x] = row[x] /\ lossy'[x] = lossy[x]
    BY <1>2, <2>1 DEF TypeOK, LocalOK, StoresOK
  <2> QED BY <1>2, <2>1, <2>2, <2>3, <2>4, <2>5, InterruptedRun
<1>4. ASSUME NEW x \in Run \ V PROVE Pending(x)' <=> Pending(x)
  BY <1>2 DEF Pending
<1>5. ASSUME NEW x \in Run \ V, x # r PROVE DurableRun(x)'
  <2>1. DurableRun(x)
    BY DEF DurableInv
  <2>2. abort'[x] = abort[x] /\ cancelReq'[x] = cancelReq[x]
    BY <1>1, <1>2, InterruptAt
  <2>3. pc'[x] = pc[x] /\ row'[x] = row[x] /\ lossy'[x] = lossy[x] /\ mem'[x] = mem[x]
    BY <1>2, <1>5 DEF TypeOK, LocalOK, StoresOK
  <2> QED BY <1>2, <1>4, <1>5, <2>1, <2>2, <2>3, SameRun
<1>6. DurableRun(r)'
  <2>1. DurableRun(r) /\ RunInv(r)
    BY DEF DurableInv, AdmissionInv
  <2>2. ~Pending(r)' /\ mem'[r] = "pending"
    BY <1>1, <1>2, <1>4, <2>1 DEF DurableRun
  <2>3. ~cancelReq'[r]
    BY <1>1, <1>2, <2>1, InterruptAt DEF DurableRun
  <2>4. pc'[r] = "notifying" /\ row'[r] = "pending"
    BY <1>2 DEF TypeOK, LocalOK, StoresOK
  <2> QED BY <2>2, <2>3, <2>4 DEF DurableRun, InIndex, FinalPc, SavedPc
<1> QED BY <1>3, <1>5, <1>6

\* An interrupted status arrives, or is lost.
LEMMA PersistSteps ==
  ASSUME Inv, DurableInv, NEW o \in Run \cup {None}, NEW r \in Run, PersistInterrupted(<<o, r>>)
  PROVE  \A x \in Run : DurableRun(x)'
<1> USE DEF Inv
<1>1. /\ UNCHANGED <<mem, abort, cancelReq, lock, pc, proc, database>>
      /\ persisting' = persisting \ {<<o, r>>} /\ <<o, r>> \in persisting
      /\ WriteRow(r, "interrupted")
  BY DEF PersistInterrupted, records, index, process
<1>2. ASSUME NEW x \in Run \ {r} PROVE DurableRun(x)'
  <2>1. DurableRun(x) /\ (Pending(x)' <=> Pending(x))
    BY <1>1 DEF DurableInv, Pending
  <2>2. row'[x] = row[x] /\ lossy'[x] = lossy[x]
    BY <1>1, WriteRowAt
  <2> QED BY <1>1, <2>1, <2>2, SameRun
<1>3. DurableRun(r)'
  <2>1. DurableRun(r) /\ Pending(r)
    BY <1>1 DEF DurableInv, Pending
  <2>2. \/ row'[r] = "interrupted" /\ lossy'[r] = lossy[r]
        \/ row'[r] = row[r] /\ lossy'[r]
    BY <1>1, WriteRowAt
  <2>3. Pending(r)' => Pending(r)
    BY <1>1 DEF Pending
  <2>4. abort[r] # "none" /\ pc[r] \notin {"idle", "creating"}
    BY <2>1 DEF DurableRun
  <2>5. Interrupted(r)'
    BY <1>1, <2>2, <2>4 DEF Interrupted
  <2> QED BY <1>1, <2>1, <2>2, <2>3, <2>4, <2>5 DEF DurableRun, InIndex, Active
<1> QED BY <1>2, <1>3

\* The process drains, exits and comes back.
LEMMA ProcessSteps ==
  ASSUME Inv, DurableInv, Shutdown \/ DrainEnds \/ Exit \/ Restart
  PROVE  \A x \in Run : DurableRun(x)'
<1> USE RunAssumption DEF Inv, TypeOK, RecordsOK, IndexOK, LocalOK, StoresOK
<1> SUFFICES ASSUME NEW x \in Run PROVE DurableRun(x)'
  OBVIOUS
<1>1. DurableRun(x) /\ RunInv(x)
  BY DEF DurableInv, AdmissionInv
<1>2. CASE Shutdown
  <2>1. /\ proc' = "draining" /\ lock = None
        /\ UNCHANGED <<mem, pc, row, persisting>>
        /\ abort'[x] \in {"interrupt", abort[x]}
    BY <1>2 DEF Shutdown, stores
  <2> QED BY <1>1, <2>1 DEF DurableRun, Pending, InIndex
<1>3. CASE DrainEnds
  <2>1. /\ proc' \in {"closed", "closedLate"} /\ lock = None
        /\ UNCHANGED <<pc, abort, persisting>>
        /\ mem'[x] \in {mem[x], "interrupted"}
        /\ mem'[x] # mem[x] => mem[x] \in Active
        /\ row'[x] \in {row[x], "interrupted"}
        /\ row'[x] # row[x] => x \in Unsettled
    BY <1>3 DEF DrainEnds
  <2>2. x \in Unsettled => pc[x] \notin {"idle", "creating"}
    BY DEF Unsettled, TaskActive, TaskPc, BodyPc, FinalPc
  <2>3. pc[x] # "creating"
    BY <1>1, <2>1 DEF DurableRun
  <2>4. InIndex(x)' => InIndex(x)
    BY <2>1 DEF InIndex, Active
  <2> QED BY <1>1, <2>1, <2>2, <2>3, <2>4 DEF DurableRun, Pending
<1>4. CASE Exit
  <2>1. /\ proc' = "down" /\ persisting' = {} /\ row' = row
        /\ mem'[x] = "absent"
        /\ pc'[x] = IF pc[x] = "idle" THEN "idle" ELSE "lost"
    BY <1>4 DEF Exit
  <2> QED BY <1>1, <2>1 DEF DurableRun, Pending, InIndex
<1>5. CASE Restart
  <2>2. /\ proc = "down" /\ UNCHANGED <<mem, abort, cancelReq, pc, persisting, lock>>
    BY <1>5 DEF Restart, records, index
  <2>3. pc[x] \in {"idle", "lost"} /\ mem[x] = "absent" /\ ~cancelReq[x]
    BY <1>1, <2>2 DEF RunInv
  <2>4. CASE database = "sqlite"
    <3>1. PICK failed \in SUBSET Orphans :
            /\ row' = [r \in Run |-> IF r \in Orphans \ failed THEN "error" ELSE row[r]]
            /\ lossy' = [r \in Run |-> lossy[r] \/ r \in failed]
      BY <1>5, <2>4, ZenonT(30) DEF Restart, Reconcile
    <3>2. row'[x] = IF x \in Orphans \ failed THEN "error" ELSE row[x]
      BY <3>1
    <3>3. x \in failed => lossy'[x]
      BY <3>1, Zenon
    <3>4. ~(row'[x] \in Active /\ ~lossy'[x])
      BY <3>2, <3>3 DEF Orphans, Active
    <3>5. row[x] = "none" => row'[x] = "none"
      BY <3>2 DEF Orphans, Active
    <3> QED BY <1>1, <2>2, <2>3, <3>4, <3>5 DEF DurableRun, Pending, InIndex, FinalPc, SavedPc
  <2>5. CASE database # "sqlite"
    <3>1. row'[x] = row[x] /\ database' = database
      BY <1>5, <2>5 DEF Restart
    <3>2. row[x] = "none" \/ pc[x] = "lost"
      BY <1>1, <2>3 DEF DurableRun
    <3> QED BY <1>1, <2>2, <2>3, <2>5, <3>1, <3>2 DEF DurableRun, Pending, InIndex, FinalPc, SavedPc, Active
  <2> QED BY <2>4, <2>5
<1> QED BY <1>2, <1>3, <1>4, <1>5

\* No step takes a failure back.
LEMMA FailuresStay ==
  ASSUME TypeOK, failures' = failures \/ Fail
  PROVE  failures' = 0 => failures = 0
BY BoundAssumption DEF TypeOK, StoresOK, Fail

\* A run still has to say what becomes of its thread as long as it did.
LEMMA ThreadKept ==
  ASSUME TypeOK, DurableInv, failures' = failures \/ Fail,
         \A t \in Thread : threadStatus'[t] = "running" => threadStatus[t] = "running",
         \A x \in Run : Unsaid(x) => Unsaid(x)'
  PROVE  \A t \in Thread : DurableThread(t)'
BY FailuresStay DEF DurableInv, DurableThread

LEMMA ThreadMove ==
  ASSUME TypeOK, DurableInv, failures' = failures \/ Fail, threadStatus' = threadStatus,
         proc' = proc, NEW r \in Run, NEW b, pc' = [pc EXCEPT ![r] = b],
         b \in {"idle", "refused", "creating", "notifying", "preparing"}
            => pc[r] \in {"idle", "refused", "creating", "notifying", "preparing"},
         b \in {"clearing", "publishing", "done"}
            => pc[r] \in {"clearing", "publishing", "done"}
  PROVE  \A t \in Thread : DurableThread(t)'
<1>1. ASSUME NEW x \in Run, Unsaid(x) PROVE Unsaid(x)'
  <2>1. pc'[x] = IF x = r THEN b ELSE pc[x]
    BY DEF TypeOK, LocalOK
  <2> QED BY <1>1, <2>1 DEF Unsaid
<1> QED BY <1>1, ThreadKept

\* The thread is marked running by a run that will say more, and by none that
\* has finished.
LEMMA ThreadSteps ==
  ASSUME Inv, DurableInv, NEW r \in Run, PrepareThread(r) \/ UpdateThread(r)
  PROVE  \A t \in Thread : DurableThread(t)'
<1> USE DEF Inv, TypeOK, LocalOK, ThreadsOK
<1> SUFFICES ASSUME NEW t \in Thread PROVE DurableThread(t)'
  OBVIOUS
<1>1. UNCHANGED <<mem, proc>> /\ (failures' = failures \/ Fail)
  BY DEF PrepareThread, UpdateThread, records, process
<1>2. failures' = 0 => failures = 0
  BY <1>1, FailuresStay
<1>3. DurableThread(t) /\ DurableRun(r) /\ RunInv(r)
  BY DEF DurableInv, AdmissionInv
<1>4. CASE PrepareThread(r)
  <2>1. pc' = [pc EXCEPT ![r] = "attaching"]
    BY <1>4 DEF PrepareThread, Goto
  <2>2. Unsaid(r)'
    BY <2>1 DEF Unsaid
  <2>3. ASSUME NEW x \in Run, Unsaid(x) PROVE Unsaid(x)'
    BY <1>1, <2>1, <2>3 DEF Unsaid
  <2>4. t # ThreadOf[r] => threadStatus'[t] = threadStatus[t]
    BY <1>4 DEF PrepareThread
  <2> QED BY <1>2, <1>3, <2>2, <2>3, <2>4 DEF DurableThread
<1>5. CASE UpdateThread(r)
  <2>1. pc[r] = "threadStatus" /\ pc' = [pc EXCEPT ![r] = "clearing"]
    BY <1>5 DEF UpdateThread, Goto
  <2>2. ASSUME NEW x \in Run, Unsaid(x), x # r \/ proc # "up" PROVE Unsaid(x)'
    BY <1>1, <2>1, <2>2 DEF Unsaid
  <2>3. t # ThreadOf[r] => threadStatus'[t] = threadStatus[t]
    BY <1>5 DEF UpdateThread
  <2>4. CASE proc # "up"
    <3>1. Unsaid(r)'
      BY <1>1, <2>1, <2>4 DEF Unsaid
    <3> QED BY <1>2, <1>3, <2>2, <2>3, <2>4, <3>1 DEF DurableThread
  <2>5. CASE proc = "up" /\ t # ThreadOf[r]
    BY <1>2, <1>3, <2>2, <2>3, <2>5 DEF DurableThread
  <2>6. CASE proc = "up" /\ t = ThreadOf[r] /\ failures' = 0
    <3>1. mem[r] \notin Active
      BY <1>3, <2>1, <2>6 DEF DurableRun, FinalPc
    <3>2. ~Fail
      BY <2>6, BoundAssumption DEF Fail, StoresOK
    <3>3. threadStatus'[t] = IF threadStatus[t] = "none" THEN "none" ELSE ThreadOutcome(r)
      BY <1>5, <2>6, <3>2 DEF UpdateThread
    <3>4. ThreadOutcome(r) # "running"
      BY <3>1 DEF ThreadOutcome, Active
    <3> QED BY <3>3, <3>4 DEF DurableThread
  <2> QED BY <2>4, <2>5, <2>6 DEF DurableThread
<1> QED BY <1>4, <1>5

\* The other steps of a run leave its thread's status to it.
LEMMA OtherThreadSteps ==
  ASSUME Inv, DurableInv, NEW r \in Run,
         \/ CreateConflict(r) \/ CreateCommit(r) \/ CreateFails(r) \/ Notified(r) \/ LaunchFails(r) \/ Attach(r)
         \/ NeverStarts(r) \/ Starts(r) \/ PriorSettled(r) \/ MarkRunning(r) \/ SaveRunning(r) \/ Snapshot(r)
         \/ FinalStatus(r) \/ FinalAborted(r) \/ MarkError(r) \/ DeliverCancel(r) \/ BeginFinalizing(r) \/ MarkAborted(r)
         \/ SaveFinal(r) \/ Rollback(r) \/ Complete(r) \/ TitleRead(r) \/ TitleWrite(r) \/ EndFinalizing(r)
         \/ PublishEnd(r) \/ StreamChunk(r) \/ StreamEnds(r) \/ StreamRaises(r)
  PROVE  \A t \in Thread : DurableThread(t)'
<1> USE DEF Goto, Inv, stores, threads, process
<1>1. CASE CreateConflict(r)
  <2>1. pc' = [pc EXCEPT ![r] = "refused"]
    BY <1>1 DEF CreateConflict
  <2> QED BY <1>1, <2>1, ThreadMove DEF CreateConflict
<1>2. CASE CreateCommit(r)
  <2>1. pc[r] = "creating" /\ pc' = [pc EXCEPT ![r] = "notifying"]
    BY <1>2, RunAssumption DEF CreateCommit, AdmissionInv, LockInv
  <2> QED BY <1>2, <2>1, ThreadMove DEF CreateCommit
<1>3. CASE CreateFails(r)
  <2>1. pc' = [pc EXCEPT ![r] = "failed"]
    BY <1>3 DEF CreateFails
  <2> QED BY <1>3, <2>1, ThreadMove DEF CreateFails
<1>4. CASE Notified(r)
  <2>1. pc' = [pc EXCEPT ![r] = "preparing"]
    BY <1>4 DEF Notified
  <2> QED BY <1>4, <2>1, ThreadMove DEF Notified
<1>5. CASE LaunchFails(r)
  <2>1. pc' = [pc EXCEPT ![r] = "abandoned"]
    BY <1>5 DEF LaunchFails
  <2> QED BY <1>5, <2>1, ThreadMove DEF LaunchFails
<1>6. CASE Attach(r)
  <2>1. pc' = [pc EXCEPT ![r] = "scheduled"]
    BY <1>6 DEF Attach
  <2> QED BY <1>6, <2>1, ThreadMove DEF Attach
<1>7. CASE NeverStarts(r)
  <2>1. pc' = [pc EXCEPT ![r] = "neverRan"]
    BY <1>7 DEF NeverStarts
  <2> QED BY <1>7, <2>1, ThreadMove DEF NeverStarts
<1>8. CASE Starts(r)
  <2>1. pc' = [pc EXCEPT ![r] = "waiting"]
    BY <1>8 DEF Starts
  <2> QED BY <1>8, <2>1, ThreadMove DEF Starts
<1>9. CASE PriorSettled(r)
  <2>1. pc' = [pc EXCEPT ![r] = "marking"]
    BY <1>9 DEF PriorSettled
  <2> QED BY <1>9, <2>1, ThreadMove DEF PriorSettled
<1>10. CASE MarkRunning(r)
  <2>1. pc' = [pc EXCEPT ![r] = "savingRunning"]
    BY <1>10 DEF MarkRunning
  <2> QED BY <1>10, <2>1, ThreadMove DEF MarkRunning
<1>11. CASE SaveRunning(r)
  <2>1. pc' = [pc EXCEPT ![r] = "snapshotting"]
    BY <1>11 DEF SaveRunning
  <2> QED BY <1>11, <2>1, ThreadMove DEF SaveRunning, WriteRow
<1>12. CASE Snapshot(r)
  <2>1. pc' = [pc EXCEPT ![r] = "streaming"]
    BY <1>12 DEF Snapshot
  <2> QED BY <1>12, <2>1, ThreadMove DEF Snapshot
<1>13. CASE FinalStatus(r)
  <2>1. pc' = [pc EXCEPT ![r] = "savingFinal"]
    BY <1>13 DEF FinalStatus
  <2> QED BY <1>13, <2>1, ThreadMove DEF FinalStatus
<1>14. CASE FinalAborted(r)
  <2>1. pc' = [pc EXCEPT ![r] = "aborting"]
    BY <1>14 DEF FinalAborted
  <2> QED BY <1>14, <2>1, ThreadMove DEF FinalAborted
<1>15. CASE MarkError(r)
  <2>1. pc' = [pc EXCEPT ![r] = "savingFinal"]
    BY <1>15 DEF MarkError
  <2> QED BY <1>15, <2>1, ThreadMove DEF MarkError
<1>16. CASE DeliverCancel(r)
  <2>1. \/ pc' = [pc EXCEPT ![r] = "closing"]
        \/ pc' = [pc EXCEPT ![r] = "aborting"]
    BY <1>16 DEF DeliverCancel
  <2> QED BY <1>16, <2>1, ThreadMove DEF DeliverCancel
<1>17. CASE BeginFinalizing(r)
  <2>1. pc' = [pc EXCEPT ![r] = "settling"]
    BY <1>17 DEF BeginFinalizing
  <2> QED BY <1>17, <2>1, ThreadMove DEF BeginFinalizing
<1>18. CASE MarkAborted(r)
  <2>1. pc' = [pc EXCEPT ![r] = "savingAbort"]
    BY <1>18 DEF MarkAborted
  <2> QED BY <1>18, <2>1, ThreadMove DEF MarkAborted
<1>19. CASE SaveFinal(r)
  <2>1. \/ pc' = [pc EXCEPT ![r] = "rollingBack"]
        \/ pc' = [pc EXCEPT ![r] = "closing"]
    BY <1>19 DEF SaveFinal
  <2> QED BY <1>19, <2>1, ThreadMove DEF SaveFinal, WriteRow
<1>20. CASE Rollback(r)
  <2>1. pc' = [pc EXCEPT ![r] = "closing"]
    BY <1>20 DEF Rollback
  <2> QED BY <1>20, <2>1, ThreadMove DEF Rollback
<1>21. CASE Complete(r)
  <2>1. \/ pc' = [pc EXCEPT ![r] = "titleWait"]
        \/ pc' = [pc EXCEPT ![r] = "threadStatus"]
    BY <1>21 DEF Complete
  <2> QED BY <1>21, <2>1, ThreadMove DEF Complete
<1>22. CASE TitleRead(r)
  <2>1. \/ pc' = [pc EXCEPT ![r] = "titleWrite"]
        \/ pc' = [pc EXCEPT ![r] = "threadStatus"]
    BY <1>22 DEF TitleRead
  <2> QED BY <1>22, <2>1, ThreadMove DEF TitleRead
<1>23. CASE TitleWrite(r)
  <2>1. pc' = [pc EXCEPT ![r] = "threadStatus"]
    BY <1>23 DEF TitleWrite
  <2> QED BY <1>23, <2>1, ThreadMove DEF TitleWrite
<1>24. CASE EndFinalizing(r)
  <2>1. pc' = [pc EXCEPT ![r] = "publishing"]
    BY <1>24 DEF EndFinalizing
  <2> QED BY <1>24, <2>1, ThreadMove DEF EndFinalizing
<1>25. CASE PublishEnd(r)
  <2>1. pc' = [pc EXCEPT ![r] = "done"]
    BY <1>25 DEF PublishEnd
  <2> QED BY <1>25, <2>1, ThreadMove DEF PublishEnd
<1>26. CASE StreamChunk(r)
  <2>1. \/ pc' = [pc EXCEPT ![r] = "streaming"]
        \/ pc' = [pc EXCEPT ![r] = "finishing"]
    BY <1>26 DEF StreamChunk
  <2> QED BY <1>26, <2>1, ThreadMove DEF StreamChunk
<1>27. CASE StreamEnds(r)
  <2>1. pc' = [pc EXCEPT ![r] = "finishing"]
    BY <1>27 DEF StreamEnds
  <2> QED BY <1>27, <2>1, ThreadMove DEF StreamEnds
<1>28. CASE StreamRaises(r)
  <2>1. pc' = [pc EXCEPT ![r] = "raised"]
    BY <1>28 DEF StreamRaises
  <2> QED BY <1>28, <2>1, ThreadMove DEF StreamRaises
<1> QED BY <1>1, <1>2, <1>3, <1>4, <1>5, <1>6, <1>7, <1>8, <1>9, <1>10, <1>11, <1>12,
           <1>13, <1>14, <1>15, <1>16, <1>17, <1>18, <1>19, <1>20, <1>21, <1>22, <1>23,
           <1>24, <1>25, <1>26, <1>27, <1>28

\* The steps of the process: what they leave running is said at the restart.
LEMMA ProcessThreadSteps ==
  ASSUME Inv, DurableInv, Shutdown \/ DrainEnds \/ Exit \/ Restart
  PROVE  \A t \in Thread : DurableThread(t)'
<1> USE DEF Inv, TypeOK, LocalOK, ThreadsOK
<1>1. failures' = failures \/ Fail
  <2>1. CASE Restart
    BY <2>1 DEF Restart, Reconcile
  <2> QED BY <2>1 DEF Shutdown, DrainEnds, Exit, stores
<1>2. ASSUME NEW t \in Thread, threadStatus'[t] = "running" PROVE threadStatus[t] = "running"
  <2>1. CASE Restart
    BY <1>2, <2>1 DEF Restart, Reconcile
  <2>2. CASE ~Restart
    BY <1>2, <2>2 DEF Shutdown, DrainEnds, Exit, threads
  <2> QED BY <2>1, <2>2
<1>3. ASSUME NEW x \in Run, Unsaid(x) PROVE Unsaid(x)'
  <2>1. CASE Restart
    <3>1. RunInv(x)
      BY DEF AdmissionInv
    <3> QED BY <1>3, <2>1, <3>1 DEF Unsaid, RunInv, Restart
  <2>2. CASE Exit
    BY <1>3, <2>2 DEF Unsaid, Exit
  <2>3. CASE Shutdown \/ DrainEnds
    BY <1>3, <2>3 DEF Unsaid, Shutdown, DrainEnds
  <2> QED BY <2>1, <2>2, <2>3
<1> QED BY <1>1, <1>2, <1>3, ThreadKept

\* Steps that move no coroutine and touch no thread.
LEMMA StillThreadSteps ==
  ASSUME Inv, DurableInv, failures' = failures \/ Fail, UNCHANGED <<threadStatus, pc, proc>>
  PROVE  \A t \in Thread : DurableThread(t)'
<1>1. ASSUME NEW x \in Run, Unsaid(x) PROVE Unsaid(x)'
  BY <1>1 DEF Unsaid
<1> QED BY <1>1, ThreadKept DEF Inv

\* Steps that leave the run, its row and its interruptions alone.
LEMMA StillRunSteps ==
  ASSUME DurableInv,
         UNCHANGED <<pc, mem, abort, cancelReq, row, lossy, persisting, lock, proc, database>>
  PROVE  \A x \in Run : DurableRun(x)'
<1> SUFFICES ASSUME NEW x \in Run PROVE DurableRun(x)'
  OBVIOUS
<1>1. DurableRun(x) /\ (Pending(x)' <=> Pending(x))
  BY DEF DurableInv, Pending
<1> QED BY <1>1, SameRun

\* Every step keeps what the stores say in agreement with the records.
LEMMA DurableStep == Inv /\ DurableInv /\ [Next]_vars => DurableInv'
<1> SUFFICES ASSUME Inv, DurableInv, [Next]_vars
             PROVE  (\A x \in Run : DurableRun(x)') /\ (\A t \in Thread : DurableThread(t)')
  BY DEF DurableInv
<1>1. CASE UNCHANGED vars
  BY <1>1, StillRunSteps, StillThreadSteps
  DEF vars, records, index, stores, threads, process
<1>2. ASSUME NEW r \in Run, Handler(r)
      PROVE  (\A x \in Run : DurableRun(x)') /\ (\A t \in Thread : DurableThread(t)')
  <2>1. ASSUME NEW o \in Run \cup {None}, PersistInterrupted(<<o, r>>)
        PROVE  (\A x \in Run : DurableRun(x)') /\ (\A t \in Thread : DurableThread(t)')
    <3>1. failures' = failures \/ Fail
      BY <2>1 DEF PersistInterrupted, WriteRow
    <3>2. \A t \in Thread : DurableThread(t)'
      BY <2>1, <3>1, StillThreadSteps DEF PersistInterrupted, threads, process
    <3> QED BY <2>1, <3>2, PersistSteps
  <2> QED BY <1>2, <2>1, CommitSteps, CreateSteps, GentleSteps, ThreadSteps, OtherThreadSteps
          DEF Handler
<1>3. ASSUME NEW r \in Run, Request(r)
      PROVE  (\A x \in Run : DurableRun(x)') /\ (\A t \in Thread : DurableThread(t)')
  <2>1. ASSUME NEW s \in Strategy, CreateBegin(r, s)
        PROVE  \A t \in Thread : DurableThread(t)'
    BY <2>1, ThreadMove DEF CreateBegin, Goto, Inv, stores, threads, process
  <2> QED BY <1>3, <2>1, CreateSteps, GentleSteps, OtherThreadSteps DEF Request
<1>4. ASSUME NEW r \in Run, NEW a \in Action, Cancel(r, a)
      PROVE  (\A x \in Run : DurableRun(x)') /\ (\A t \in Thread : DurableThread(t)')
  BY <1>4, CancelSteps, StillThreadSteps DEF Cancel, threads
<1>5. ASSUME NEW r \in Run, Task(r)
      PROVE  (\A x \in Run : DurableRun(x)') /\ (\A t \in Thread : DurableThread(t)')
  BY <1>5, GentleSteps, RowSteps, MarkSteps, DeliverySteps, ThreadSteps, OtherThreadSteps
  DEF Task, Finally
<1>6. ASSUME NEW r \in Run, Graph(r)
      PROVE  (\A x \in Run : DurableRun(x)') /\ (\A t \in Thread : DurableThread(t)')
  <2>1. CASE GoalTurn(r)
    BY <2>1, StillRunSteps, StillThreadSteps
    DEF GoalTurn, records, index, stores, threads, process
  <2> QED BY <1>6, <2>1, GentleSteps, OtherThreadSteps DEF Graph
<1> QED BY <1>1, <1>2, <1>3, <1>4, <1>5, <1>6, ProcessSteps, ProcessThreadSteps DEF Next, Step

LEMMA DurableInit == Init => DurableInv
<1> SUFFICES ASSUME Init PROVE DurableInv
  OBVIOUS
<1>1. ASSUME NEW r \in Run PROVE DurableRun(r)
  BY RunAssumption DEF Init, DurableRun, Pending, InIndex, FinalPc, SavedPc, Active
<1>2. ASSUME NEW t \in Thread PROVE DurableThread(t)
  BY DEF Init, DurableThread
<1> QED BY <1>1, <1>2 DEF DurableInv

\* The stores agree with what the gateway knows in every execution: a visible
\* run has its row, the row of a settled run is its record's status or a late
\* interrupted, a serving process owns every active row but, without SQLite,
\* those of runs that died with a process, and a thread whose runs have all
\* finished is not left running.
THEOREM DurableAgreement == Spec => []DurableStateAgrees
<1>1. Inv /\ DurableInv => DurableStateAgrees
  <2> SUFFICES ASSUME Inv, DurableInv PROVE DurableStateAgrees
    OBVIOUS
  <2>1. RowBeforeVisible
    BY DEF RowBeforeVisible, DurableInv, DurableRun
  <2>2. SettledRowAgrees
    BY DEF SettledRowAgrees, DurableInv, DurableRun, Pending, Interrupted, FinalPc, SavedPc
  <2>3. NoOrphanRow
    BY DEF NoOrphanRow, DurableInv, DurableRun
  <2>4. ThreadStatusSettles
    BY DEF ThreadStatusSettles, DurableInv, DurableThread, Unsaid
  <2> QED BY <2>1, <2>2, <2>3, <2>4 DEF DurableStateAgrees
<1>2. Init => Inv /\ DurableInv
  BY InvInit, DurableInit
<1>3. (Inv /\ DurableInv) /\ [Next]_vars => (Inv /\ DurableInv)'
  BY InvStep, DurableStep
<1> QED BY <1>1, <1>2, <1>3, PTL DEF Spec

-----------------------------------------------------------------------------
(* Cleanup: a rollback or a title write takes nothing of another run from    *)
(* the head of their thread.                                                 *)

\* No run of thread t was cancelled before its task existed.
Clean(t) == \A q \in Run : ThreadOf[q] = t => ~detached[q]

\* The pcs from the capture of the snapshot to the rollback.
RevertPc == {"streaming", "finishing", "raised", "aborting", "settling", "savingAbort", "rollingBack"}
SnapPc   == RevertPc \cup {"savingFinal", "closing"}
TitlePc  == {"titleWait", "titleWrite"}

\* Run p will not write to the head of its thread again.
Over(p) ==
    /\ pc[p] \notin RequestPc \cup {"idle", "scheduled", "savingAbort", "rollingBack"} \cup BodyPc \cup TitlePc
    /\ pc[p] = "closing" => mem[p] # "interrupted"

\* Run q has loaded the head it builds on, or holds the one it writes a title to.
Holds(q) == snap[q] # "unset" \/ pc[q] \in GraphPc \cup {"titleWrite"}

\* How the record, the locals and the coroutine of one run agree.
FlagOf(r) ==
    /\ pc[r] \in {"settling", "savingAbort", "rollingBack"} => finalizing[r]
    /\ pc[r] = "savingFinal" => mem[r] \in {"success", "error"}
    /\ pc[r] \in TitlePc => mem[r] = "interrupted"
    /\ ~detached[r] /\ mem[r] = "interrupted" /\ pc[r] \in TaskPc \ {"publishing"} =>
          finalizing[r] \/ r \in drained
    /\ snap[r] # "unset" => pc[r] \in SnapPc
    /\ snap[r] = "none" => snapWork[r] = {}
    /\ ~detached[r] /\ pc[r] \in EarlyPc /\ proc # "up" => cancelReq[r]

DrainInv ==
    /\ proc \in {"up", "down"} => drained = {}
    /\ \A p, q \in Run : p \in drained /\ Earlier(p, q) => detached[p]

\* Runs take turns with the head of their thread.
TurnsOf(p, q) == Earlier(p, q) /\ ~detached[p] /\ ~detached[q] /\ Holds(q) => Over(p)

\* A run holds all of the head but its own work.
HeldOf(r) ==
    Clean(ThreadOf[r]) =>
      /\ snap[r] # "unset" /\ pc[r] \in RevertPc =>
           /\ ckpt[ThreadOf[r]] \ {r} \subseteq snapWork[r]
           /\ base[r] \ {r} \subseteq snapWork[r]
      /\ pc[r] = "titleWrite" => ckpt[ThreadOf[r]] \ {r} \subseteq base[r]

TicketInv == \A p, q \in Run : p # q /\ InIndex(p) /\ InIndex(q) => ticket[p] # ticket[q]

\* The claims about single runs and the index, the turns, and what is held:
\* with Inv, an inductive invariant.
FlagInv  == (\A r \in Run : FlagOf(r)) /\ DrainInv /\ TicketInv
TurnsInv == \A p, q \in Run : TurnsOf(p, q)
HeldInv  == \A r \in Run : HeldOf(r)

\* What a step of another run leaves of run x.
Still(x) ==
    /\ pc'[x] = pc[x] /\ mem'[x] = mem[x] /\ finalizing'[x] = finalizing[x]
    /\ cancelReq'[x] = cancelReq[x] /\ detached'[x] = detached[x]
    /\ snap'[x] = snap[x] /\ snapWork'[x] = snapWork[x] /\ base'[x] = base[x]
    /\ ticket'[x] = ticket[x] /\ UNCHANGED <<proc, drained>>

\* The steps of a run's own coroutines, the commit excepted.
Own(r) ==
    \/ Request(r) \/ Task(r) \/ Graph(r)
    \/ /\ proc = "up"
       /\ CreateFails(r) \/ Notified(r) \/ PrepareThread(r) \/ LaunchFails(r) \/ Attach(r)

\* A coroutine leaves the other runs alone ...
LEMMA OwnAlone ==
  ASSUME TypeOK, NEW r \in Run, Own(r), NEW x \in Run, x # r
  PROVE  Still(x)
<1> USE DEF Still, TypeOK, RecordsOK, LocalOK, IndexOK, Goto, records, local, index, process
<1>0. ASSUME NEW s \in Strategy, CreateBegin(r, s) PROVE Still(x)
  BY <1>0 DEF CreateBegin
<1>1. ASSUME CreateConflict(r) PROVE Still(x)
  BY <1>1 DEF CreateConflict
<1>2. ASSUME CreateFails(r) PROVE Still(x)
  BY <1>2 DEF CreateFails
<1>3. ASSUME Notified(r) PROVE Still(x)
  BY <1>3 DEF Notified
<1>4. ASSUME PrepareThread(r) PROVE Still(x)
  BY <1>4 DEF PrepareThread
<1>5. ASSUME LaunchFails(r) PROVE Still(x)
  BY <1>5 DEF LaunchFails
<1>6. ASSUME Attach(r) PROVE Still(x)
  BY <1>6 DEF Attach
<1>7. ASSUME NeverStarts(r) PROVE Still(x)
  BY <1>7 DEF NeverStarts
<1>8. ASSUME Starts(r) PROVE Still(x)
  BY <1>8 DEF Starts
<1>9. ASSUME PriorSettled(r) PROVE Still(x)
  BY <1>9 DEF PriorSettled
<1>10. ASSUME MarkRunning(r) PROVE Still(x)
  BY <1>10 DEF MarkRunning
<1>11. ASSUME SaveRunning(r) PROVE Still(x)
  BY <1>11 DEF SaveRunning
<1>12. ASSUME Snapshot(r) PROVE Still(x)
  BY <1>12 DEF Snapshot
<1>13. ASSUME StreamChunk(r) PROVE Still(x)
  BY <1>13 DEF StreamChunk
<1>14. ASSUME StreamEnds(r) PROVE Still(x)
  BY <1>14 DEF StreamEnds
<1>15. ASSUME GoalTurn(r) PROVE Still(x)
  BY <1>15 DEF GoalTurn
<1>16. ASSUME StreamRaises(r) PROVE Still(x)
  BY <1>16 DEF StreamRaises
<1>17. ASSUME FinalStatus(r) PROVE Still(x)
  BY <1>17 DEF FinalStatus
<1>18. ASSUME FinalAborted(r) PROVE Still(x)
  BY <1>18 DEF FinalAborted
<1>19. ASSUME MarkError(r) PROVE Still(x)
  BY <1>19 DEF MarkError
<1>20. ASSUME DeliverCancel(r) PROVE Still(x)
  BY <1>20 DEF DeliverCancel
<1>21. ASSUME BeginFinalizing(r) PROVE Still(x)
  BY <1>21 DEF BeginFinalizing
<1>22. ASSUME MarkAborted(r) PROVE Still(x)
  BY <1>22 DEF MarkAborted
<1>23. ASSUME SaveFinal(r) PROVE Still(x)
  BY <1>23 DEF SaveFinal
<1>24. ASSUME Rollback(r) PROVE Still(x)
  BY <1>24 DEF Rollback
<1>25. ASSUME Complete(r) PROVE Still(x)
  BY <1>25 DEF Complete
<1>26. ASSUME TitleRead(r) PROVE Still(x)
  BY <1>26 DEF TitleRead
<1>27. ASSUME TitleWrite(r) PROVE Still(x)
  BY <1>27 DEF TitleWrite
<1>28. ASSUME UpdateThread(r) PROVE Still(x)
  BY <1>28 DEF UpdateThread
<1>29. ASSUME EndFinalizing(r) PROVE Still(x)
  BY <1>29 DEF EndFinalizing
<1>30. ASSUME PublishEnd(r) PROVE Still(x)
  BY <1>30 DEF PublishEnd
<1> QED BY <1>0, <1>1, <1>2, <1>3, <1>4, <1>5, <1>6, <1>7, <1>8, <1>9, <1>10, <1>11, <1>12,
           <1>13, <1>14, <1>15, <1>16, <1>17, <1>18, <1>19, <1>20, <1>21, <1>22, <1>23,
           <1>24, <1>25, <1>26, <1>27, <1>28, <1>29, <1>30 DEF Own, Request, Task, Graph,
           Finally

\* What a run holds of the head changes where the code takes it or drops it.
HoldsOn(r) ==
    /\ snap'[r] # "unset" /\ pc'[r] \in RevertPc =>
         /\ snap'[r] = snap[r] /\ pc[r] \in RevertPc
         /\ snapWork'[r] = snapWork[r] /\ base'[r] = base[r]
    /\ pc'[r] = "titleWrite" => pc[r] = "titleWrite" /\ base'[r] = base[r]

\* What a step does to a run.
Keeps(r) ==
    /\ UNCHANGED <<proc, drained>> \/ Shutdown \/ DrainEnds \/ Exit \/ Restart
    /\ FlagOf(r)'
    /\ Over(r) /\ mem[r] \notin Active => Over(r)'
    /\ Holds(r)' => Holds(r) \/ PriorSettled(r) \/ TitleRead(r)
    /\ detached[r] => detached'[r] \/ proc' = "down"
    /\ \/ (InIndex(r)' => InIndex(r)) /\ ticket'[r] = ticket[r]
       \/ \E s \in Strategy : CreateBegin(r, s)
    /\ HoldsOn(r) \/ Snapshot(r) \/ GoalTurn(r) \/ TitleRead(r)
    /\ pc[r] = "rollingBack" => pc'[r] \in {pc[r], "lost"} \/ Rollback(r)
    /\ pc[r] = "titleWrite" => pc'[r] \in {pc[r], "lost"} \/ TitleWrite(r)

\* ... and keeps its own claims, step by step.
LEMMA OwnKeeps ==
  ASSUME Inv, FlagInv, NEW r \in Run, Own(r), proc # "down"
  PROVE  Keeps(r)
<1>a. FlagOf(r) /\ RunInv(r) /\ LockInv /\ None # r /\ (proc \in {"up", "down"} => drained = {})
  BY RunAssumption DEF FlagInv, Inv, AdmissionInv, DrainInv
<1>b. /\ pc \in [Run -> Pc] /\ mem \in [Run -> Status \cup {"absent"}]
      /\ finalizing \in [Run -> BOOLEAN] /\ cancelReq \in [Run -> BOOLEAN]
      /\ detached \in [Run -> BOOLEAN] /\ snapWork \in [Run -> SUBSET Work]
      /\ snap \in [Run -> {"unset", "none", "taken", "failed"}]
  BY DEF Inv, TypeOK, RecordsOK, LocalOK, Pc
<1> USE DEF Goto, records, index, local, process, SnapPc, RevertPc, TitlePc, RequestPc, BodyPc, FinalPc, TaskPc,
            EarlyPc, GraphPc, Active
<1>0. ASSUME NEW s \in Strategy, CreateBegin(r, s) PROVE Keeps(r)
  <2>1. /\ pc[r] = "idle" /\ pc'[r] = "creating" /\ mem'[r] = "pending"
        /\ finalizing'[r] = finalizing[r] /\ cancelReq'[r] = cancelReq[r] /\ snap'[r] = snap[r]
        /\ snapWork'[r] = snapWork[r] /\ detached'[r] = detached[r] /\ UNCHANGED <<proc, drained>>
    BY <1>0, <1>b DEF CreateBegin
  <2> QED BY <1>0, <1>a, <2>1 DEF Keeps, FlagOf, Over, Holds, HoldsOn
<1>1. ASSUME CreateConflict(r) PROVE Keeps(r)
  <2>1. /\ pc[r] = "idle" /\ pc'[r] = "refused" /\ proc = "up"
        /\ mem'[r] = mem[r] /\ finalizing'[r] = finalizing[r] /\ cancelReq'[r] = cancelReq[r]
        /\ snap'[r] = snap[r] /\ snapWork'[r] = snapWork[r] /\ detached'[r] = detached[r]
        /\ base'[r] = base[r] /\ UNCHANGED <<ticket, proc, drained>>
    BY <1>1, <1>b DEF CreateConflict
  <2> QED BY <1>a, <2>1 DEF Keeps, FlagOf, Over, Holds, HoldsOn, RunInv, InIndex
<1>2. ASSUME CreateFails(r) PROVE Keeps(r)
  <2>1. /\ pc[r] = "creating" /\ pc'[r] = "failed"
        /\ mem'[r] = "absent" /\ finalizing'[r] = finalizing[r] /\ cancelReq'[r] = cancelReq[r]
        /\ snap'[r] = snap[r] /\ snapWork'[r] = snapWork[r] /\ detached'[r] = detached[r]
        /\ base'[r] = base[r] /\ UNCHANGED <<ticket, proc, drained>>
    BY <1>2, <1>a, <1>b DEF CreateFails, LockInv
  <2> QED BY <1>a, <2>1 DEF Keeps, FlagOf, Over, Holds, HoldsOn, RunInv, InIndex
<1>3. ASSUME Notified(r) PROVE Keeps(r)
  <2>1. /\ pc[r] = "notifying" /\ pc'[r] = "preparing"
        /\ mem'[r] = mem[r] /\ finalizing'[r] = finalizing[r] /\ cancelReq'[r] = cancelReq[r]
        /\ snap'[r] = snap[r] /\ snapWork'[r] = snapWork[r] /\ detached'[r] = detached[r]
        /\ base'[r] = base[r] /\ UNCHANGED <<ticket, proc, drained>>
    BY <1>3, <1>b DEF Notified
  <2> QED BY <1>a, <2>1 DEF Keeps, FlagOf, Over, Holds, HoldsOn, RunInv, InIndex
<1>4. ASSUME PrepareThread(r) PROVE Keeps(r)
  <2>1. /\ pc[r] = "preparing" /\ pc'[r] = "attaching"
        /\ mem'[r] = mem[r] /\ finalizing'[r] = finalizing[r] /\ cancelReq'[r] = cancelReq[r]
        /\ snap'[r] = snap[r] /\ snapWork'[r] = snapWork[r] /\ detached'[r] = detached[r]
        /\ base'[r] = base[r] /\ UNCHANGED <<ticket, proc, drained>>
    BY <1>4, <1>b DEF PrepareThread
  <2> QED BY <1>a, <2>1 DEF Keeps, FlagOf, Over, Holds, HoldsOn, RunInv, InIndex
<1>5. ASSUME LaunchFails(r) PROVE Keeps(r)
  <2>1. /\ pc[r] = "attaching" /\ pc'[r] = "abandoned"
        /\ mem'[r] = mem[r] /\ finalizing'[r] = finalizing[r] /\ cancelReq'[r] = cancelReq[r]
        /\ snap'[r] = snap[r] /\ snapWork'[r] = snapWork[r] /\ detached'[r] = detached[r]
        /\ base'[r] = base[r] /\ UNCHANGED <<ticket, proc, drained>>
    BY <1>5, <1>b DEF LaunchFails
  <2> QED BY <1>a, <2>1 DEF Keeps, FlagOf, Over, Holds, HoldsOn, RunInv, InIndex
<1>6. ASSUME Attach(r), proc = "up" PROVE Keeps(r)
  <2>1. /\ pc[r] = "attaching" /\ pc'[r] = "scheduled"
        /\ mem'[r] = mem[r] /\ finalizing'[r] = finalizing[r] /\ cancelReq'[r] = cancelReq[r]
        /\ snap'[r] = snap[r] /\ snapWork'[r] = snapWork[r] /\ detached'[r] = detached[r]
        /\ base'[r] = base[r] /\ UNCHANGED <<ticket, proc, drained>>
    BY <1>6, <1>b DEF Attach
  <2> QED BY <1>6, <1>a, <2>1 DEF Keeps, FlagOf, Over, Holds, HoldsOn, RunInv, InIndex
<1>7. ASSUME NeverStarts(r) PROVE Keeps(r)
  <2>1. /\ pc[r] = "scheduled" /\ pc'[r] = "neverRan"
        /\ mem'[r] = mem[r] /\ finalizing'[r] = finalizing[r] /\ cancelReq'[r] = FALSE
        /\ snap'[r] = snap[r] /\ snapWork'[r] = snapWork[r] /\ detached'[r] = detached[r]
        /\ base'[r] = base[r] /\ UNCHANGED <<ticket, proc, drained>>
    BY <1>7, <1>b DEF NeverStarts
  <2> QED BY <1>a, <2>1 DEF Keeps, FlagOf, Over, Holds, HoldsOn, RunInv, InIndex
<1>8. ASSUME Starts(r) PROVE Keeps(r)
  <2>1. /\ pc[r] = "scheduled" /\ pc'[r] = "waiting" /\ ~cancelReq[r]
        /\ mem'[r] = mem[r] /\ finalizing'[r] = finalizing[r] /\ cancelReq'[r] = cancelReq[r]
        /\ snap'[r] = snap[r] /\ snapWork'[r] = snapWork[r] /\ detached'[r] = detached[r]
        /\ base'[r] = base[r] /\ UNCHANGED <<ticket, proc, drained>>
    BY <1>8, <1>b DEF Starts
  <2> QED BY <1>a, <2>1 DEF Keeps, FlagOf, Over, Holds, HoldsOn, RunInv, InIndex
<1>9. ASSUME PriorSettled(r) PROVE Keeps(r)
  <2>1. /\ pc[r] = "waiting" /\ pc'[r] = "marking" /\ ~cancelReq[r]
        /\ mem'[r] = mem[r] /\ finalizing'[r] = finalizing[r] /\ cancelReq'[r] = cancelReq[r]
        /\ snap'[r] = snap[r] /\ snapWork'[r] = snapWork[r] /\ detached'[r] = detached[r]
        /\ base'[r] = base[r] /\ UNCHANGED <<ticket, proc, drained>>
    BY <1>9, <1>b DEF PriorSettled
  <2> QED BY <1>9, <1>a, <2>1 DEF Keeps, FlagOf, Over, Holds, HoldsOn, RunInv, InIndex
<1>10. ASSUME MarkRunning(r) PROVE Keeps(r)
  <2>1. /\ pc[r] = "marking" /\ pc'[r] = "savingRunning" /\ ~cancelReq[r]
        /\ mem'[r] = "running" /\ finalizing'[r] = finalizing[r] /\ cancelReq'[r] = cancelReq[r]
        /\ snap'[r] = snap[r] /\ snapWork'[r] = snapWork[r] /\ detached'[r] = detached[r]
        /\ base'[r] = base[r] /\ UNCHANGED <<ticket, proc, drained>>
    BY <1>10, <1>b DEF MarkRunning
  <2> QED BY <1>a, <2>1 DEF Keeps, FlagOf, Over, Holds, HoldsOn, RunInv, InIndex
<1>11. ASSUME SaveRunning(r) PROVE Keeps(r)
  <2>1. /\ pc[r] = "savingRunning" /\ pc'[r] = "snapshotting" /\ ~cancelReq[r]
        /\ mem'[r] = mem[r] /\ finalizing'[r] = finalizing[r] /\ cancelReq'[r] = cancelReq[r]
        /\ snap'[r] = snap[r] /\ snapWork'[r] = snapWork[r] /\ detached'[r] = detached[r]
        /\ base'[r] = base[r] /\ UNCHANGED <<ticket, proc, drained>>
    BY <1>11, <1>b DEF SaveRunning
  <2> QED BY <1>a, <2>1 DEF Keeps, FlagOf, Over, Holds, HoldsOn, RunInv, InIndex
<1>12. ASSUME Snapshot(r) PROVE Keeps(r)
  <2>1. /\ pc[r] = "snapshotting" /\ pc'[r] = "streaming" /\ ~cancelReq[r]
        /\ mem'[r] = mem[r] /\ finalizing'[r] = finalizing[r] /\ cancelReq'[r] = cancelReq[r]
        /\ detached'[r] = detached[r] /\ UNCHANGED <<ticket, proc, drained>>
        /\ snap'[r] \in {"none", "taken", "failed"} /\ (snap'[r] = "none" => snapWork'[r] = {})
    BY <1>12, <1>b DEF Snapshot
  <2> QED BY <1>12, <1>a, <2>1 DEF Keeps, FlagOf, Over, Holds, HoldsOn, RunInv, InIndex
<1>13. ASSUME StreamChunk(r) PROVE Keeps(r)
  <2>1. /\ pc[r] = "streaming" /\ pc'[r] \in {"streaming", "finishing"} /\ ~cancelReq[r]
        /\ mem'[r] = mem[r] /\ finalizing'[r] = finalizing[r] /\ cancelReq'[r] = cancelReq[r]
        /\ snap'[r] = snap[r] /\ snapWork'[r] = snapWork[r] /\ detached'[r] = detached[r]
        /\ base'[r] = base[r] /\ UNCHANGED <<ticket, proc, drained>>
    BY <1>13, <1>b DEF StreamChunk
  <2> QED BY <1>a, <2>1 DEF Keeps, FlagOf, Over, Holds, HoldsOn, RunInv, InIndex
<1>14. ASSUME StreamEnds(r) PROVE Keeps(r)
  <2>1. /\ pc[r] = "streaming" /\ pc'[r] = "finishing" /\ ~cancelReq[r]
        /\ mem'[r] = mem[r] /\ finalizing'[r] = finalizing[r] /\ cancelReq'[r] = cancelReq[r]
        /\ snap'[r] = snap[r] /\ snapWork'[r] = snapWork[r] /\ detached'[r] = detached[r]
        /\ base'[r] = base[r] /\ UNCHANGED <<ticket, proc, drained>>
    BY <1>14, <1>b DEF StreamEnds
  <2> QED BY <1>a, <2>1 DEF Keeps, FlagOf, Over, Holds, HoldsOn, RunInv, InIndex
<1>15. ASSUME GoalTurn(r) PROVE Keeps(r)
  <2>1. /\ pc[r] = "streaming" /\ pc'[r] = "streaming" /\ ~cancelReq[r]
        /\ mem'[r] = mem[r] /\ finalizing'[r] = finalizing[r] /\ cancelReq'[r] = cancelReq[r]
        /\ snap'[r] = snap[r] /\ snapWork'[r] = snapWork[r] /\ detached'[r] = detached[r]
        /\ UNCHANGED <<ticket, proc, drained>>
    BY <1>15, <1>b DEF GoalTurn
  <2> QED BY <1>15, <1>a, <2>1 DEF Keeps, FlagOf, Over, Holds, HoldsOn, RunInv, InIndex
<1>16. ASSUME StreamRaises(r) PROVE Keeps(r)
  <2>1. /\ pc[r] \in {"snapshotting", "streaming"} /\ pc'[r] = "raised" /\ ~cancelReq[r]
        /\ mem'[r] = mem[r] /\ finalizing'[r] = finalizing[r] /\ cancelReq'[r] = cancelReq[r]
        /\ snap'[r] = snap[r] /\ snapWork'[r] = snapWork[r] /\ detached'[r] = detached[r]
        /\ base'[r] = base[r] /\ UNCHANGED <<ticket, proc, drained>>
    BY <1>16, <1>b DEF StreamRaises
  <2> QED BY <1>a, <2>1 DEF Keeps, FlagOf, Over, Holds, HoldsOn, RunInv, InIndex
<1>17. ASSUME FinalStatus(r) PROVE Keeps(r)
  <2>1. /\ pc[r] = "finishing" /\ pc'[r] = "savingFinal" /\ ~cancelReq[r]
        /\ finalizing'[r] = finalizing[r] /\ cancelReq'[r] = cancelReq[r] /\ snap'[r] = snap[r]
        /\ snapWork'[r] = snapWork[r] /\ detached'[r] = detached[r] /\ base'[r] = base[r]
        /\ UNCHANGED <<ticket, proc, drained>>
        /\ mem'[r] \in {"success", "error"}
    BY <1>17, <1>b DEF FinalStatus
  <2> QED BY <1>a, <2>1 DEF Keeps, FlagOf, Over, Holds, HoldsOn, RunInv, InIndex
<1>18. ASSUME FinalAborted(r) PROVE Keeps(r)
  <2>1. /\ pc[r] = "finishing" /\ pc'[r] = "aborting" /\ ~cancelReq[r]
        /\ mem'[r] = mem[r] /\ finalizing'[r] = finalizing[r] /\ cancelReq'[r] = cancelReq[r]
        /\ snap'[r] = snap[r] /\ snapWork'[r] = snapWork[r] /\ detached'[r] = detached[r]
        /\ base'[r] = base[r] /\ UNCHANGED <<ticket, proc, drained>>
    BY <1>18, <1>b DEF FinalAborted
  <2> QED BY <1>a, <2>1 DEF Keeps, FlagOf, Over, Holds, HoldsOn, RunInv, InIndex
<1>19. ASSUME MarkError(r) PROVE Keeps(r)
  <2>1. /\ pc[r] = "raised" /\ pc'[r] = "savingFinal" /\ ~cancelReq[r]
        /\ mem'[r] = "error" /\ finalizing'[r] = finalizing[r] /\ cancelReq'[r] = cancelReq[r]
        /\ snap'[r] = snap[r] /\ snapWork'[r] = snapWork[r] /\ detached'[r] = detached[r]
        /\ base'[r] = base[r] /\ UNCHANGED <<ticket, proc, drained>>
    BY <1>19, <1>b DEF MarkError
  <2> QED BY <1>a, <2>1 DEF Keeps, FlagOf, Over, Holds, HoldsOn, RunInv, InIndex
<1>20. ASSUME DeliverCancel(r) PROVE Keeps(r)
  <2>1. /\ pc[r] \in BodyPc /\ pc'[r] = (IF pc[r] = "raised" THEN "closing" ELSE "aborting")
        /\ cancelReq[r]
        /\ mem'[r] = mem[r] /\ finalizing'[r] = finalizing[r] /\ cancelReq'[r] = FALSE
        /\ snap'[r] = snap[r] /\ snapWork'[r] = snapWork[r] /\ detached'[r] = detached[r]
        /\ base'[r] = base[r] /\ UNCHANGED <<ticket, proc, drained>>
    BY <1>20, <1>b DEF DeliverCancel
  <2> QED BY <1>a, <2>1 DEF Keeps, FlagOf, Over, Holds, HoldsOn, RunInv, InIndex
<1>21. ASSUME BeginFinalizing(r) PROVE Keeps(r)
  <2>1. /\ pc[r] = "aborting" /\ pc'[r] = "settling"
        /\ mem'[r] = mem[r] /\ finalizing'[r] = TRUE /\ cancelReq'[r] = cancelReq[r]
        /\ snap'[r] = snap[r] /\ snapWork'[r] = snapWork[r] /\ detached'[r] = detached[r]
        /\ base'[r] = base[r] /\ UNCHANGED <<ticket, proc, drained>>
    BY <1>21, <1>b DEF BeginFinalizing
  <2> QED BY <1>a, <2>1 DEF Keeps, FlagOf, Over, Holds, HoldsOn, RunInv, InIndex
<1>22. ASSUME MarkAborted(r) PROVE Keeps(r)
  <2>1. /\ pc[r] = "settling" /\ pc'[r] = "savingAbort"
        /\ finalizing'[r] = finalizing[r] /\ cancelReq'[r] = cancelReq[r] /\ snap'[r] = snap[r]
        /\ snapWork'[r] = snapWork[r] /\ detached'[r] = detached[r] /\ base'[r] = base[r]
        /\ UNCHANGED <<ticket, proc, drained>>
        /\ mem'[r] \in {"error", "interrupted"}
    BY <1>22, <1>b DEF MarkAborted
  <2> QED BY <1>a, <2>1 DEF Keeps, FlagOf, Over, Holds, HoldsOn, RunInv, InIndex
<1>23. ASSUME SaveFinal(r) PROVE Keeps(r)
  <2>1. /\ \/ pc[r] = "savingFinal" /\ pc'[r] = "closing"
           \/ pc[r] = "savingAbort" /\ pc'[r] \in {"rollingBack", "closing"}
        /\ mem'[r] = mem[r] /\ finalizing'[r] = finalizing[r] /\ cancelReq'[r] = cancelReq[r]
        /\ snap'[r] = snap[r] /\ snapWork'[r] = snapWork[r] /\ detached'[r] = detached[r]
        /\ base'[r] = base[r] /\ UNCHANGED <<ticket, proc, drained>>
    BY <1>23, <1>b DEF SaveFinal
  <2> QED BY <1>a, <2>1 DEF Keeps, FlagOf, Over, Holds, HoldsOn, RunInv, InIndex
<1>24. ASSUME Rollback(r) PROVE Keeps(r)
  <2>1. /\ pc[r] = "rollingBack" /\ pc'[r] = "closing"
        /\ mem'[r] = mem[r] /\ finalizing'[r] = finalizing[r] /\ cancelReq'[r] = cancelReq[r]
        /\ snap'[r] = snap[r] /\ snapWork'[r] = snapWork[r] /\ detached'[r] = detached[r]
        /\ base'[r] = base[r] /\ UNCHANGED <<ticket, proc, drained>>
    BY <1>24, <1>b DEF Rollback
  <2> QED BY <1>24, <1>a, <2>1 DEF Keeps, FlagOf, Over, Holds, HoldsOn, RunInv, InIndex
<1>25. ASSUME Complete(r) PROVE Keeps(r)
  <2>1. /\ pc[r] = "closing" /\ pc'[r] = (IF mem[r] = "interrupted" THEN "titleWait" ELSE "threadStatus")
        /\ mem'[r] = mem[r] /\ finalizing'[r] = finalizing[r] /\ cancelReq'[r] = cancelReq[r]
        /\ snap'[r] = "unset" /\ snapWork'[r] = {} /\ detached'[r] = detached[r]
        /\ UNCHANGED <<ticket, proc, drained>>
    BY <1>25, <1>b DEF Complete
  <2> QED BY <1>a, <2>1 DEF Keeps, FlagOf, Over, Holds, HoldsOn, RunInv, InIndex
<1>26. ASSUME TitleRead(r) PROVE Keeps(r)
  <2>1. /\ pc[r] = "titleWait" /\ pc'[r] \in {"titleWrite", "threadStatus"}
        /\ mem'[r] = mem[r] /\ finalizing'[r] = finalizing[r] /\ cancelReq'[r] = cancelReq[r]
        /\ snap'[r] = snap[r] /\ snapWork'[r] = snapWork[r] /\ detached'[r] = detached[r]
        /\ UNCHANGED <<ticket, proc, drained>>
    BY <1>26, <1>b DEF TitleRead
  <2> QED BY <1>26, <1>a, <2>1 DEF Keeps, FlagOf, Over, Holds, HoldsOn, RunInv, InIndex
<1>27. ASSUME TitleWrite(r) PROVE Keeps(r)
  <2>1. /\ pc[r] = "titleWrite" /\ pc'[r] = "threadStatus"
        /\ mem'[r] = mem[r] /\ finalizing'[r] = finalizing[r] /\ cancelReq'[r] = cancelReq[r]
        /\ snap'[r] = snap[r] /\ snapWork'[r] = snapWork[r] /\ detached'[r] = detached[r]
        /\ UNCHANGED <<ticket, proc, drained>>
    BY <1>27, <1>b DEF TitleWrite
  <2> QED BY <1>27, <1>a, <2>1 DEF Keeps, FlagOf, Over, Holds, HoldsOn, RunInv, InIndex
<1>28. ASSUME UpdateThread(r) PROVE Keeps(r)
  <2>1. /\ pc[r] = "threadStatus" /\ pc'[r] = "clearing"
        /\ mem'[r] = mem[r] /\ finalizing'[r] = finalizing[r] /\ cancelReq'[r] = cancelReq[r]
        /\ snap'[r] = snap[r] /\ snapWork'[r] = snapWork[r] /\ detached'[r] = detached[r]
        /\ base'[r] = base[r] /\ UNCHANGED <<ticket, proc, drained>>
    BY <1>28, <1>b DEF UpdateThread
  <2> QED BY <1>a, <2>1 DEF Keeps, FlagOf, Over, Holds, HoldsOn, RunInv, InIndex
<1>29. ASSUME EndFinalizing(r) PROVE Keeps(r)
  <2>1. /\ pc[r] = "clearing" /\ pc'[r] = "publishing"
        /\ mem'[r] = mem[r] /\ finalizing'[r] = FALSE /\ cancelReq'[r] = cancelReq[r]
        /\ snap'[r] = snap[r] /\ snapWork'[r] = snapWork[r] /\ detached'[r] = detached[r]
        /\ base'[r] = base[r] /\ UNCHANGED <<ticket, proc, drained>>
    BY <1>29, <1>b DEF EndFinalizing
  <2> QED BY <1>a, <2>1 DEF Keeps, FlagOf, Over, Holds, HoldsOn, RunInv, InIndex
<1>30. ASSUME PublishEnd(r) PROVE Keeps(r)
  <2>1. /\ pc[r] = "publishing" /\ pc'[r] = "done"
        /\ mem'[r] = mem[r] /\ finalizing'[r] = finalizing[r] /\ cancelReq'[r] = cancelReq[r]
        /\ snap'[r] = snap[r] /\ snapWork'[r] = snapWork[r] /\ detached'[r] = detached[r]
        /\ base'[r] = base[r] /\ UNCHANGED <<ticket, proc, drained>>
    BY <1>30, <1>b DEF PublishEnd
  <2> QED BY <1>a, <2>1 DEF Keeps, FlagOf, Over, Holds, HoldsOn, RunInv, InIndex
<1> QED BY <1>0, <1>1, <1>2, <1>3, <1>4, <1>5, <1>6, <1>7, <1>8, <1>9, <1>10, <1>11, <1>12,
           <1>13, <1>14, <1>15, <1>16, <1>17, <1>18, <1>19, <1>20, <1>21, <1>22, <1>23,
           <1>24, <1>25, <1>26, <1>27, <1>28, <1>29, <1>30 DEF Own, Request, Task, Graph,
           Finally

\* An interruption of the records in V, all of them active.
LEMMA InterruptKeeps ==
  ASSUME Inv, FlagInv, NEW V \in SUBSET Run, NEW a, Interrupt(V, a), \A v \in V : mem[v] \in Active,
         mem' = [v \in Run |-> IF v \in V THEN "interrupted" ELSE mem[v]],
         UNCHANGED <<local, ticket, proc, drained>>, NEW x \in Run, pc'[x] = pc[x]
  PROVE  Keeps(x)
<1>a. FlagOf(x) /\ RunInv(x)
  BY DEF FlagInv, Inv, AdmissionInv
<1>1. /\ UNCHANGED <<proc, drained>>
      /\ snap'[x] = snap[x] /\ snapWork'[x] = snapWork[x] /\ base'[x] = base[x] /\ ticket'[x] = ticket[x]
  BY DEF local
<1>2. mem'[x] = IF x \in V THEN "interrupted" ELSE mem[x]
  OBVIOUS
<1>3. /\ x \in V => /\ mem[x] \in Active /\ finalizing'[x] = TaskActive(x) /\ cancelReq'[x] = (cancelReq[x] \/ TaskActive(x))
                    /\ detached'[x] = (detached[x] \/ ~TaskActive(x))
      /\ x \notin V => /\ finalizing'[x] = finalizing[x] /\ cancelReq'[x] = cancelReq[x]
                       /\ detached'[x] = detached[x]
  BY InterruptAt DEF Inv
<1> USE DEF SnapPc, RevertPc, TitlePc, RequestPc, BodyPc, FinalPc, TaskPc, EarlyPc, GraphPc, Active
<1>4. CASE x \notin V
  BY <1>a, <1>1, <1>2, <1>3, <1>4 DEF Keeps, FlagOf, Over, Holds, HoldsOn, InIndex
<1>5. CASE x \in V
  <2>1. mem[x] \in Active /\ mem'[x] = "interrupted" /\ InIndex(x)
    BY <1>2, <1>3, <1>5 DEF InIndex
  <2>2. TaskActive(x) => finalizing'[x] /\ cancelReq'[x]
    BY <1>3, <1>5
  <2>3. (~detached'[x] => TaskActive(x)) /\ (detached[x] => detached'[x]) /\ (cancelReq[x] => cancelReq'[x])
    BY <1>3, <1>5
  <2>4. FlagOf(x)'
    BY <1>a, <1>1, <2>1, <2>2, <2>3 DEF FlagOf, TaskActive
  <2> QED BY <1>1, <2>1, <2>3, <2>4 DEF Keeps, Over, Holds, HoldsOn
<1> QED BY <1>4, <1>5

\* A cancellation, and the commit of a run with what it replaces.
LEMMA CancelFlags ==
  ASSUME Inv, FlagInv, NEW r \in Run, NEW a \in Action, Cancel(r, a), NEW x \in Run
  PROVE  Keeps(x)
<1>1. /\ Interrupt({r}, a) /\ mem[r] \in Active /\ UNCHANGED <<local, ticket, proc, drained>> /\ pc' = pc
      /\ mem' = [mem EXCEPT ![r] = "interrupted"]
  BY DEF Cancel, index
<1>2. mem' = [v \in Run |-> IF v \in {r} THEN "interrupted" ELSE mem[v]]
  BY <1>1 DEF Inv, TypeOK, RecordsOK
<1> QED BY <1>1, <1>2, InterruptKeeps

LEMMA CommitFlags ==
  ASSUME Inv, FlagInv, NEW r \in Run, CreateCommit(r), NEW x \in Run
  PROVE  Keeps(x)
<1> DEFINE V == Replaced(r)
<1>1. /\ Interrupt(V, strategy[r]) /\ UNCHANGED <<local, ticket, proc, drained>>
      /\ mem' = [v \in Run |-> IF v \in V THEN "interrupted" ELSE mem[v]]
      /\ pc' = [pc EXCEPT ![r] = "notifying"] /\ lock = r
  BY DEF CreateCommit, Goto, process
<1>2. V \in SUBSET Run /\ r \notin V /\ \A v \in V : mem[v] \in Active
  BY DEF Replaced, Inflight
<1> HIDE DEF V
<1>3. CASE x # r
  <2>1. pc'[x] = pc[x]
    BY <1>1, <1>3 DEF Inv, TypeOK, LocalOK
  <2> QED BY <1>1, <1>2, <2>1, InterruptKeeps
<1>4. CASE x = r
  <2>1. /\ mem'[x] = mem[x] /\ finalizing'[x] = finalizing[x] /\ cancelReq'[x] = cancelReq[x]
        /\ detached'[x] = detached[x] /\ ticket'[x] = ticket[x]
        /\ snap'[x] = snap[x] /\ snapWork'[x] = snapWork[x] /\ base'[x] = base[x]
    BY <1>1, <1>2, <1>4, InterruptAt DEF Inv, local
  <2>2. pc[x] = "creating" /\ pc'[x] = "notifying"
    BY <1>1, <1>4, RunAssumption DEF Inv, AdmissionInv, LockInv, TypeOK, LocalOK
  <2>3. FlagOf(x)
    BY DEF FlagInv
  <2>4. UNCHANGED <<proc, drained>>
    BY <1>1
  <2> QED BY <2>1, <2>2, <2>3, <2>4 DEF Keeps, FlagOf, Over, Holds, HoldsOn, InIndex,
             SnapPc, RevertPc, TitlePc,
          RequestPc, BodyPc, FinalPc, TaskPc, EarlyPc, GraphPc
<1> QED BY <1>3, <1>4

\* The drain, an exit and a restart.
LEMMA ProcessFlags ==
  ASSUME Inv, FlagInv, Shutdown \/ DrainEnds \/ Exit \/ Restart, NEW x \in Run
  PROVE  Keeps(x)
<1>a. FlagOf(x) /\ RunInv(x) /\ DrainInv
  BY DEF FlagInv, Inv, AdmissionInv
<1> USE DEF SnapPc, RevertPc, TitlePc, RequestPc, BodyPc, FinalPc, TaskPc, EarlyPc, GraphPc, Active
<1>1. CASE Shutdown
  <2>1. /\ proc = "up" /\ proc' = "draining" /\ pc[x] \notin RequestPc
        /\ cancelReq'[x] = (cancelReq[x] \/ x \in drained')
        /\ x \in drained' <=> mem[x] \in Active /\ TaskActive(x)
    BY <1>1 DEF Shutdown
  <2>2. /\ pc'[x] = pc[x] /\ mem'[x] = mem[x] /\ finalizing'[x] = finalizing[x] /\ detached'[x] = detached[x]
        /\ ticket'[x] = ticket[x]
        /\ snap'[x] = snap[x] /\ snapWork'[x] = snapWork[x] /\ base'[x] = base[x]
    BY <1>1 DEF Shutdown, index, local
  <2>3. drained = {}
    BY <1>a, <2>1 DEF DrainInv
  <2>4. FlagOf(x)'
    BY <1>a, <2>1, <2>2, <2>3 DEF FlagOf, RunInv, TaskActive
  <2> QED BY <1>1, <2>2, <2>4 DEF Keeps, Over, Holds, HoldsOn, InIndex
<1>2. CASE DrainEnds
  <2>1. /\ proc = "draining" /\ proc' # "up" /\ drained' = drained
        /\ mem'[x] = IF x \in Unsettled /\ mem[x] \in Active THEN "interrupted" ELSE mem[x]
    BY <1>2 DEF DrainEnds
  <2>2. /\ pc'[x] = pc[x] /\ cancelReq'[x] = cancelReq[x] /\ finalizing'[x] = finalizing[x]
        /\ detached'[x] = detached[x] /\ ticket'[x] = ticket[x]
        /\ snap'[x] = snap[x] /\ snapWork'[x] = snapWork[x] /\ base'[x] = base[x]
    BY <1>2 DEF DrainEnds, index, local
  <2>3. x \in Unsettled => x \in drained
    BY DEF Unsettled
  <2>4. FlagOf(x)'
    BY <1>a, <2>1, <2>2, <2>3 DEF FlagOf
  <2> QED BY <1>2, <2>1, <2>2, <2>4 DEF Keeps, Over, Holds, HoldsOn, InIndex
<1>3. CASE Exit
  <2>1. /\ proc' = "down" /\ mem'[x] = "absent" /\ ~finalizing'[x] /\ ~cancelReq'[x] /\ snap'[x] = "unset"
        /\ pc'[x] = (IF pc[x] = "idle" THEN "idle" ELSE "lost") /\ ticket'[x] = ticket[x]
    BY <1>3 DEF Exit
  <2>2. FlagOf(x)' /\ ~Holds(x)' /\ ~InIndex(x)'
    BY <2>1 DEF FlagOf, Holds, InIndex
  <2> QED BY <1>3, <2>1, <2>2 DEF Keeps, Over, HoldsOn
<1>4. CASE Restart
  <2>1. /\ proc = "down" /\ drained' = drained /\ pc'[x] = pc[x] /\ mem'[x] = mem[x]
        /\ finalizing'[x] = finalizing[x] /\ cancelReq'[x] = cancelReq[x]
        /\ detached'[x] = detached[x] /\ ticket'[x] = ticket[x]
        /\ snap'[x] = snap[x] /\ snapWork'[x] = snapWork[x] /\ base'[x] = base[x]
    BY <1>4 DEF Restart, records, index, local
  <2>2. pc[x] \in {"idle", "lost"}
    BY <1>a, <2>1 DEF RunInv
  <2> QED BY <1>4, <1>a, <2>1, <2>2 DEF Keeps, FlagOf, Over, Holds, HoldsOn, InIndex
<1> QED BY <1>1, <1>2, <1>3, <1>4

\* What any step does to any run.
LEMMA EveryStepKeeps ==
  ASSUME Inv, FlagInv, [Next]_vars, NEW x \in Run
  PROVE  Keeps(x)
<1>1. ASSUME Still(x) PROVE Keeps(x)
  <2>1. FlagOf(x)
    BY DEF FlagInv
  <2> QED BY <1>1, <2>1 DEF Still, Keeps, FlagOf, Over, Holds, HoldsOn, InIndex
<1>2. ASSUME UNCHANGED vars PROVE Keeps(x)
  BY <1>1, <1>2 DEF vars, Still, records, index, local, process
<1>3. ASSUME NEW w, PersistInterrupted(w) PROVE Keeps(x)
  BY <1>1, <1>3 DEF PersistInterrupted, Still, records, index, local, process
<1>4. ASSUME NEW r \in Run, Own(r), proc # "down" PROVE Keeps(x)
  <2>1. CASE x = r
    BY <1>4, <2>1, OwnKeeps
  <2>2. CASE x # r
    BY <1>1, <1>4, <2>2, OwnAlone DEF Inv
  <2> QED BY <2>1, <2>2
<1>5. ASSUME NEW r \in Run, Handler(r) /\ proc = "up" PROVE Keeps(x)
  BY <1>3, <1>4, <1>5, CommitFlags DEF Handler, Own
<1>6. ASSUME NEW r \in Run, Request(r) PROVE Keeps(x)
  <2>1. proc = "up"
    BY <1>6 DEF Request, CreateBegin, CreateConflict
  <2> QED BY <1>4, <1>6, <2>1 DEF Own
<1>7. ASSUME NEW r \in Run, (Task(r) \/ Graph(r)) /\ proc # "down" PROVE Keeps(x)
  BY <1>4, <1>7 DEF Own
<1> QED BY <1>2, <1>5, <1>6, <1>7, CancelFlags, ProcessFlags DEF Next, Step

\* A run is younger than all that were there before it, and who has been there
\* before whom never changes.
LEMMA EarlierKept ==
  ASSUME Inv, FlagInv, [Next]_vars, NEW p \in Run, NEW q \in Run, Earlier(p, q)'
  PROVE  \/ Earlier(p, q)
         \/ (\E s \in Strategy : CreateBegin(q, s)) /\ pc'[q] = "creating" /\ proc = "up" /\ proc' = "up"
<1>1. Keeps(p) /\ Keeps(q)
  BY EveryStepKeeps
<1>2. ticket \in [Run -> Nat] /\ clock \in Nat /\ \A r \in Run : ticket[r] <= clock
  BY DEF Inv, TypeOK, IndexOK, AdmissionInv, RunInv
<1>3. ASSUME NEW r \in Run, NEW s \in Strategy, CreateBegin(r, s)
      PROVE  /\ ticket' = [ticket EXCEPT ![r] = clock + 1] /\ proc = "up" /\ proc' = "up" /\ pc'[r] = "creating"
  BY <1>3 DEF CreateBegin, Goto, process, Inv, TypeOK, LocalOK
<1>4. CASE \E s \in Strategy : CreateBegin(p, s)
  BY <1>2, <1>3, <1>4 DEF Earlier
<1>5. CASE \E s \in Strategy : CreateBegin(q, s)
  BY <1>3, <1>5
<1>6. CASE ~(\E s \in Strategy : CreateBegin(p, s)) /\ ~(\E s \in Strategy : CreateBegin(q, s))
  BY <1>1, <1>6 DEF Keeps, Earlier
<1> QED BY <1>4, <1>5, <1>6

\* Nobody is admitted once the drain has begun, and who is drained is the
\* newest run of its thread.
LEMMA DrainStep == Inv /\ FlagInv /\ [Next]_vars => DrainInv'
<1> SUFFICES ASSUME Inv, FlagInv, [Next]_vars PROVE DrainInv'
  OBVIOUS
<1>a. DrainInv
  BY DEF FlagInv
<1>1. CASE UNCHANGED <<proc, drained>>
  <2>1. ASSUME NEW p \in Run, NEW q \in Run, p \in drained', Earlier(p, q)' PROVE detached'[p]
    <3>1. Earlier(p, q)
      BY <1>1, <1>a, <2>1, EarlierKept DEF DrainInv
    <3>2. detached[p] /\ proc' # "down"
      BY <1>1, <1>a, <2>1, <3>1 DEF DrainInv
    <3> QED BY <3>2, EveryStepKeeps DEF Keeps
  <2> QED BY <1>1, <1>a, <2>1 DEF DrainInv
<1>2. CASE Shutdown
  <2>1. /\ proc' = "draining" /\ lock = None /\ detached' = detached /\ UNCHANGED <<mem, ticket>>
        /\ drained' = {r \in Run : mem[r] \in Active /\ TaskActive(r)}
    BY <1>2 DEF Shutdown, index
  <2>2. ASSUME NEW p \in Run, NEW q \in Run, p \in drained', Earlier(p, q)' PROVE detached'[p]
    <3>1. Earlier(p, q) /\ PairInv(p, q) /\ lock # q
      BY <2>1, <2>2, RunAssumption DEF Earlier, InIndex, Inv, AdmissionInv
    <3> QED BY <2>1, <2>2, <3>1 DEF PairInv
  <2> QED BY <2>1, <2>2 DEF DrainInv
<1>3. CASE DrainEnds
  <2>1. proc' \in {"closed", "closedLate"} /\ drained' = drained /\ detached' = detached
    BY <1>3 DEF DrainEnds
  <2>2. ASSUME NEW p \in Run, NEW q \in Run, Earlier(p, q)' PROVE Earlier(p, q)
    BY <2>1, <2>2, EarlierKept
  <2> QED BY <1>a, <2>1, <2>2 DEF DrainInv
<1>4. CASE Exit
  BY <1>4 DEF Exit, DrainInv
<1>5. CASE Restart
  <2>1. proc = "down" /\ drained' = drained
    BY <1>5 DEF Restart
  <2> QED BY <1>a, <2>1 DEF DrainInv
<1>6. ASSUME NEW x \in Run PROVE UNCHANGED <<proc, drained>> \/ Shutdown \/ DrainEnds \/ Exit \/ Restart
  BY EveryStepKeeps DEF Keeps
<1>7. CASE Run = {}
  BY <1>7, TypeStep DEF Inv, TypeOK, ProcessOK, DrainInv
<1> QED BY <1>1, <1>2, <1>3, <1>4, <1>5, <1>6, <1>7

\* Two runs of the index never have the same ticket.
LEMMA TicketStep == Inv /\ FlagInv /\ [Next]_vars => TicketInv'
<1> SUFFICES ASSUME Inv, FlagInv, [Next]_vars, NEW p \in Run, NEW q \in Run, p # q,
                    InIndex(p)', InIndex(q)'
             PROVE  ticket'[p] # ticket'[q]
  BY DEF TicketInv
<1>1. Keeps(p) /\ Keeps(q) /\ TicketInv
  BY EveryStepKeeps DEF FlagInv
<1>2. ticket \in [Run -> Nat] /\ clock \in Nat /\ \A r \in Run : ticket[r] <= clock
  BY DEF Inv, TypeOK, IndexOK, AdmissionInv, RunInv
<1>3. ASSUME NEW r \in Run, NEW s \in Strategy, CreateBegin(r, s)
      PROVE  ticket' = [ticket EXCEPT ![r] = clock + 1]
  BY <1>3 DEF CreateBegin
<1>4. CASE \E s \in Strategy : CreateBegin(p, s)
  BY <1>2, <1>3, <1>4
<1>5. CASE \E s \in Strategy : CreateBegin(q, s)
  BY <1>2, <1>3, <1>5
<1>6. CASE ~(\E s \in Strategy : CreateBegin(p, s)) /\ ~(\E s \in Strategy : CreateBegin(q, s))
  BY <1>1, <1>6 DEF Keeps, TicketInv
<1> QED BY <1>4, <1>5, <1>6

\* The claims about single runs are inductive.
LEMMA FlagStep == Inv /\ FlagInv /\ [Next]_vars => FlagInv'
BY EveryStepKeeps, DrainStep, TicketStep DEF FlagInv, Keeps

\* An older run that is not in its cleanup has nothing more to write.
LEMMA OverNow ==
  ASSUME Inv, FlagInv, NEW p \in Run, NEW q \in Run, Earlier(p, q), ~detached[p],
         lock # q, ~finalizing[p]
  PROVE  Over(p) /\ mem[p] \notin Active
<1>1. FlagOf(p) /\ RunInv(p) /\ PairInv(p, q) /\ DrainInv
  BY DEF FlagInv, Inv, AdmissionInv
<1>2. mem[p] \notin Active /\ pc[p] \notin {"scheduled"} \cup BodyPc /\ p \notin drained
  BY <1>1 DEF PairInv, DrainInv
<1>3. pc[p] \notin RequestPc /\ pc[p] # "idle"
  BY <1>1, <1>2 DEF RunInv, Active, Earlier, InIndex
<1>4. pc[p] \notin {"savingAbort", "rollingBack"} /\ (pc[p] \in TaskPc \ {"publishing"} => mem[p] # "interrupted")
  BY <1>1, <1>2 DEF FlagOf
<1>5. pc[p] \notin TitlePc /\ (pc[p] = "closing" => mem[p] # "interrupted")
  BY <1>1, <1>4 DEF FlagOf, TitlePc, TaskPc, FinalPc
<1> QED BY <1>2, <1>3, <1>4, <1>5 DEF Over

\* A run takes its turn when it has found no older run in its cleanup.
LEMMA TurnsStep == Inv /\ FlagInv /\ TurnsInv /\ [Next]_vars => TurnsInv'
<1> SUFFICES ASSUME Inv, FlagInv, TurnsInv, [Next]_vars, NEW p \in Run, NEW q \in Run,
                    Earlier(p, q)', ~detached'[p], ~detached'[q], Holds(q)'
             PROVE  Over(p)'
  BY DEF TurnsInv, TurnsOf
<1>1. Keeps(p) /\ Keeps(q) /\ FlagInv' /\ Inv'
  BY EveryStepKeeps, FlagStep, InvStep
<1>2. proc' # "down"
  BY <1>1 DEF Inv, AdmissionInv, RunInv, Earlier, InIndex
<1>3. ~detached[p] /\ ~detached[q]
  BY <1>1, <1>2 DEF Keeps
<1>4. pc'[q] # "creating"
  BY <1>1 DEF FlagInv, FlagOf, Holds, SnapPc, RevertPc, GraphPc
<1>5. Earlier(p, q)
  BY <1>4, EarlierKept
<1>6. lock = q => pc[q] = "creating"
  BY RunAssumption DEF Inv, AdmissionInv, LockInv
<1>7. CASE Holds(q)
  <2>1. Over(p)
    BY <1>3, <1>5, <1>7 DEF TurnsInv, TurnsOf
  <2>2. lock # q
    BY <1>6, <1>7 DEF FlagInv, FlagOf, Holds, SnapPc, RevertPc, GraphPc
  <2>3. mem[p] \notin Active
    BY <1>3, <1>5, <2>2 DEF Inv, AdmissionInv, PairInv
  <2> QED BY <1>1, <2>1, <2>3 DEF Keeps
<1>8. CASE PriorSettled(q) \/ TitleRead(q)
  <2>1. ~finalizing[p] /\ lock # q
    BY <1>5, <1>8, RunAssumption DEF PriorSettled, TitleRead, PriorFinalizing
  <2>2. Over(p) /\ mem[p] \notin Active
    BY <1>3, <1>5, <2>1, OverNow
  <2> QED BY <1>1, <2>2 DEF Keeps
<1> QED BY <1>1, <1>7, <1>8 DEF Keeps

\* The steps that write the head of a thread.
Writes(q) == (StreamChunk(q) \/ Rollback(q) \/ TitleWrite(q)) /\ proc # "down"

\* Every other step leaves the heads alone.
LEMMA HeadStep ==
  ASSUME [Next]_vars
  PROVE  ckpt' = ckpt \/ \E q \in Run : Writes(q)
<1> USE DEF threads
<1>1. ASSUME NEW r \in Run, Task(r) \/ Graph(r), proc # "down"
      PROVE  ckpt' = ckpt \/ Writes(r)
  BY <1>1 DEF Task, Graph, Finally, Writes, NeverStarts, Starts, PriorSettled, MarkRunning,
     SaveRunning,
     Snapshot, FinalStatus, FinalAborted, MarkError, DeliverCancel, BeginFinalizing, MarkAborted, SaveFinal,
     Complete, TitleRead, UpdateThread, EndFinalizing, PublishEnd, StreamEnds, GoalTurn, StreamRaises
<1>2. ASSUME NEW r \in Run, Handler(r) PROVE ckpt' = ckpt
  BY <1>2 DEF Handler, CreateCommit, CreateFails, PersistInterrupted, Notified,
     PrepareThread, LaunchFails, Attach
<1>3. ASSUME NEW r \in Run, Request(r) \/ \E a \in Action : Cancel(r, a) PROVE ckpt' = ckpt
  BY <1>3 DEF Request, CreateBegin, CreateConflict, Cancel
<1>4. Shutdown \/ DrainEnds \/ Exit \/ Restart \/ UNCHANGED vars => ckpt' = ckpt
  BY DEF Shutdown, DrainEnds, Exit, Restart, vars
<1> QED BY <1>1, <1>2, <1>3, <1>4 DEF Next, Step

\* A run that may still go back to its snapshot, and one about to write a title.
Backing(r) == snap[r] # "unset" /\ pc[r] \in RevertPc
Titling(r) == pc[r] = "titleWrite"

\* Two runs of a thread never both hold its head.
LEMMA OneHolder ==
  ASSUME Inv, FlagInv, TurnsInv, NEW q \in Run, NEW r \in Run, q # r, ThreadOf[q] = ThreadOf[r],
         Clean(ThreadOf[r]), Holds(q), ~Over(q), Holds(r), ~Over(r)
  PROVE  FALSE
<1>1. ASSUME NEW x \in Run, Holds(x) PROVE InIndex(x)
  BY <1>1 DEF Inv, AdmissionInv, RunInv, FlagInv, FlagOf, Holds, SnapPc, RevertPc, GraphPc,
     TaskPc, BodyPc, FinalPc
<1>2. ticket[q] # ticket[r] /\ ticket[q] \in Nat /\ ticket[r] \in Nat
  BY <1>1 DEF FlagInv, TicketInv, Inv, TypeOK, IndexOK
<1>3. Earlier(q, r) \/ Earlier(r, q)
  BY <1>1, <1>2 DEF Earlier
<1> QED BY <1>3 DEF TurnsInv, TurnsOf, Clean

\* Who may go back to a snapshot or write a head holds it and is not over.
LEMMA HolderWrites ==
  ASSUME NEW r \in Run, Backing(r) \/ Titling(r) \/ pc[r] = "streaming"
  PROVE  Holds(r) /\ ~Over(r)
BY DEF Backing, Titling, Holds, Over, RevertPc, TitlePc, BodyPc, GraphPc

\* A write of another run takes nothing new into the head while r holds it.
LEMMA OthersTakeOnly ==
  ASSUME Inv, FlagInv, TurnsInv, NEW q \in Run, NEW r \in Run, q # r, Writes(q), Clean(ThreadOf[r]),
         Backing(r) \/ Titling(r)
  PROVE  ckpt'[ThreadOf[r]] \subseteq ckpt[ThreadOf[r]]
<1>0. /\ ckpt \in [Thread -> SUBSET Work] /\ ThreadOf[q] \in Thread /\ ThreadOf[r] \in Thread
      /\ snap[q] \in {"unset", "none", "taken", "failed"} /\ FlagOf(q)
  BY RunAssumption DEF Inv, TypeOK, ThreadsOK, LocalOK, FlagInv
<1>1. CASE ThreadOf[q] # ThreadOf[r]
  BY <1>0, <1>1 DEF Writes, StreamChunk, Rollback, TitleWrite
<1>2. CASE ThreadOf[q] = ThreadOf[r] /\ Holds(q) /\ ~Over(q)
  BY <1>2, HolderWrites, OneHolder
<1>3. CASE ThreadOf[q] = ThreadOf[r] /\ ~(Holds(q) /\ ~Over(q))
  <2>1. ~Titling(q) /\ pc[q] # "streaming" /\ ~Backing(q)
    BY <1>3, HolderWrites
  <2>2. Rollback(q) /\ snap[q] = "unset"
    BY <2>1 DEF Writes, StreamChunk, TitleWrite, Rollback, Titling, Backing, RevertPc
  <2>3. RestoredHead(q) = {}
    BY <2>2 DEF RestoredHead
  <2> QED BY <1>0, <1>3, <2>2, <2>3 DEF Rollback
<1> QED BY <1>1, <1>2, <1>3

\* The head of a thread, the work of r aside, never exceeds what r holds of it.
LEMMA HeldStep == Inv /\ FlagInv /\ TurnsInv /\ HeldInv /\ [Next]_vars => HeldInv'
<1> SUFFICES ASSUME Inv, FlagInv, TurnsInv, HeldInv, [Next]_vars, NEW r \in Run, Clean(ThreadOf[r])'
             PROVE  /\ Backing(r)' => /\ ckpt'[ThreadOf[r]] \ {r} \subseteq snapWork'[r]
                                      /\ base'[r] \ {r} \subseteq snapWork'[r]
                    /\ Titling(r)' => ckpt'[ThreadOf[r]] \ {r} \subseteq base'[r]
  BY DEF HeldInv, HeldOf, Backing, Titling
<1> DEFINE t == ThreadOf[r]
<1>1. Keeps(r) /\ FlagInv' /\ Inv'
  BY EveryStepKeeps, FlagStep, InvStep
<1>2. CASE proc' = "down"
  BY <1>1, <1>2 DEF Inv, AdmissionInv, RunInv, Backing, Titling, RevertPc
<1>3. CASE proc' # "down"
  <2>1. Clean(t)
    <3>1. ASSUME NEW q \in Run, ThreadOf[q] = t PROVE ~detached[q]
      <4>1. Keeps(q) /\ ~detached'[q]
        BY <3>1, EveryStepKeeps DEF Clean
      <4> QED BY <1>3, <4>1 DEF Keeps
    <3> QED BY <3>1 DEF Clean
  <2>2. /\ Backing(r) => ckpt[t] \ {r} \subseteq snapWork[r] /\ base[r] \ {r} \subseteq snapWork[r]
        /\ Titling(r) => ckpt[t] \ {r} \subseteq base[r]
    BY <2>1 DEF HeldInv, HeldOf, Backing, Titling
  <2>3. /\ ckpt \in [Thread -> SUBSET Work] /\ t \in Thread /\ pc \in [Run -> Pc]
        /\ snapWork \in [Run -> SUBSET Work] /\ base \in [Run -> SUBSET Work]
        /\ snap \in [Run -> {"unset", "none", "taken", "failed"}]
    BY RunAssumption DEF Inv, TypeOK, ThreadsOK, LocalOK, Pc
  <2> HIDE DEF t
  <2>4. CASE Snapshot(r)
    <3>1. ckpt' = ckpt /\ snapWork'[r] = ckpt[t] /\ base'[r] = ckpt[t] /\ pc'[r] = "streaming"
      BY <2>3, <2>4 DEF Snapshot, Goto, threads, t
    <3> QED BY <3>1 DEF Backing, Titling, t
  <2>5. CASE GoalTurn(r)
    <3>1. /\ ckpt' = ckpt /\ UNCHANGED <<pc, snap, snapWork>> /\ base'[r] = ckpt[t]
          /\ pc[r] = "streaming"
      BY <2>3, <2>5 DEF GoalTurn, threads, t
    <3> QED BY <2>2, <3>1 DEF Backing, Titling, t
  <2>6. CASE TitleRead(r)
    <3>1. /\ ckpt' = ckpt /\ pc'[r] \in {"threadStatus", "titleWrite"}
          /\ pc'[r] = "titleWrite" => base'[r] = ckpt[t]
      BY <2>3, <2>6 DEF TitleRead, Goto, threads, t
    <3> QED BY <3>1 DEF Backing, Titling, RevertPc, t
  <2>7. CASE HoldsOn(r) /\ ckpt' = ckpt
    BY <2>2, <2>7 DEF HoldsOn, Backing, Titling, t
  <2>8. ASSUME HoldsOn(r), NEW q \in Run, Writes(q), q # r
        PROVE  /\ Backing(r)' => ckpt'[t] \ {r} \subseteq snapWork'[r] /\ base'[r] \ {r} \subseteq snapWork'[r]
               /\ Titling(r)' => ckpt'[t] \ {r} \subseteq base'[r]
    <3>1. /\ Backing(r)' => Backing(r) /\ snapWork'[r] = snapWork[r] /\ base'[r] = base[r]
          /\ Titling(r)' => Titling(r) /\ base'[r] = base[r]
      BY <2>8 DEF HoldsOn, Backing, Titling
    <3>2. Backing(r) \/ Titling(r) => ckpt'[t] \subseteq ckpt[t]
      BY <2>1, <2>8, OthersTakeOnly DEF t
    <3> QED BY <2>2, <3>1, <3>2
  <2>9. CASE HoldsOn(r) /\ Writes(r)
    <3>1. CASE StreamChunk(r)
      <4>1. ckpt'[t] = base[r] \cup {r} /\ pc[r] = "streaming" /\ pc'[r] # "titleWrite"
        BY <2>3, <3>1 DEF StreamChunk, Goto, t
      <4>2. Backing(r)' => Backing(r) /\ snapWork'[r] = snapWork[r] /\ base'[r] = base[r]
        BY <2>9 DEF HoldsOn, Backing
      <4> QED BY <2>2, <4>1, <4>2 DEF Titling, t
    <3>2. CASE Rollback(r) \/ TitleWrite(r)
      <4>1. pc'[r] \in {"closing", "threadStatus"}
        BY <2>3, <3>2 DEF Rollback, TitleWrite, Goto
      <4> QED BY <4>1 DEF Backing, Titling, RevertPc
    <3> QED BY <2>9, <3>1, <3>2 DEF Writes
  <2> QED BY <1>1, <2>4, <2>5, <2>6, <2>7, <2>8, <2>9, HeadStep DEF Keeps, t
<1> QED BY <1>2, <1>3

\* All that the cleanup relies on.
CleanupInv == Inv /\ FlagInv /\ TurnsInv /\ HeldInv

\* Initially nobody holds anything.
LEMMA CleanupInit == Init => CleanupInv
<1> SUFFICES ASSUME Init PROVE FlagInv /\ TurnsInv /\ HeldInv
  BY InvInit DEF CleanupInv
<1>1. ASSUME NEW r \in Run
      PROVE  pc[r] = "idle" /\ mem[r] = "absent" /\ snap[r] = "unset" /\ drained = {} /\ proc = "up"
  BY <1>1 DEF Init
<1>2. FlagInv
  <2>1. ASSUME NEW r \in Run PROVE FlagOf(r)
    BY <1>1 DEF FlagOf, TitlePc, TaskPc, BodyPc, FinalPc, EarlyPc, GraphPc
  <2>2. DrainInv
    BY DEF Init, DrainInv
  <2> QED BY <1>1, <2>1, <2>2 DEF FlagInv, TicketInv, InIndex
<1>3. TurnsInv
  BY <1>1 DEF TurnsInv, TurnsOf, Earlier, InIndex
<1>4. HeldInv
  BY <1>1 DEF HeldInv, HeldOf
<1> QED BY <1>2, <1>3, <1>4

\* What a rollback or a title write leaves.
LEMMA CleanupStep ==
  ASSUME CleanupInv, [Next]_vars, NEW r \in Run,
         \/ pc[r] = "rollingBack" /\ pc'[r] = "closing" /\ snap[r] # "unset"
         \/ pc[r] = "titleWrite" /\ pc'[r] = "threadStatus",
         Clean(ThreadOf[r])
  PROVE  ckpt[ThreadOf[r]] \ {r} \subseteq ckpt'[ThreadOf[r]]
<1> DEFINE t == ThreadOf[r]
<1>0. Keeps(r) /\ HeldOf(r) /\ FlagOf(r)
  BY EveryStepKeeps DEF CleanupInv, HeldInv, FlagInv
<1>1. /\ ckpt \in [Thread -> SUBSET Work] /\ t \in Thread
      /\ snap[r] \in {"unset", "none", "taken", "failed"}
  BY RunAssumption DEF CleanupInv, Inv, TypeOK, ThreadsOK, LocalOK
<1> HIDE DEF t
<1>2. CASE pc[r] = "rollingBack" /\ pc'[r] = "closing" /\ snap[r] # "unset"
  <2>1. Rollback(r) /\ ckpt[t] \ {r} \subseteq snapWork[r]
    BY <1>0, <1>2 DEF Keeps, HeldOf, RevertPc, t
  <2>2. ckpt'[t] = ckpt[t] \/ ckpt'[t] = RestoredHead(r)
    BY <1>1, <2>1 DEF Rollback, t
  <2>3. ckpt[t] \ {r} \subseteq RestoredHead(r)
    <3>1. snap[r] = "none" => snapWork[r] = {}
      BY <1>0 DEF FlagOf
    <3>2. \/ RestoredHead(r) = ckpt[t]
          \/ RestoredHead(r) = snapWork[r]
      BY <1>1, <1>2, <3>1 DEF RestoredHead, t
    <3> QED BY <2>1, <3>2
  <2> QED BY <2>2, <2>3 DEF t
<1>3. CASE pc[r] = "titleWrite" /\ pc'[r] = "threadStatus"
  <2>1. TitleWrite(r) /\ ckpt[t] \ {r} \subseteq base[r]
    BY <1>0, <1>3 DEF Keeps, HeldOf, t
  <2>2. ckpt'[t] = base[r] \/ ckpt'[t] = ckpt[t]
    BY <1>1, <2>1 DEF TitleWrite, t
  <2> QED BY <2>1, <2>2 DEF t
<1> QED BY <1>2, <1>3

\* A rollback with a captured snapshot and a title write take no work of
\* another run from the head of their thread.
THEOREM CleanupSafety == Spec => CleanupKeepsOthersWork
<1>1. CleanupInv /\ [Next]_vars => CleanupInv'
  BY InvStep, FlagStep, TurnsStep, HeldStep DEF CleanupInv
<1>2. CleanupInv /\ [Next]_vars =>
        [\A r \in Run :
          LET t == ThreadOf[r] IN
          /\ \/ pc[r] = "rollingBack" /\ pc'[r] = "closing" /\ snap[r] # "unset"
             \/ pc[r] = "titleWrite" /\ pc'[r] = "threadStatus"
          /\ \A q \in Run : ThreadOf[q] = t => ~detached[q]
          => ckpt[t] \ {r} \subseteq ckpt'[t]]_vars
  BY CleanupStep DEF Clean
<1> QED BY CleanupInit, <1>1, <1>2, PTL DEF Spec, CleanupKeepsOthersWork
=============================================================================
