------------------------- MODULE MemoryUpdateProofs -------------------------
(***************************************************************************)
(* For every number of conversations, threads and calls.                   *)
(*                                                                         *)
(* What FileMemoryStorage promises its clients: a cached memory with the   *)
(* file's mtime is the file's, and an edit rests on what the file says -   *)
(* unless another write came between, or an access to the file failed.     *)
(*                                                                         *)
(* What the queue promises the user: what was said last and what was       *)
(* corrected is kept until the model has it, in the order it was said.     *)
(***************************************************************************)
EXTENDS MemoryUpdate, SequenceTheorems, TLAPS

Step == Editing \cup {"none", "stat", "restat", "store", "reload"}

StorageType ==
    /\ file \in [data : Nat, mtime : Nat]
    /\ cache \in [data : Nat, mtime : Nat]
    /\ held \in [Client -> Nat] /\ base \in [Client -> Nat] /\ seen \in [Client -> Nat]
    /\ step \in [Client -> Step]
    /\ edits \in Nat

\* The mtimes that the clients and the cache know are of the past.
Past ==
    /\ file.mtime > 0
    /\ cache.mtime <= file.mtime
    /\ \A c \in Client : seen[c] <= file.mtime

\* What client c is about to cache.
ToCache(c) ==
    c \notin misread =>
      /\ step[c] = "fill" /\ seen[c] = file.mtime => held[c] = file.data
      /\ step[c] = "restat" /\ ~spoiled => held[c] = file.data
      /\ step[c] = "store" /\ ~spoiled /\ seen[c] = file.mtime => held[c] = file.data

\* What client c edits.
ToEdit(c) ==
    ~spoiled /\ c \notin crossed \cup misread /\ (c = Api => op \notin {"clear", "import"}) =>
      /\ step[c] = "look" => seen[c] = file.mtime
      /\ step[c] \in {"fill", "loaded", "invoke", "replace"} => base[c] = file.data

StorageInv ==
    /\ StorageType
    /\ Past
    /\ CacheCurrent
    /\ \A c \in Client : ToCache(c) /\ ToEdit(c)

USE DEF Editing, Step

LEMMA InitStorage == Init => StorageInv
BY DEF Init, NoCache, Empty, None, StorageInv, StorageType, Past, CacheCurrent, ToCache, ToEdit, Client

\* A step that does not touch the storage.
LEMMA QueueStep ==
  ASSUME StorageInv, UNCHANGED <<file, cache, clientVars, crossed, spoiled, misread, edits>>
  PROVE  StorageInv'
BY DEF StorageInv, StorageType, Past, CacheCurrent, ToCache, ToEdit, clientVars

LEMMA StatStep ==
  ASSUME StorageInv, NEW c \in Client, Stat(c)
  PROVE  StorageInv'
<1> Api \in Client
  BY DEF Client
<1> Cache \notin Client
  BY MemoryAssumption DEF Client, Api, Cache
<1> USE DEF StorageInv, StorageType, Past, Stat, Goto, None, queueVars
<1>1. StorageType'
  OBVIOUS
<1>2. Past'
  BY <1>1
<1>3. CacheCurrent'
  BY <1>1 DEF CacheCurrent, ToCache
<1>4. ASSUME NEW d \in Client PROVE ToCache(d)'
  BY <1>1 DEF ToCache
<1>5. ASSUME NEW d \in Client PROVE ToEdit(d)'
  BY <1>1 DEF ToEdit, CacheCurrent
<1> QED BY <1>1, <1>2, <1>3, <1>4, <1>5

LEMMA LookStep ==
  ASSUME StorageInv, NEW c \in Client, Look(c)
  PROVE  StorageInv'
<1> Api \in Client
  BY DEF Client
<1> Cache \notin Client
  BY MemoryAssumption DEF Client, Api, Cache
<1> USE DEF StorageInv, StorageType, Past, Look, Loaded, Goto, used
<1>1. StorageType'
  OBVIOUS
<1>2. Past'
  BY <1>1
<1>3. CacheCurrent'
  BY <1>1 DEF CacheCurrent, ToCache
<1>4. ASSUME NEW d \in Client PROVE ToCache(d)'
  BY <1>1 DEF ToCache
<1>5. ASSUME NEW d \in Client PROVE ToEdit(d)'
  BY <1>1 DEF ToEdit, CacheCurrent
<1> QED BY <1>1, <1>2, <1>3, <1>4, <1>5

LEMMA ReadStep ==
  ASSUME StorageInv, NEW c \in Client, Read(c)
  PROVE  StorageInv'
<1> Api \in Client
  BY DEF Client
<1> Cache \notin Client
  BY MemoryAssumption DEF Client, Api, Cache
<1> USE DEF StorageInv, StorageType, Past, Read, ReadFile, Empty, Loaded, Goto
<1>1. StorageType'
  OBVIOUS
<1>2. Past'
  BY <1>1
<1>3. CacheCurrent'
  BY <1>1 DEF CacheCurrent, ToCache
<1>4. ASSUME NEW d \in Client PROVE ToCache(d)'
  BY <1>1 DEF ToCache
<1>5. ASSUME NEW d \in Client PROVE ToEdit(d)'
  BY <1>1 DEF ToEdit, CacheCurrent
<1> QED BY <1>1, <1>2, <1>3, <1>4, <1>5

LEMMA FillStep ==
  ASSUME StorageInv, NEW c \in Client, Fill(c)
  PROVE  StorageInv'
<1> Api \in Client
  BY DEF Client
<1> Cache \notin Client
  BY MemoryAssumption DEF Client, Api, Cache
<1> USE DEF StorageInv, StorageType, Past, Fill, Keep, MtimeSeen, Goto, used
<1>1. StorageType'
  OBVIOUS
<1>2. Past'
  BY <1>1
<1>3. CacheCurrent'
  BY <1>1 DEF CacheCurrent, ToCache
<1>4. ASSUME NEW d \in Client PROVE ToCache(d)'
  BY <1>1 DEF ToCache
<1>5. ASSUME NEW d \in Client PROVE ToEdit(d)'
  BY <1>1 DEF ToEdit, CacheCurrent
<1> QED BY <1>1, <1>2, <1>3, <1>4, <1>5

LEMMA ReplaceStep ==
  ASSUME StorageInv, NEW c \in Client, Replace(c)
  PROVE  StorageInv'
<1> Api \in Client
  BY DEF Client
<1> Cache \notin Client
  BY MemoryAssumption DEF Client, Api, Cache
<1> USE DEF StorageInv, StorageType, Past, Replace, Write, Goto, used
<1>1. StorageType'
  OBVIOUS
<1>2. Past'
  BY <1>1
<1>3. CacheCurrent'
  BY <1>1 DEF CacheCurrent, ToCache
<1>4. ASSUME NEW d \in Client PROVE ToCache(d)'
  <2>1. ASSUME d \in Client \ {c}, step[d] = "restat" PROVE spoiled'
    BY <2>1
  <2>2. file'.mtime = file.mtime + 1 /\ seen' = seen
    BY DEF clientVars
  <2>3. seen'[d] # file'.mtime
    BY <2>2
  <2> QED BY <1>1, <2>1, <2>3 DEF ToCache, clientVars
<1>5. ASSUME NEW d \in Client PROVE ToEdit(d)'
  BY <1>1 DEF ToEdit, CacheCurrent
<1> QED BY <1>1, <1>2, <1>3, <1>4, <1>5

LEMMA ReplaceFailsStep ==
  ASSUME StorageInv, NEW c \in Client, ReplaceFails(c)
  PROVE  StorageInv'
<1> Api \in Client
  BY DEF Client
<1> Cache \notin Client
  BY MemoryAssumption DEF Client, Api, Cache
<1> USE DEF StorageInv, StorageType, Past, ReplaceFails, Done, Goto, used
<1>1. StorageType'
  OBVIOUS
<1>2. Past'
  BY <1>1
<1>3. CacheCurrent'
  BY <1>1 DEF CacheCurrent, ToCache
<1>4. ASSUME NEW d \in Client PROVE ToCache(d)'
  BY <1>1 DEF ToCache
<1>5. ASSUME NEW d \in Client PROVE ToEdit(d)'
  BY <1>1 DEF ToEdit, CacheCurrent
<1> QED BY <1>1, <1>2, <1>3, <1>4, <1>5

LEMMA RestatStep ==
  ASSUME StorageInv, NEW c \in Client, Restat(c)
  PROVE  StorageInv'
<1> Api \in Client
  BY DEF Client
<1> Cache \notin Client
  BY MemoryAssumption DEF Client, Api, Cache
<1> USE DEF StorageInv, StorageType, Past, Restat, Goto, None
<1>1. StorageType'
  OBVIOUS
<1>2. Past'
  BY <1>1
<1>3. CacheCurrent'
  BY <1>1 DEF CacheCurrent, ToCache
<1>4. ASSUME NEW d \in Client PROVE ToCache(d)'
  BY <1>1 DEF ToCache
<1>5. ASSUME NEW d \in Client PROVE ToEdit(d)'
  BY <1>1 DEF ToEdit, CacheCurrent
<1> QED BY <1>1, <1>2, <1>3, <1>4, <1>5

LEMMA StoreStep ==
  ASSUME StorageInv, NEW c \in Client, Store(c)
  PROVE  StorageInv'
<1> Api \in Client
  BY DEF Client
<1> Cache \notin Client
  BY MemoryAssumption DEF Client, Api, Cache
<1> USE DEF StorageInv, StorageType, Past, Store, Keep, Done, Goto, used
<1>0. CASE c = Api /\ op = "import"
  BY <1>0 DEF CacheCurrent, ToCache, ToEdit, StorageInv
<1>9. CASE ~(c = Api /\ op = "import")
  <2>1. op' = op /\ Done(c)
    BY <1>9
  <2>2. StorageType' /\ Past'
    BY <2>1
  <2>3. CacheCurrent'
    BY <2>2 DEF CacheCurrent, ToCache
  <2>4. ASSUME NEW d \in Client PROVE ToCache(d)' /\ ToEdit(d)'
    BY <2>1, <2>2 DEF ToCache, ToEdit
  <2> QED BY <2>2, <2>3, <2>4
<1> QED BY <1>0, <1>9

LEMMA PrepareStep ==
  ASSUME StorageInv, NEW c \in Client, Prepare(c)
  PROVE  StorageInv'
<1> Api \in Client
  BY DEF Client
<1> Cache \notin Client
  BY MemoryAssumption DEF Client, Api, Cache
<1> USE DEF StorageInv, StorageType, Past, Prepare, Goto, used
<1>1. StorageType'
  OBVIOUS
<1>2. Past'
  BY <1>1
<1>3. CacheCurrent'
  BY <1>1 DEF CacheCurrent, ToCache
<1>4. ASSUME NEW d \in Client PROVE ToCache(d)'
  BY <1>1 DEF ToCache
<1>5. ASSUME NEW d \in Client PROVE ToEdit(d)'
  BY <1>1 DEF ToEdit, CacheCurrent
<1> QED BY <1>1, <1>2, <1>3, <1>4, <1>5

LEMMA InvokeStep ==
  ASSUME StorageInv, NEW c \in Client, Invoke(c)
  PROVE  StorageInv'
<1> Api \in Client
  BY DEF Client
<1> Cache \notin Client
  BY MemoryAssumption DEF Client, Api, Cache
<1> USE DEF StorageInv, StorageType, Past, Invoke, Goto, used
<1>1. StorageType'
  OBVIOUS
<1>2. Past'
  BY <1>1
<1>3. CacheCurrent'
  BY <1>1 DEF CacheCurrent, ToCache
<1>4. ASSUME NEW d \in Client PROVE ToCache(d)'
  BY <1>1 DEF ToCache
<1>5. ASSUME NEW d \in Client PROVE ToEdit(d)'
  BY <1>1 DEF ToEdit, CacheCurrent
<1> QED BY <1>1, <1>2, <1>3, <1>4, <1>5

LEMMA FinalizeStep ==
  ASSUME StorageInv, NEW c \in Client, Finalize(c)
  PROVE  StorageInv'
<1> Api \in Client
  BY DEF Client
<1>0. (EditCopy(c) /\ UNCHANGED <<base, seen>>) \/ (Done(c) /\ UNCHANGED <<cache, used>>)
  BY DEF Finalize
<1> USE DEF StorageInv, StorageType, Past, Finalize, EditCopy, Edit, Done, Goto, used
<1>1. StorageType'
  <2>1. CASE EditCopy(c) /\ UNCHANGED <<base, seen>>
    BY <2>1
  <2>2. CASE Done(c) /\ UNCHANGED <<cache, used>>
    BY <2>2
  <2> QED BY <1>0, <2>1, <2>2
<1>2. Past'
  <2>1. CASE EditCopy(c) /\ UNCHANGED <<base, seen>>
    BY <1>1, <2>1
  <2>2. CASE Done(c) /\ UNCHANGED <<cache, used>>
    BY <1>1, <2>2
  <2> QED BY <1>0, <2>1, <2>2
<1>3. CacheCurrent'
  BY <1>1 DEF CacheCurrent, ToCache
<1>4. ASSUME NEW d \in Client PROVE ToCache(d)'
  BY <1>1 DEF ToCache
<1>5. ASSUME NEW d \in Client PROVE ToEdit(d)'
  <2>1. ToEdit(d) /\ UNCHANGED <<file, spoiled, crossed, op>>
    OBVIOUS
  <2>2. CASE EditCopy(c) /\ UNCHANGED <<base, seen>>
    <3>1. UNCHANGED <<base, seen>> /\ step'[d] = IF d = c THEN "replace" ELSE step[d]
      BY <2>2
    <3>2. step[c] = "invoke"
      OBVIOUS
    <3> QED BY <2>1, <3>1, <3>2 DEF ToEdit
  <2>3. CASE Done(c) /\ UNCHANGED <<cache, used>>
    <3>1. CASE d = c
      BY <2>3, <3>1 DEF ToEdit
    <3>2. CASE d # c
      <4>1. step'[d] = step[d] /\ seen'[d] = seen[d] /\ base'[d] = base[d]
        BY <2>3, <3>2
      <4> QED BY <2>1, <4>1 DEF ToEdit
    <3> QED BY <3>1, <3>2
  <2> QED BY <1>0, <2>2, <2>3
<1> QED BY <1>1, <1>2, <1>3, <1>4, <1>5

LEMMA ReloadStep ==
  ASSUME StorageInv, Reload
  PROVE  StorageInv'
<1> Api \in Client
  BY DEF Client
<1> Cache \notin Client
  BY MemoryAssumption DEF Client, Api, Cache
<1> USE DEF StorageInv, StorageType, Past, Reload, ReadFile, Empty, Loaded, Goto
<1>1. StorageType'
  OBVIOUS
<1>2. Past'
  BY <1>1
<1>3. CacheCurrent'
  BY <1>1 DEF CacheCurrent, ToCache
<1>4. ASSUME NEW d \in Client PROVE ToCache(d)'
  BY <1>1 DEF ToCache
<1>5. ASSUME NEW d \in Client PROVE ToEdit(d)'
  BY <1>1 DEF ToEdit, CacheCurrent
<1> QED BY <1>1, <1>2, <1>3, <1>4, <1>5

LEMMA RespondStep ==
  ASSUME StorageInv, Respond
  PROVE  StorageInv'
<1> Api \in Client
  BY DEF Client
<1> Cache \notin Client
  BY MemoryAssumption DEF Client, Api, Cache
<1> USE DEF StorageInv, StorageType, Past, Respond, EditCopy, Edit, Done, Goto, used
<1>1. StorageType'
  OBVIOUS
<1>2. Past'
  BY <1>1
<1>3. CacheCurrent'
  BY <1>1 DEF CacheCurrent, ToCache
<1>4. ASSUME NEW d \in Client PROVE ToCache(d)'
  BY <1>1 DEF ToCache
<1>5. ASSUME NEW d \in Client PROVE ToEdit(d)'
  BY <1>1 DEF ToEdit, CacheCurrent
<1> QED BY <1>1, <1>2, <1>3, <1>4, <1>5

LEMMA SaveElsewhereStep ==
  ASSUME StorageInv, SaveElsewhere
  PROVE  StorageInv'
<1> Api \in Client
  BY DEF Client
<1> Cache \notin Client
  BY MemoryAssumption DEF Client, Api, Cache
<1> USE DEF StorageInv, StorageType, Past, SaveElsewhere, MayCall, Write, clientVars
<1>1. StorageType'
  OBVIOUS
<1>2. Past'
  BY <1>1
<1>3. CacheCurrent'
  BY <1>1 DEF CacheCurrent, ToCache
<1>4. ASSUME NEW d \in Client PROVE ToCache(d)'
  <2>1. ASSUME d \in Client, step[d] = "restat" PROVE spoiled'
    BY <2>1
  <2>2. file'.mtime = file.mtime + 1 /\ seen' = seen
    BY DEF clientVars
  <2>3. seen'[d] # file'.mtime
    BY <2>2
  <2> QED BY <1>1, <2>1, <2>3 DEF ToCache, clientVars
<1>5. ASSUME NEW d \in Client PROVE ToEdit(d)'
  BY <1>1 DEF ToEdit, CacheCurrent
<1> QED BY <1>1, <1>2, <1>3, <1>4, <1>5

LEMMA RequestStep ==
  ASSUME StorageInv, NEW o \in {"get", "reload", "clear", "import", "fact"}, Request(o)
  PROVE  StorageInv'
<1> Api \in Client
  BY DEF Client
<1> Cache \notin Client
  BY MemoryAssumption DEF Client, Api, Cache
<1> USE DEF StorageInv, StorageType, Past, Request, MayCall, Goto
<1>1. StorageType'
  OBVIOUS
<1>2. Past'
  BY <1>1
<1>3. CacheCurrent'
  BY <1>1 DEF CacheCurrent, ToCache
<1>4. ASSUME NEW d \in Client PROVE ToCache(d)'
  BY <1>1 DEF ToCache
<1>5. ASSUME NEW d \in Client PROVE ToEdit(d)'
  BY <1>1 DEF ToEdit, CacheCurrent
<1> QED BY <1>1, <1>2, <1>3, <1>4, <1>5


LEMMA NextStorage == StorageInv /\ [Next]_vars => StorageInv'
<1> SUFFICES ASSUME StorageInv, [Next]_vars PROVE StorageInv'
  OBVIOUS
<1> Api \in Client
  BY DEF Client
<1>1. ASSUME NEW v \in Conversation, NEW b \in BOOLEAN, Add(v, b) PROVE StorageInv'
  BY <1>1, QueueStep DEF Add, MayCall
<1>2. CASE Flush \/ FlushNowait
  BY <1>2, QueueStep DEF Flush, FlushNowait
<1>3. ASSUME NEW c \in Client, Storage(c) PROVE StorageInv'
  BY <1>3, StatStep, LookStep, ReadStep, FillStep, ReplaceStep, ReplaceFailsStep, RestatStep, StoreStep DEF Storage
<1>4. ASSUME NEW t \in Timer, Work(t) PROVE StorageInv'
  <2>1. t \in Client
    BY DEF Client
  <2>2. CASE Fire(t) \/ ProcessQueue(t) \/ Processed(t)
    BY <2>2, QueueStep DEF Fire, ProcessQueue, Processed, used
  <2> QED BY <1>3, <1>4, <2>1, <2>2, PrepareStep, InvokeStep, FinalizeStep DEF Work
<1>5. CASE Serve
  BY <1>3, <1>5, ReloadStep, RespondStep DEF Serve
<1>6. CASE UNCHANGED vars
  BY <1>6, QueueStep DEF vars, used
<1> QED BY <1>1, <1>2, <1>4, <1>5, <1>6, RequestStep, SaveElsewhereStep DEF Next

LEMMA StorageInvariant == Spec => []StorageInv
BY InitStorage, NextStorage, PTL DEF Spec

\* However many threads and requests use the storage, a memory cached with the
\* file's mtime is the file's, unless a write came before another one's stat, or the
\* access that filled the cache failed.
THEOREM CacheIsCurrent == Spec => []CacheCurrent
<1>1. StorageInv => CacheCurrent
  BY DEF StorageInv
<1> QED BY <1>1, StorageInvariant, PTL

\* Neither the cache nor the order of the storage's steps makes an edit rest on
\* an older memory than the file's, when no other write crosses it and the file
\* could be read.
THEOREM EditsAreBasedOnLatest == Spec => EditsBuildOnLatest
<1>1. StorageInv /\ [Next]_vars =>
        [\A c \in Client :
          /\ step[c] = "replace" /\ step'[c] = "restat"
          /\ ~spoiled /\ c \notin crossed \cup misread
          /\ c = Api => op = "fact"
          => base[c] = file.data]_vars
  BY DEF StorageInv, ToEdit
<1> QED BY <1>1, StorageInvariant, PTL DEF Spec, EditsBuildOnLatest

-----------------------------------------------------------------------------
(* The queue and its threads. *)

ThreadInv ==
    /\ pc \in [Timer -> {"none", "armed", "fired", "working"}]
    /\ QueueAttended

LEMMA ThreadType ==
  ASSUME Idle # {}
  PROVE  Thread \in Timer
<1>1. Thread \in Idle
  BY DEF Thread
<1> QED BY <1>1 DEF Idle

LEMMA ScheduleStep ==
  ASSUME ThreadInv, NEW t \in Timer, Schedule(t)
  PROVE  ThreadInv'
<1>1. Cancelled \in [Timer -> {"none", "armed", "fired", "working"}]
  BY DEF Cancelled, ThreadInv
<1>2. pc' \in [Timer -> {"none", "armed", "fired", "working"}] /\ pc'[t] = "armed"
  BY <1>1 DEF Schedule
<1> QED BY <1>2 DEF ThreadInv, QueueAttended

LEMMA FlushThread ==
  ASSUME ThreadInv, Flush
  PROVE  ThreadInv'
<1>1. Cancelled \in [Timer -> {"none", "armed", "fired", "working"}] /\ Thread \in Timer
  BY ThreadType DEF Cancelled, ThreadInv, Flush
<1>2. pc' \in [Timer -> {"none", "armed", "fired", "working"}] /\ pc'[Thread] = "fired"
  BY <1>1 DEF Flush
<1> QED BY <1>1, <1>2 DEF ThreadInv, QueueAttended

LEMMA NextThread == ThreadInv /\ [Next]_vars => ThreadInv'
<1> SUFFICES ASSUME ThreadInv, [Next]_vars PROVE ThreadInv'
  OBVIOUS
<1>1. ASSUME UNCHANGED <<queue, pc>> PROVE ThreadInv'
  BY <1>1 DEF ThreadInv, QueueAttended
<1>2. ASSUME NEW v \in Conversation, NEW b \in BOOLEAN, Add(v, b) PROVE ThreadInv'
  BY <1>2, ThreadType, ScheduleStep DEF Add
<1>3. CASE Flush
  BY <1>3, FlushThread
<1>4. CASE FlushNowait
  BY <1>4, ThreadType, ScheduleStep DEF FlushNowait
<1>5. ASSUME NEW c, Storage(c) PROVE UNCHANGED <<queue, pc>>
  BY <1>5 DEF Storage, Stat, Look, Read, Fill, Replace, ReplaceFails, Restat, Store, queueVars
<1>6. ASSUME NEW t \in Timer, Work(t) PROVE ThreadInv'
  <2>1. CASE Fire(t)
    BY <2>1 DEF Fire, ThreadInv, QueueAttended
  <2>2. CASE ProcessQueue(t)
    <3>1. CASE Busy /\ TryAgain(t)
      BY <3>1, ScheduleStep DEF TryAgain
    <3>2. CASE queue' = <<>> /\ pc' \in {[pc EXCEPT ![t] = "none"], [pc EXCEPT ![t] = "working"]}
      BY <3>2 DEF ThreadInv, QueueAttended
    <3> QED BY <2>2, <3>1, <3>2 DEF ProcessQueue
  <2>3. CASE Processed(t)
    <3>1. queue' = queue /\ pc[t] = "working" /\ pc' = [pc EXCEPT ![t] = "none"]
      BY <2>3 DEF Processed, Reset
    <3> QED BY <3>1 DEF ThreadInv, QueueAttended
  <2>4. CASE Prepare(t) \/ Invoke(t) \/ Finalize(t)
    BY <1>1, <2>4 DEF Prepare, Invoke, Finalize, queueVars
  <2> QED BY <1>1, <1>5, <1>6, <2>1, <2>2, <2>3, <2>4 DEF Work
<1>7. CASE Serve
  BY <1>1, <1>5, <1>7 DEF Serve, Reload, Respond, queueVars
<1>8. ASSUME NEW o, Request(o) PROVE ThreadInv'
  BY <1>1, <1>8 DEF Request, queueVars
<1>9. CASE SaveElsewhere \/ UNCHANGED vars
  BY <1>1, <1>9 DEF SaveElsewhere, queueVars, vars
<1> QED BY <1>2, <1>3, <1>4, <1>6, <1>7, <1>8, <1>9 DEF Next

\* A queued context always has a thread that will look at the queue, however
\* timers are replaced, fire late, or meet a thread that is at work.
THEOREM QueueIsAttended == Spec => []QueueAttended
<1>1. Init => ThreadInv
  BY DEF Init, ThreadInv, QueueAttended
<1>2. ThreadInv => QueueAttended
  BY DEF ThreadInv
<1> QED BY <1>1, <1>2, NextThread, PTL DEF Spec


-----------------------------------------------------------------------------
(* The contexts on their way to the model. *)

\* One thread works at a time, and its updater has a context.
WorkInv ==
    /\ \A t \in Timer : pc[t] = "working" => processing
    /\ \A t, u \in Timer : pc[t] = "working" /\ pc[u] = "working" => t = u
    /\ \A t \in Timer : batch[t] # <<>> => pc[t] = "working"
    /\ \A t \in Timer : step[t] # "none" => batch[t] # <<>>

\* A queue has a conversation's last turn, a batch has one that the model has
\* not seen a later one of.
TurnInv ==
    /\ \A v \in Conversation : given[v] <= turns[v] /\ turns[v] <= calls
    /\ \A i \in 1..Len(queue) : queue[i].turn = turns[queue[i].conv]
    /\ \A t \in Timer : \A i \in 1..Len(batch[t]) :
         given[batch[t][i].conv] <= batch[t][i].turn /\ batch[t][i].turn <= turns[batch[t][i].conv]
    /\ \A t \in Timer : \A i, j \in 1..Len(batch[t]) : batch[t][i].conv = batch[t][j].conv => i = j

\* The model has the first context of the batch.
Asked(t) == step[t] \in {"invoke", "replace", "restat", "store"}

\* The model has not been given context x.
Ahead(x) ==
    \/ \E i \in 1..Len(queue) : queue[i] = x
    \/ \E t \in Timer : \E i \in 1..Len(batch[t]) : batch[t][i] = x /\ (i > 1 \/ ~Asked(t))

KeptInv ==
    \A v \in Conversation :
      /\ given[v] # turns[v] => \E x \in Context : Ahead(x) /\ x.conv = v /\ x.turn = turns[v]
      /\ v \in hints => \E x \in Context : Ahead(x) /\ x.conv = v /\ x.corrected

\* What a thread, and the API's request, may still edit.
Open(t) == Len(batch[t]) - (IF step[t] \in {"replace", "restat", "store"} THEN 1 ELSE 0)
OpenFact == IF op = "fact" /\ step[Api] \in {"stat", "look", "read", "fill", "loaded"} THEN 1 ELSE 0

BudgetInv ==
    /\ edits + Len(queue) + OpenFact <= calls
    /\ \A t \in Timer : edits + Len(queue) + OpenFact + Open(t) <= calls

ForgetInv == StorageInv /\ TypeOK /\ WorkInv /\ TurnInv /\ KeptInv /\ BudgetInv

LEMMA InitForget == Init => ForgetInv
<1> SUFFICES ASSUME Init PROVE ForgetInv
  OBVIOUS
<1> USE MemoryAssumption DEF Init
<1>1. StorageInv
  BY InitStorage
<1>2. TypeOK
  <2>1. queue \in Seq(Context) /\ batch \in [Timer -> Seq(Context)]
    OBVIOUS
  <2>2. {turns, given} \subseteq [Conversation -> 0..MaxCalls]
    OBVIOUS
  <2>3. StorageType
    BY <1>1 DEF StorageInv
  <2>4. {held, base, seen} \subseteq [Client -> Nat]
    BY <2>3 DEF StorageType
  <2>5. \A i, j \in 1..Len(queue) : queue[i].conv = queue[j].conv => i = j
    OBVIOUS
  <2>6. calls \in 0..MaxCalls /\ edits \in 0..calls
    OBVIOUS
  <2>7. /\ timer \in Timer \cup {NoTimer} /\ processing \in BOOLEAN /\ spoiled \in BOOLEAN
        /\ hints \subseteq Conversation /\ crossed \subseteq Client /\ misread \subseteq Client \cup {Cache}
        /\ op \in {"get", "reload", "clear", "import", "fact"}
        /\ pc \in [Timer -> {"none", "armed", "fired", "working"}]
    OBVIOUS
  <2> HIDE DEF Init
  <2> QED BY <2>1, <2>2, <2>3, <2>4, <2>5, <2>6, <2>7 DEF TypeOK, StorageType
<1>3. WorkInv
  BY DEF WorkInv, Client
<1>4. TurnInv
  BY DEF TurnInv
<1>5. KeptInv
  BY DEF KeptInv
<1>6. BudgetInv
  BY DEF BudgetInv, Open, OpenFact, Client
<1> QED BY <1>1, <1>2, <1>3, <1>4, <1>5, <1>6 DEF ForgetInv

LEMMA CallType == TypeOK => calls \in Nat /\ MaxCalls \in Nat /\ calls <= MaxCalls /\ edits \in Nat /\ edits <= calls
BY MemoryAssumption DEF TypeOK

\* What a call leaves of the queue: the contexts of the other conversations.
LEMMA OthersQueue ==
  ASSUME queue \in Seq(Context), NEW v,
         \A i, j \in 1..Len(queue) : queue[i].conv = queue[j].conv => i = j
  PROVE  /\ Others(v) \in Seq(Context) /\ Len(Others(v)) <= Len(queue)
         /\ \A i \in 1..Len(Others(v)) :
              Others(v)[i].conv # v /\ \E k \in 1..Len(queue) : Others(v)[i] = queue[k]
         /\ \A i, j \in 1..Len(Others(v)) : Others(v)[i].conv = Others(v)[j].conv => i = j
         /\ \A k \in 1..Len(queue) : queue[k].conv # v => \E i \in 1..Len(Others(v)) : Others(v)[i] = queue[k]
<1>1. CASE Queued(v) = {}
  <2>1. Others(v) = queue
    BY <1>1 DEF Others
  <2>2. \A i \in 1..Len(queue) : queue[i].conv # v
    BY <1>1 DEF Queued
  <2> QED BY <2>1, <2>2
<1>2. CASE Queued(v) # {}
  <2> DEFINE p == CHOOSE i \in Queued(v) : TRUE
             s == SubSeq(queue, 1, p - 1) \o SubSeq(queue, p + 1, Len(queue))
             n == Len(queue)
  <2>1. Others(v) = s
    BY <1>2 DEF Others
  <2>2. p \in 1..n /\ queue[p].conv = v /\ n \in Nat
    <3>1. p \in Queued(v)
      BY <1>2
    <3> QED BY <3>1 DEF Queued
  <2> HIDE DEF p
  <2>3. /\ s \in Seq(Context) /\ Len(s) = n - 1
        /\ \A i \in 1..n - 1 : s[i] = IF i < p THEN queue[i] ELSE queue[i + 1]
    <3> DEFINE a == SubSeq(queue, 1, p - 1)
               b == SubSeq(queue, p + 1, n)
    <3>1. a \in Seq(Context) /\ Len(a) = p - 1 /\ \A i \in 1..p - 1 : a[i] = queue[i]
      BY <2>2, SMT
    <3>2. b \in Seq(Context) /\ Len(b) = n - p /\ \A i \in 1..n - p : b[i] = queue[p + i]
      BY <2>2, SMT
    <3>3. s = a \o b
      OBVIOUS
    <3> HIDE DEF a, b, s
    <3>4. /\ s \in Seq(Context) /\ Len(s) = Len(a) + Len(b)
          /\ \A i \in 1..Len(a) + Len(b) : s[i] = IF i <= Len(a) THEN a[i] ELSE b[i - Len(a)]
      <4>1. a \in Seq(Context) /\ b \in Seq(Context)
        BY <3>1, <3>2
      <4> QED BY <3>3, <4>1, ConcatProperties, Zenon
    <3>5. Len(a) + Len(b) = n - 1
      BY <2>2, <3>1, <3>2
    <3>6. ASSUME NEW i \in 1..n - 1 PROVE s[i] = IF i < p THEN queue[i] ELSE queue[i + 1]
      <4>1. CASE i < p
        BY <2>2, <3>1, <3>4, <3>5, <4>1
      <4>2. CASE i >= p
        <5>1. i - (p - 1) \in 1..n - p /\ p + (i - (p - 1)) = i + 1 /\ ~(i <= p - 1)
          BY <2>2, <4>2
        <5>2. s[i] = b[i - (p - 1)]
          BY <3>1, <3>4, <3>5, <5>1
        <5>3. b[i - (p - 1)] = queue[i + 1]
          BY <3>2, <5>1
        <5> QED BY <2>2, <4>2, <5>2, <5>3
      <4> QED BY <2>2, <4>1, <4>2
    <3> QED BY <3>4, <3>5, <3>6
  <2> HIDE DEF s
  <2> DEFINE At(i) == IF i < p THEN i ELSE i + 1
  <2>4. \A i \in 1..n - 1 : s[i] = queue[At(i)] /\ At(i) \in 1..n /\ At(i) # p
    BY <2>2, <2>3
  <2>5. \A i, j \in 1..n - 1 : At(i) = At(j) => i = j
    BY <2>2
  <2>6. \A k \in 1..n : k # p => \E i \in 1..n - 1 : At(i) = k
    <3> SUFFICES ASSUME NEW k \in 1..n, k # p PROVE \E i \in 1..n - 1 : At(i) = k
      OBVIOUS
    <3>1. CASE k < p
      <4>1. k \in 1..n - 1 /\ At(k) = k
        BY <2>2, <3>1
      <4> QED BY <4>1
    <3>2. CASE k > p
      <4>1. k - 1 \in 1..n - 1 /\ At(k - 1) = k
        BY <2>2, <3>2
      <4> QED BY <4>1
    <3> QED BY <2>2, <3>1, <3>2
  <2> HIDE DEF At
  <2>7. \A i \in 1..n - 1 : queue[At(i)].conv # v
    BY <2>2, <2>4
  <2>8. \A i, j \in 1..n - 1 : s[i].conv = s[j].conv => i = j
    BY <2>4, <2>5
  <2>9. \A k \in 1..n : queue[k].conv # v => \E i \in 1..n - 1 : s[i] = queue[k]
    BY <2>2, <2>4, <2>6
  <2>10. n - 1 <= n
    BY <2>2
  <2> QED BY <2>1, <2>3, <2>4, <2>7, <2>8, <2>9, <2>10
<1> QED BY <1>1, <1>2

LEMMA TailContexts ==
  ASSUME NEW s \in Seq(Context), s # <<>>
  PROVE  /\ Tail(s) \in Seq(Context) /\ Len(s) \in Nat /\ Len(s) > 0 /\ Len(Tail(s)) = Len(s) - 1
         /\ \A i \in 1..Len(s) - 1 : Tail(s)[i] = s[i + 1]
         /\ Head(s) = s[1] /\ s[1] \in Context
BY HeadTailProperties, ElementOfSeq, EmptySeq

\* A step that moves no context.
LEMMA UnmovedStep ==
  ASSUME TypeOK, TurnInv, KeptInv,
         UNCHANGED <<queue, batch, turns, hints, given>>,
         calls' \in Nat, calls <= calls',
         \A t \in Timer : Asked(t)' <=> Asked(t)
  PROVE  TurnInv' /\ KeptInv'
<1>1. TurnInv'
  <2>1. \A v \in Conversation : turns[v] \in Nat
    BY MemoryAssumption DEF TypeOK
  <2>2. \A v \in Conversation : turns[v] <= calls'
    BY <2>1, CallType DEF TurnInv
  <2> QED BY <2>2 DEF TurnInv
<1>2. ASSUME NEW x PROVE Ahead(x)' <=> Ahead(x)
  BY DEF Ahead
<1>3. KeptInv'
  BY <1>2 DEF KeptInv
<1> QED BY <1>1, <1>3

\* A client goes from one step to another.
LEMMA GotoStep ==
  ASSUME TypeOK, WorkInv, TurnInv, KeptInv,
         UNCHANGED <<queue, processing, pc, batch, turns, hints, given>>,
         calls' \in Nat, calls <= calls', step \in [Client -> Step],
         NEW c \in Client, NEW p, step' = [step EXCEPT ![c] = p],
         c \in Timer => /\ Asked(c) <=> p \in {"invoke", "replace", "restat", "store"}
                        /\ batch[c] # <<>>
  PROVE  WorkInv' /\ TurnInv' /\ KeptInv'
<1>1. \A t \in Timer : t \in Client /\ step'[t] = IF t = c THEN p ELSE step[t]
  BY DEF Client
<1>2. \A t \in Timer : Asked(t)' <=> Asked(t)
  BY <1>1 DEF Asked
<1>3. WorkInv'
  BY <1>1 DEF WorkInv
<1> QED BY <1>2, <1>3, UnmovedStep

\* No thread starts or ends its work.
LEMMA ThreadStep ==
  ASSUME TypeOK, WorkInv, TurnInv, KeptInv,
         UNCHANGED <<queue, processing, batch, turns, hints, given, step>>,
         calls' \in Nat, calls <= calls',
         \A t \in Timer : pc'[t] = "working" <=> pc[t] = "working"
  PROVE  WorkInv' /\ TurnInv' /\ KeptInv'
<1>1. \A t \in Timer : Asked(t)' <=> Asked(t)
  BY DEF Asked
<1>2. WorkInv'
  BY DEF WorkInv
<1> QED BY <1>1, <1>2, UnmovedStep

\* An edit is paid for by a call or by the request that was open.
LEMMA BudgetStep ==
  ASSUME TypeOK, BudgetInv, UNCHANGED <<queue, batch>>,
         edits' \in Nat, calls' \in Nat,
         edits' + OpenFact' + calls <= edits + OpenFact + calls',
         \A t \in Timer : step[t] \in {"replace", "restat", "store"} => step'[t] \in {"replace", "restat", "store"}
  PROVE  BudgetInv'
<1>1. OpenFact \in Nat /\ OpenFact' \in Nat
  BY DEF OpenFact
<1>2. Len(queue) \in Nat /\ \A t \in Timer : Len(batch[t]) \in Nat
  BY DEF TypeOK
<1>3. \A t \in Timer : Open(t) \in Int /\ Open(t)' \in Int /\ Open(t)' <= Open(t)
  BY <1>2 DEF Open
<1> HIDE DEF OpenFact, Open
<1>4. PICK p \in Nat, e \in Nat, d \in Nat :
        p = OpenFact' /\ e = edits' /\ d = calls' /\ e + p + calls <= edits + OpenFact + d
  BY <1>1
<1>5. ASSUME NEW f \in Nat, NEW c \in Nat, NEW n \in Nat, NEW o \in Nat, NEW a \in Int, NEW b \in Int,
             e + p + c <= f + o + d, f + n + o + a <= c, b <= a
      PROVE  e + n + p + b <= d
  BY <1>5
<1>6. edits \in Nat /\ calls \in Nat /\ Len(queue') = Len(queue)
  BY CallType
<1>7. e + Len(queue) + p <= d
  <2>1. edits + Len(queue) + OpenFact <= calls
    BY DEF BudgetInv
  <2>2. \A f, c, n, o \in Nat : e + p + c <= f + o + d /\ f + n + o <= c => e + n + p <= d
    OBVIOUS
  <2> QED BY <1>1, <1>2, <1>4, <1>6, <2>1, <2>2
<1>8. ASSUME NEW t \in Timer PROVE (edits + Len(queue) + OpenFact + Open(t) <= calls)'
  <2>1. edits + Len(queue) + OpenFact + Open(t) <= calls
    BY DEF BudgetInv
  <2>2. PICK a \in Int, b \in Int : a = Open(t) /\ b = Open(t)' /\ b <= a
    BY <1>3
  <2>3. edits + Len(queue) + OpenFact + a <= calls
    BY <2>1, <2>2
  <2>4. PICK f \in Nat, c \in Nat, n \in Nat, o \in Nat :
          f = edits /\ c = calls /\ n = Len(queue) /\ o = OpenFact
    BY <1>1, <1>2, <1>6
  <2>5. e + p + c <= f + o + d /\ f + n + o + a <= c
    BY <1>4, <2>3, <2>4
  <2>6. e + n + p + b <= d
    BY <1>5, <2>2, <2>5
  <2>7. e + Len(queue) + p + b <= d
    BY <2>4, <2>6
  <2> QED BY <1>4, <1>6, <2>2, <2>7
<1>9. (edits + Len(queue) + OpenFact <= calls)'
  BY <1>4, <1>6, <1>7
<1> QED BY <1>8, <1>9 DEF BudgetInv

\* What needs no argument.
PlainType ==
    /\ timer \in Timer \cup {NoTimer}
    /\ processing \in BOOLEAN /\ spoiled \in BOOLEAN
    /\ pc \in [Timer -> {"none", "armed", "fired", "working"}]
    /\ hints \subseteq Conversation
    /\ op \in {"get", "reload", "clear", "import", "fact"}
    /\ crossed \subseteq Client /\ misread \subseteq Client \cup {Cache}
    /\ calls \in 0..MaxCalls

ContextType ==
    /\ queue \in Seq(Context)
    /\ \A i, j \in 1..Len(queue) : queue[i].conv = queue[j].conv => i = j
    /\ batch \in [Timer -> Seq(Context)]
    /\ turns \in [Conversation -> 0..MaxCalls] /\ given \in [Conversation -> 0..MaxCalls]

LEMMA TypeParts == TypeOK <=> PlainType /\ ContextType /\ StorageType /\ edits \in 0..calls
<1>1. {turns, given} \subseteq [Conversation -> 0..MaxCalls]
      <=> turns \in [Conversation -> 0..MaxCalls] /\ given \in [Conversation -> 0..MaxCalls]
  OBVIOUS
<1>2. {held, base, seen} \subseteq [Client -> Nat]
      <=> held \in [Client -> Nat] /\ base \in [Client -> Nat] /\ seen \in [Client -> Nat]
  OBVIOUS
<1>3. calls \in 0..MaxCalls /\ edits \in 0..calls => edits \in Nat
  BY MemoryAssumption
<1> QED BY <1>1, <1>2, <1>3 DEF TypeOK, PlainType, ContextType, StorageType

\* The budget bounds the edits.
LEMMA BudgetType == PlainType /\ ContextType /\ StorageType /\ BudgetInv => TypeOK
<1> SUFFICES ASSUME PlainType, ContextType, StorageType, BudgetInv PROVE TypeOK
  OBVIOUS
<1>1. OpenFact \in {0, 1} /\ Len(queue) \in Nat /\ edits \in Nat /\ calls \in Nat
  BY MemoryAssumption DEF OpenFact, ContextType, StorageType, PlainType
<1> HIDE DEF OpenFact
<1>2. edits \in 0..calls
  BY <1>1 DEF BudgetInv
<1> QED BY <1>2, TypeParts

LEMMA ForgetParts ==
  StorageInv /\ PlainType /\ ContextType /\ WorkInv /\ TurnInv /\ KeptInv /\ BudgetInv => ForgetInv
BY BudgetType DEF ForgetInv, StorageInv

LEMMA WritesType ==
  ASSUME TypeOK, NEW data, NEW others \in SUBSET Client, Write(data, others)
  PROVE  crossed' \subseteq Client /\ spoiled' \in BOOLEAN
BY DEF TypeOK, Write

LEMMA CallsType == TypeOK /\ MayCall => calls' \in 0..MaxCalls /\ calls' = calls + 1 /\ calls' \in Nat
BY MemoryAssumption DEF TypeOK, MayCall

LEMMA ScheduleType ==
  ASSUME TypeOK, NEW t \in Timer, Schedule(t)
  PROVE  /\ timer' \in Timer \cup {NoTimer}
         /\ pc' \in [Timer -> {"none", "armed", "fired", "working"}]
BY DEF TypeOK, Schedule, Cancelled

LEMMA StoragePlain ==
  ASSUME TypeOK, NEW c \in Client, Storage(c)
  PROVE  PlainType'
<1> USE DEF TypeOK, PlainType, queueVars, clientVars, used
<1>1. CASE Stat(c)
  BY <1>1, CallsType DEF Stat
<1>2. CASE Look(c)
  BY <1>2 DEF Look
<1>3. CASE Read(c)
  BY <1>3, CallsType DEF Read, ReadFile
<1>4. CASE Fill(c)
  BY <1>4 DEF Fill, Keep
<1>5. CASE Replace(c)
  <2>1. Write(held[c], Client \ {c}) /\ misread' = misread \ {c} /\ UNCHANGED <<queueVars, op, used>>
    BY <1>5 DEF Replace
  <2>2. crossed' \subseteq Client /\ spoiled' \in BOOLEAN
    BY <2>1, WritesType
  <2> QED BY <2>1, <2>2
<1>6. CASE ReplaceFails(c)
  BY <1>6 DEF ReplaceFails
<1>7. CASE Restat(c)
  BY <1>7, CallsType DEF Restat
<1>8. CASE Store(c)
  BY <1>8 DEF Store, Keep
<1> QED BY <1>1, <1>2, <1>3, <1>4, <1>5, <1>6, <1>7, <1>8 DEF Storage

LEMMA WorkPlain ==
  ASSUME TypeOK, NEW t \in Timer, Work(t)
  PROVE  PlainType'
<1> USE DEF TypeOK, PlainType, queueVars, clientVars, used
<1>1. CASE Fire(t)
  BY <1>1 DEF Fire
<1>2. CASE ProcessQueue(t)
  BY <1>2, ScheduleType DEF ProcessQueue, TryAgain
<1>3. CASE Processed(t)
  BY <1>3 DEF Processed, Reset
<1>4. CASE Prepare(t)
  BY <1>4 DEF Prepare
<1>5. CASE Invoke(t)
  BY <1>5 DEF Invoke
<1>6. CASE Finalize(t)
  BY <1>6 DEF Finalize, EditCopy, Edit
<1>7. CASE Storage(t)
  BY <1>7, StoragePlain DEF Client
<1> QED BY <1>1, <1>2, <1>3, <1>4, <1>5, <1>6, <1>7 DEF Work

LEMMA NextPlain == TypeOK /\ [Next]_vars => PlainType'
<1> SUFFICES ASSUME TypeOK, [Next]_vars PROVE PlainType'
  OBVIOUS
<1> Api \in Client
  BY DEF Client
<1> USE DEF TypeOK, PlainType, queueVars, clientVars, used
<1>1. ASSUME NEW v \in Conversation, NEW b \in BOOLEAN, Add(v, b) PROVE PlainType'
  <2>1. hints' \subseteq Conversation
    BY <1>1 DEF Add, Enqueue
  <2> QED BY <1>1, <2>1, ThreadType, ScheduleType, CallsType DEF Add
<1>2. CASE Flush
  BY <1>2, ThreadType, CallsType DEF Flush, Cancelled
<1>3. CASE FlushNowait
  BY <1>3, ThreadType, ScheduleType, CallsType DEF FlushNowait
<1>4. ASSUME NEW o \in {"get", "reload", "clear", "import", "fact"}, Request(o) PROVE PlainType'
  BY <1>4, CallsType DEF Request
<1>5. CASE Serve
  <2>1. CASE Storage(Api)
    BY <2>1, StoragePlain
  <2>2. CASE Reload
    BY <2>2, CallsType DEF Reload, ReadFile
  <2>3. CASE Respond
    BY <2>3 DEF Respond, EditCopy, Edit
  <2> QED BY <1>5, <2>1, <2>2, <2>3 DEF Serve
<1>6. CASE SaveElsewhere
  BY <1>6, WritesType, CallsType DEF SaveElsewhere, clientVars
<1>7. CASE UNCHANGED vars
  BY <1>7 DEF vars, clientVars
<1> QED BY <1>1, <1>2, <1>3, <1>4, <1>5, <1>6, <1>7, WorkPlain, SMTT(30) DEF Next

\* The contexts on their way, and what may be edited on the way.
WayInv == ContextType /\ WorkInv /\ TurnInv /\ KeptInv /\ BudgetInv

LEMMA ForgetWay == ForgetInv => WayInv /\ PlainType /\ StorageType /\ calls \in Nat /\ edits \in Nat
BY TypeParts, CallType DEF ForgetInv, WayInv

\* A client's step in the storage that takes no context and edits nothing.
LEMMA QuietStep ==
  ASSUME ForgetInv, NEW c \in Client, NEW p, step' = [step EXCEPT ![c] = p],
         UNCHANGED <<queue, processing, pc, batch, turns, hints, given, edits>>,
         calls' = calls \/ MayCall,
         c \in Timer => /\ step[c] \in {"invoke", "replace", "restat", "store"} <=> p \in {"invoke", "replace", "restat", "store"}
                        /\ step[c] \in {"replace", "restat", "store"} => p \in {"replace", "restat", "store"}
                        /\ batch[c] # <<>>,
         OpenFact' = 1 => OpenFact = 1
  PROVE  WayInv'
<1>1. /\ TypeOK /\ ContextType /\ WorkInv /\ TurnInv /\ KeptInv /\ BudgetInv
      /\ StorageType /\ calls \in Nat /\ edits \in Nat
  BY ForgetWay DEF ForgetInv, WayInv
<1>2. step \in [Client -> Step]
  BY <1>1 DEF StorageType
<1>3. calls' \in Nat /\ calls <= calls' /\ edits' \in Nat
  BY <1>1, CallsType
<1>4. WorkInv' /\ TurnInv' /\ KeptInv'
  BY <1>1, <1>2, <1>3, GotoStep DEF Asked
<1>5. OpenFact' \in {0, 1} /\ OpenFact \in {0, 1}
  BY DEF OpenFact
<1>6. edits' + OpenFact' + calls <= edits + OpenFact + calls'
  <2> HIDE DEF OpenFact
  <2>1. PICK q \in Nat, o \in Nat : q = OpenFact' /\ o = OpenFact /\ q <= o
    BY <1>5
  <2>2. PICK e \in Nat, k \in Nat, l \in Nat : e = edits /\ k = calls /\ e = edits' /\ l = calls'
    BY <1>1, <1>3
  <2>3. e + q + k <= e + o + l
    <3>1. q <= o /\ k <= l
      BY <1>3, <2>1, <2>2
    <3> QED BY <3>1
  <2> QED BY <2>1, <2>2, <2>3
<1>7. \A t \in Timer : step[t] \in {"replace", "restat", "store"} => step'[t] \in {"replace", "restat", "store"}
  BY <1>2 DEF Client
<1>8. BudgetInv'
  BY <1>1, <1>3, <1>6, <1>7, BudgetStep
<1>9. ContextType'
  BY <1>1 DEF ContextType
<1> QED BY <1>4, <1>8, <1>9 DEF WayInv

\* The parts of the storage, in which a thread's context stays where it is.
LEMMA QuietStorage ==
  ASSUME ForgetInv, NEW c \in Client,
         Stat(c) \/ Look(c) \/ Read(c) \/ Fill(c) \/ Replace(c) \/ Restat(c)
  PROVE  WayInv'
<1> USE DEF Goto, queueVars, used
<1>1. step \in [Client -> Step] /\ (c \in Timer /\ step[c] # "none" => batch[c] # <<>>)
  BY ForgetWay DEF StorageType, ForgetInv, WorkInv
<1>2. /\ UNCHANGED <<queue, processing, pc, batch, turns, hints, given, edits, op>>
      /\ calls' = calls \/ MayCall
  BY DEF Stat, Look, Read, ReadFile, Fill, Replace, Restat
<1>3. PICK p \in Step :
        /\ step' = [step EXCEPT ![c] = p]
        /\ step[c] # "none"
        /\ \/ step[c] \in {"stat", "look", "read", "fill"} /\ p \in {"look", "read", "fill", "loaded"}
           \/ step[c] \in {"replace", "restat"} /\ p \in {"restat", "store"}
  <2>1. CASE Stat(c) \/ Look(c) \/ Read(c) \/ Fill(c)
    BY <2>1 DEF Stat, Look, Read, Fill
  <2>2. CASE Replace(c) \/ Restat(c)
    BY <2>2 DEF Replace, Restat
  <2> QED BY <2>1, <2>2
<1>4. OpenFact' = 1 => OpenFact = 1
  <2>1. Api \in Client
    BY DEF Client
  <2>2. CASE c = Api
    BY <1>1, <1>2, <1>3, <2>1, <2>2 DEF OpenFact
  <2>3. CASE c # Api
    BY <1>1, <1>2, <1>3, <2>1, <2>3 DEF OpenFact
  <2> QED BY <2>2, <2>3
<1> HIDE DEF Goto, queueVars, used
<1> QED BY <1>1, <1>2, <1>3, <1>4, QuietStep

LEMMA PrepareKept ==
  ASSUME ForgetInv, NEW t \in Timer, Prepare(t)
  PROVE  WayInv'
<1> USE DEF Goto, queueVars, used, Prepare
<1>1. step' = [step EXCEPT ![t] = "stat"] /\ batch[t] # <<>> /\ step[t] = "none" /\ t \in Client /\ t # Api
  BY MemoryAssumption DEF Client
<1>2. UNCHANGED <<queue, processing, pc, batch, turns, hints, given, edits, calls, op>>
  OBVIOUS
<1>3. step'[Api] = step[Api]
  BY <1>1, ForgetWay DEF StorageType, Client
<1>4. OpenFact' = 1 => OpenFact = 1
  BY <1>2, <1>3 DEF OpenFact
<1> QED BY <1>1, <1>2, <1>4, QuietStep

LEMMA ReloadKept ==
  ASSUME ForgetInv, Reload
  PROVE  WayInv'
<1> USE DEF Goto, queueVars, used, Reload
<1>1. step' = [step EXCEPT ![Api] = "restat"] /\ Api \in Client /\ Api \notin Timer
  BY MemoryAssumption DEF Client
<1>2. /\ UNCHANGED <<queue, processing, pc, batch, turns, hints, given, edits, op>>
      /\ calls' = calls \/ MayCall
  BY DEF ReadFile
<1>3. ~(OpenFact' = 1)
  BY <1>1, ForgetWay DEF StorageType, OpenFact
<1> HIDE DEF Goto, queueVars, used, Reload
<1> QED BY <1>1, <1>2, <1>3, QuietStep

\* A thread's updater has returned, and the thread turns to its next context.
LEMMA DoneThread ==
  ASSUME ForgetInv, NEW c \in Timer, Done(c), Asked(c),
         UNCHANGED <<queue, processing, pc, turns, hints, given, edits, calls, op>>
  PROVE  WayInv'
<1>1. /\ TypeOK /\ ContextType /\ WorkInv /\ TurnInv /\ KeptInv /\ BudgetInv
      /\ StorageType /\ calls \in Nat /\ edits \in Nat
  BY ForgetWay DEF ForgetInv, WayInv
<1>2. c \in Client /\ Api \in Client /\ c # Api
  BY MemoryAssumption DEF Client
<1>3. /\ step' = [step EXCEPT ![c] = "none"]
      /\ batch' = [batch EXCEPT ![c] = Tail(@)]
      /\ step \in [Client -> Step] /\ batch \in [Timer -> Seq(Context)]
  BY <1>1, <1>2 DEF Done, Goto, StorageType, ContextType
<1>4. batch[c] \in Seq(Context) /\ batch[c] # <<>>
  BY <1>1, <1>3 DEF WorkInv, Asked
<1> DEFINE n == Len(batch[c])
<1>5. /\ Tail(batch[c]) \in Seq(Context) /\ n \in Nat /\ n > 0 /\ Len(Tail(batch[c])) = n - 1
      /\ \A i \in 1..n - 1 : Tail(batch[c])[i] = batch[c][i + 1]
  BY <1>4, TailContexts
<1> HIDE DEF n
<1>6. /\ batch'[c] \in Seq(Context) /\ Len(batch'[c]) = n - 1
      /\ \A i \in 1..n - 1 : batch'[c][i] = batch[c][i + 1]
      /\ \A t \in Timer : t # c => batch'[t] = batch[t] /\ step'[t] = step[t]
      /\ step'[c] = "none" /\ step'[Api] = step[Api]
      /\ batch' \in [Timer -> Seq(Context)]
  BY <1>2, <1>3, <1>5 DEF Client
<1>7. ContextType'
  BY <1>1, <1>6 DEF ContextType
<1>8. WorkInv'
  <2>1. \A t \in Timer : batch'[t] # <<>> => pc[t] = "working"
    BY <1>1, <1>4, <1>6 DEF WorkInv
  <2>2. \A t \in Timer : step'[t] # "none" => batch'[t] # <<>>
    BY <1>1, <1>6 DEF WorkInv
  <2> QED BY <1>1, <2>1, <2>2 DEF WorkInv
<1>9. \A i \in 1..n - 1 : i + 1 \in 1..n /\ batch'[c][i] = batch[c][i + 1]
  BY <1>5, <1>6
<1>10. TurnInv'
  <2>1. ASSUME NEW t \in Timer, NEW i \in 1..Len(batch'[t])
        PROVE  given[batch'[t][i].conv] <= batch'[t][i].turn /\ batch'[t][i].turn <= turns[batch'[t][i].conv]
    <3>1. CASE t = c
      BY <1>1, <1>6, <1>9, <2>1, <3>1 DEF TurnInv, n
    <3>2. CASE t # c
      BY <1>1, <1>6, <2>1, <3>2 DEF TurnInv
    <3> QED BY <3>1, <3>2
  <2>2. ASSUME NEW t \in Timer, NEW i \in 1..Len(batch'[t]), NEW j \in 1..Len(batch'[t]),
               batch'[t][i].conv = batch'[t][j].conv
        PROVE  i = j
    <3>1. CASE t = c
      <4>1. i + 1 \in 1..n /\ j + 1 \in 1..n /\ batch[c][i + 1].conv = batch[c][j + 1].conv
        BY <1>6, <1>9, <2>2, <3>1
      <4>2. i + 1 = j + 1
        BY <1>1, <4>1 DEF TurnInv, n
      <4> QED BY <4>2
    <3>2. CASE t # c
      BY <1>1, <1>6, <2>2, <3>2 DEF TurnInv
    <3> QED BY <3>1, <3>2
  <2> QED BY <1>1, <2>1, <2>2 DEF TurnInv
<1>11. ASSUME NEW x, Ahead(x) PROVE Ahead(x)'
  <2>1. CASE \E i \in 1..Len(queue) : queue[i] = x
    BY <2>1 DEF Ahead
  <2>2. CASE \E t \in Timer : \E i \in 1..Len(batch[t]) : batch[t][i] = x /\ (i > 1 \/ ~Asked(t))
    <3>0. PICK t \in Timer : \E i \in 1..Len(batch[t]) : batch[t][i] = x /\ (i > 1 \/ ~Asked(t))
      BY <2>2
    <3>1. PICK i \in 1..Len(batch[t]) : batch[t][i] = x /\ (i > 1 \/ ~Asked(t))
      BY <3>0
    <3>2. CASE t = c
      <4>1. i \in 1..n /\ i > 1
        BY <3>1, <3>2 DEF n
      <4>2. i - 1 \in 1..n - 1 /\ (i - 1) + 1 = i
        BY <1>5, <4>1
      <4>3. batch'[c][i - 1] = x /\ i - 1 \in 1..Len(batch'[c])
        BY <1>6, <1>9, <3>1, <3>2, <4>2
      <4>4. ~Asked(c)'
        BY <1>6 DEF Asked
      <4> QED BY <4>3, <4>4 DEF Ahead
    <3>3. CASE t # c
      BY <1>6, <3>1, <3>3 DEF Ahead, Asked
    <3> QED BY <3>2, <3>3
  <2> QED BY <1>11, <2>1, <2>2 DEF Ahead
<1>12. KeptInv'
  BY <1>1, <1>11 DEF KeptInv
<1>13. BudgetInv'
  <2>1. OpenFact' = OpenFact
    BY <1>6 DEF OpenFact
  <2>2. Open(c)' <= Open(c) /\ Open(c)' \in Int /\ Open(c) \in Int
    <3>1. Len(batch[c]) = n /\ Len(batch'[c]) = n - 1 /\ step'[c] = "none"
      BY <1>6 DEF n
    <3>2. Open(c) \in {n, n - 1} /\ Open(c)' = n - 1
      BY <1>5, <3>1 DEF Open
    <3> QED BY <1>5, <3>2
  <2>3. \A t \in Timer : t # c => Open(t)' = Open(t)
    BY <1>6 DEF Open
  <2>4. OpenFact \in Nat /\ Len(queue) \in Nat
    BY <1>1 DEF OpenFact, ContextType
  <2>5. ASSUME NEW t \in Timer PROVE (edits + Len(queue) + OpenFact + Open(t) <= calls)'
    <3>1. CASE t = c
      <4>1. PICK a \in Int, b \in Int : a = Open(c) /\ b = Open(c)' /\ b <= a
        BY <2>2
      <4>2. edits + Len(queue) + OpenFact + a <= calls
        BY <1>1, <4>1 DEF BudgetInv
      <4>3. edits + Len(queue) + OpenFact + b <= calls
        BY <1>1, <2>4, <4>1, <4>2
      <4> QED BY <2>1, <3>1, <4>1, <4>3
    <3>2. CASE t # c
      BY <1>1, <2>1, <2>3, <3>2 DEF BudgetInv
    <3> QED BY <3>1, <3>2
  <2> QED BY <1>1, <2>1, <2>5 DEF BudgetInv
<1> QED BY <1>7, <1>8, <1>10, <1>12, <1>13 DEF WayInv

\* The API's request is done.
LEMMA DoneApi ==
  ASSUME ForgetInv, Done(Api), UNCHANGED <<queue, processing, pc, turns, hints, given, edits, calls>>
  PROVE  WayInv'
<1>1. step' = [step EXCEPT ![Api] = "none"] /\ batch' = batch /\ Api \in Client /\ Api \notin Timer
  BY MemoryAssumption DEF Done, Goto, Client
<1>2. ~(OpenFact' = 1)
  BY <1>1, ForgetWay DEF StorageType, OpenFact
<1> QED BY <1>1, <1>2, QuietStep

\* The answer is applied: what was open is an edit.
LEMMA EditThread ==
  ASSUME ForgetInv, NEW c \in Timer, step[c] = "invoke", Edit(c),
         UNCHANGED <<queue, processing, pc, batch, turns, hints, given, op>>
  PROVE  WayInv'
<1>1. /\ TypeOK /\ ContextType /\ WorkInv /\ TurnInv /\ KeptInv /\ BudgetInv
      /\ StorageType /\ calls \in Nat /\ edits \in Nat
  BY ForgetWay DEF ForgetInv, WayInv
<1>2. c \in Client /\ Api \in Client /\ c # Api
  BY MemoryAssumption DEF Client
<1>3. step' = [step EXCEPT ![c] = "replace"] /\ edits' = edits + 1 /\ calls' = calls /\ step \in [Client -> Step]
  BY <1>1 DEF Edit, Goto, StorageType
<1>4. batch[c] # <<>>
  BY <1>1 DEF WorkInv
<1>5. WorkInv' /\ TurnInv' /\ KeptInv'
  <2>1. Asked(c) /\ calls' \in Nat /\ calls <= calls'
    BY <1>1, <1>3 DEF Asked
  <2> QED BY <1>1, <1>2, <1>3, <1>4, <2>1, GotoStep
<1>6. ContextType'
  BY <1>1 DEF ContextType
<1>7. BudgetInv'
  <2>1. step'[Api] = step[Api] /\ step'[c] = "replace" /\ \A t \in Timer : t # c => step'[t] = step[t]
    BY <1>2, <1>3 DEF Client
  <2>2. OpenFact' = OpenFact /\ OpenFact \in Nat /\ Len(queue) \in Nat
    BY <1>1, <2>1 DEF OpenFact, ContextType
  <2>3. Len(batch[c]) \in Nat /\ Len(batch[c]) > 0
    BY <1>1, <1>4, EmptySeq, LenProperties DEF ContextType
  <2>4. /\ Open(c) = Len(batch[c]) /\ Open(c)' = Len(batch[c]) - 1
        /\ edits + Len(queue) + OpenFact + Len(batch[c]) <= calls
    <3>1. Open(c) = Len(batch[c]) /\ Open(c)' = Len(batch[c]) - 1
      BY <2>1, <2>3 DEF Open
    <3> QED BY <1>1, <3>1 DEF BudgetInv
  <2>5. \A t \in Timer : t # c => Open(t)' = 0
    <3>1. \A t \in Timer : t # c => batch[t] = <<>> /\ step[t] = "none"
      BY <1>1, <1>4 DEF WorkInv
    <3> QED BY <2>1, <3>1 DEF Open
  <2>6. edits + 1 + Len(queue) + OpenFact + (Len(batch[c]) - 1) <= calls /\ edits + 1 + Len(queue) + OpenFact + 0 <= calls
        /\ edits + 1 + Len(queue) + OpenFact <= calls
    <3>1. \A e, q, f, n, b \in Nat : e + q + f + n <= b /\ n > 0 =>
            e + 1 + q + f + (n - 1) <= b /\ e + 1 + q + f + 0 <= b /\ e + 1 + q + f <= b
      OBVIOUS
    <3> QED BY <1>1, <2>2, <2>3, <2>4, <3>1
  <2>7. ASSUME NEW t \in Timer PROVE (edits + Len(queue) + OpenFact + Open(t) <= calls)'
    <3>1. CASE t = c
      BY <1>3, <2>2, <2>4, <2>6, <3>1
    <3>2. CASE t # c
      BY <1>3, <2>2, <2>5, <2>6, <3>2
    <3> QED BY <3>1, <3>2
  <2>8. (edits + Len(queue) + OpenFact <= calls)'
    BY <1>3, <2>2, <2>6
  <2> QED BY <2>7, <2>8 DEF BudgetInv
<1> QED BY <1>5, <1>6, <1>7 DEF WayInv

\* The request for an edit of a fact becomes one.
LEMMA EditApi ==
  ASSUME ForgetInv, step[Api] = "loaded", op = "fact", Edit(Api),
         UNCHANGED <<queue, processing, pc, batch, turns, hints, given, op>>
  PROVE  WayInv'
<1>1. /\ TypeOK /\ ContextType /\ WorkInv /\ TurnInv /\ KeptInv /\ BudgetInv
      /\ StorageType /\ calls \in Nat /\ edits \in Nat
  BY ForgetWay DEF ForgetInv, WayInv
<1>2. Api \in Client /\ Api \notin Timer
  BY MemoryAssumption DEF Client
<1>3. step' = [step EXCEPT ![Api] = "replace"] /\ edits' = edits + 1 /\ calls' = calls /\ step \in [Client -> Step]
  BY <1>1 DEF Edit, Goto, StorageType
<1>4. WorkInv' /\ TurnInv' /\ KeptInv'
  <2>1. calls' \in Nat /\ calls <= calls'
    BY <1>1, <1>3
  <2> QED BY <1>1, <1>2, <1>3, <2>1, GotoStep
<1>5. ContextType'
  BY <1>1 DEF ContextType
<1>6. OpenFact = 1 /\ OpenFact' = 0
  BY <1>2, <1>3 DEF OpenFact
<1>7. edits' \in Nat /\ calls' \in Nat /\ edits' + OpenFact' + calls <= edits + OpenFact + calls'
  BY <1>1, <1>3, <1>6
<1>8. \A t \in Timer : step'[t] = step[t]
  BY <1>2, <1>3 DEF Client
<1>9. BudgetInv'
  BY <1>1, <1>7, <1>8, BudgetStep
<1> QED BY <1>4, <1>5, <1>9 DEF WayInv

\* A call that does not reach the queue: a request of the API, or a write of
\* another process.
LEMMA CallKept ==
  ASSUME ForgetInv, MayCall, NEW p, step' = step \/ step' = [step EXCEPT ![Api] = p],
         UNCHANGED <<queue, processing, pc, batch, turns, hints, given>>,
         edits' \in Nat, edits' + OpenFact' <= edits + OpenFact + 1
  PROVE  WayInv'
<1>1. /\ TypeOK /\ ContextType /\ WorkInv /\ TurnInv /\ KeptInv /\ BudgetInv
      /\ StorageType /\ calls \in Nat /\ edits \in Nat
  BY ForgetWay DEF ForgetInv, WayInv
<1>2. calls' = calls + 1 /\ calls' \in Nat /\ calls <= calls' /\ step \in [Client -> Step]
  BY <1>1, CallsType DEF StorageType
<1>3. \A t \in Timer : step'[t] = step[t]
  BY <1>2, MemoryAssumption DEF Client
<1>4. WorkInv' /\ TurnInv' /\ KeptInv'
  <2>1. \A t \in Timer : Asked(t)' <=> Asked(t)
    BY <1>3 DEF Asked
  <2>2. WorkInv'
    BY <1>1, <1>3 DEF WorkInv
  <2> QED BY <1>1, <1>2, <2>1, <2>2, UnmovedStep
<1>5. ContextType'
  BY <1>1 DEF ContextType
<1>6. edits' + OpenFact' + calls <= edits + OpenFact + calls'
  <2>1. OpenFact \in Nat /\ OpenFact' \in Nat
    BY DEF OpenFact
  <2> HIDE DEF OpenFact
  <2>2. PICK e \in Nat, f \in Nat : e = edits' /\ f = OpenFact' /\ e + f <= edits + OpenFact + 1
    BY <2>1
  <2>3. \A d, c, o \in Nat : e + f <= d + o + 1 => e + f + c <= d + o + (c + 1)
    OBVIOUS
  <2> QED BY <1>1, <1>2, <2>1, <2>2, <2>3
<1>7. BudgetInv'
  BY <1>1, <1>2, <1>3, <1>6, BudgetStep
<1> QED BY <1>4, <1>5, <1>7 DEF WayInv

LEMMA RequestKept ==
  ASSUME ForgetInv, NEW o \in {"get", "reload", "clear", "import", "fact"}, Request(o)
  PROVE  WayInv'
<1>1. step \in [Client -> Step] /\ Api \in Client /\ edits \in Nat
  BY ForgetWay DEF StorageType, Client
<1>2. /\ MayCall /\ op' = o
      /\ UNCHANGED <<queue, processing, pc, batch, turns, hints, given>>
  BY DEF Request, queueVars
<1>3. CASE o \in {"clear", "import"}
  <2>1. step' = [step EXCEPT ![Api] = "replace"] /\ edits' = edits + 1
    BY <1>3 DEF Request, Goto
  <2>2. OpenFact' = 0 /\ OpenFact \in {0, 1}
    BY <1>1, <2>1 DEF OpenFact
  <2>3. edits' \in Nat /\ edits' + OpenFact' <= edits + OpenFact + 1
    BY <1>1, <2>1, <2>2
  <2> QED BY <1>2, <2>1, <2>3, CallKept
<1>4. CASE o \notin {"clear", "import"}
  <2>1. PICK p : step' = [step EXCEPT ![Api] = p] /\ edits' = edits
    BY <1>4 DEF Request, Goto
  <2>2. OpenFact' \in {0, 1} /\ OpenFact \in {0, 1}
    BY DEF OpenFact
  <2>3. PICK f \in Nat, g \in Nat : f = OpenFact' /\ g = OpenFact /\ f <= g + 1
    BY <2>2
  <2>4. edits + f <= edits + g + 1
    <3>1. f <= g + 1
      BY <2>3
    <3> QED BY <1>1, <3>1
  <2>5. edits' \in Nat /\ edits' + OpenFact' <= edits + OpenFact + 1
    BY <1>1, <2>1, <2>3, <2>4
  <2> QED BY <1>2, <2>1, <2>5, CallKept
<1> QED BY <1>3, <1>4

LEMMA SaveElsewhereKept ==
  ASSUME ForgetInv, SaveElsewhere
  PROVE  WayInv'
<1>1. /\ MayCall /\ edits' = edits + 1 /\ step' = step /\ op' = op
      /\ UNCHANGED <<queue, processing, pc, batch, turns, hints, given>>
  BY DEF SaveElsewhere, queueVars, clientVars
<1>2. OpenFact' = OpenFact /\ OpenFact \in {0, 1} /\ edits \in Nat
  BY <1>1, ForgetWay DEF OpenFact
<1>3. edits' \in Nat /\ edits' + OpenFact' <= edits + OpenFact + 1
  <2>1. PICK o \in Nat : o = OpenFact
    BY <1>2
  <2>2. edits + 1 + o <= edits + o + 1
    BY <1>2, <2>1
  <2> QED BY <1>1, <1>2, <2>1, <2>2
<1> QED BY <1>1, <1>3, CallKept

\* A step of the threads that starts or ends no thread's work.
LEMMA ThreadKept ==
  ASSUME ForgetInv,
         UNCHANGED <<queue, processing, batch, turns, hints, given, step, op, edits>>,
         calls' \in Nat, calls <= calls',
         \A t \in Timer : pc'[t] = "working" <=> pc[t] = "working"
  PROVE  WayInv'
<1>1. /\ TypeOK /\ ContextType /\ WorkInv /\ TurnInv /\ KeptInv /\ BudgetInv
      /\ calls \in Nat /\ edits \in Nat
  BY ForgetWay DEF ForgetInv, WayInv
<1>2. WorkInv' /\ TurnInv' /\ KeptInv'
  BY <1>1, ThreadStep
<1>3. ContextType'
  BY <1>1 DEF ContextType
<1>4. edits' + OpenFact' + calls <= edits + OpenFact + calls'
  <2>1. OpenFact' = OpenFact /\ OpenFact \in Nat
    BY DEF OpenFact
  <2> HIDE DEF OpenFact
  <2>2. PICK o \in Nat : o = OpenFact
    BY <2>1
  <2>3. PICK d \in Nat : d = calls'
    OBVIOUS
  <2>4. calls <= d
    BY <2>3
  <2>5. edits + o + calls <= edits + o + d
    BY <1>1, <2>4
  <2> QED BY <2>1, <2>2, <2>3, <2>5
<1>5. BudgetInv'
  BY <1>1, <1>4, BudgetStep
<1> QED BY <1>2, <1>3, <1>5 DEF WayInv

LEMMA ScheduleWorks ==
  ASSUME TypeOK, NEW t \in Timer, pc[t] # "working", Schedule(t)
  PROVE  \A u \in Timer : pc'[u] = "working" <=> pc[u] = "working"
BY DEF TypeOK, Schedule, Cancelled

LEMMA ThreadIdle ==
  ASSUME TypeOK, Idle # {}
  PROVE  Thread \in Timer /\ pc[Thread] = "none"
<1>1. Thread \in Idle
  BY DEF Thread
<1> QED BY <1>1 DEF Idle

LEMMA FlushesKept ==
  ASSUME ForgetInv, Flush \/ FlushNowait
  PROVE  WayInv'
<1>1. TypeOK /\ Thread \in Timer /\ pc[Thread] = "none" /\ calls \in Nat
  BY ThreadIdle, ForgetWay DEF Flush, FlushNowait, ForgetInv
<1>2. UNCHANGED <<queue, processing, batch, turns, hints, given, step, op, edits>> /\ MayCall
  BY DEF Flush, FlushNowait, clientVars
<1>3. calls' \in Nat /\ calls <= calls'
  BY <1>1, <1>2, CallsType
<1>4. \A t \in Timer : pc'[t] = "working" <=> pc[t] = "working"
  <2>1. CASE Flush
    BY <1>1, <2>1 DEF Flush, Cancelled, TypeOK
  <2>2. CASE FlushNowait
    BY <1>1, <2>2, ScheduleWorks DEF FlushNowait
  <2> QED BY <2>1, <2>2
<1> QED BY <1>2, <1>3, <1>4, ThreadKept

LEMMA FireKept ==
  ASSUME ForgetInv, NEW t \in Timer, Fire(t)
  PROVE  WayInv'
<1>1. UNCHANGED <<queue, processing, batch, turns, hints, given, step, op, edits, calls>>
  BY DEF Fire, clientVars, used
<1>2. calls' \in Nat /\ calls <= calls'
  BY <1>1, ForgetWay
<1>3. \A u \in Timer : pc'[u] = "working" <=> pc[u] = "working"
  BY DEF Fire, ForgetInv, TypeOK
<1> QED BY <1>1, <1>2, <1>3, ThreadKept

\* A thread takes the queue.
LEMMA TakeKept ==
  ASSUME ForgetInv, NEW t \in Timer, pc[t] = "fired", ~processing,
         processing' = TRUE, batch' = [batch EXCEPT ![t] = queue], queue' = <<>>, queue # <<>>,
         pc' = [pc EXCEPT ![t] = "working"],
         UNCHANGED <<turns, hints, given, step, op, edits, calls>>
  PROVE  WayInv'
<1>1. /\ TypeOK /\ ContextType /\ WorkInv /\ TurnInv /\ KeptInv /\ BudgetInv
      /\ calls \in Nat /\ edits \in Nat
  BY ForgetWay DEF ForgetInv, WayInv
<1>2. \A u \in Timer : pc[u] # "working" /\ batch[u] = <<>> /\ step[u] = "none"
  BY <1>1 DEF WorkInv
<1>3. /\ queue \in Seq(Context) /\ batch' \in [Timer -> Seq(Context)] /\ pc' \in [Timer -> {"none", "armed", "fired", "working"}]
      /\ batch'[t] = queue /\ pc'[t] = "working"
      /\ \A u \in Timer : u # t => batch'[u] = <<>> /\ pc'[u] # "working"
      /\ \A u \in Timer : ~Asked(u)'
  BY <1>1, <1>2 DEF ContextType, TypeOK, Asked
<1>4. ContextType'
  BY <1>1, <1>3 DEF ContextType
<1>5. WorkInv'
  BY <1>2, <1>3 DEF WorkInv
<1>6. TurnInv'
  <2>1. \A i \in 1..Len(queue) : queue[i] \in Context
    BY <1>3
  <2>2. ASSUME NEW i \in 1..Len(queue)
        PROVE  /\ given[queue[i].conv] <= queue[i].turn /\ queue[i].turn <= turns[queue[i].conv]
    <3>1. queue[i].conv \in Conversation /\ queue[i].turn \in 1..MaxCalls
      BY <2>1 DEF Context
    <3> QED BY <1>1, <3>1, MemoryAssumption DEF TurnInv, ContextType
  <2>3. ASSUME NEW u \in Timer, NEW i \in 1..Len(batch'[u])
        PROVE  given[batch'[u][i].conv] <= batch'[u][i].turn /\ batch'[u][i].turn <= turns[batch'[u][i].conv]
    <3>1. u = t
      BY <1>3, <2>3
    <3> QED BY <1>3, <2>2, <3>1
  <2>4. ASSUME NEW u \in Timer, NEW i \in 1..Len(batch'[u]), NEW j \in 1..Len(batch'[u]),
               batch'[u][i].conv = batch'[u][j].conv
        PROVE  i = j
    <3>1. u = t
      BY <1>3, <2>4
    <3> QED BY <1>1, <1>3, <2>4, <3>1 DEF ContextType
  <2> QED BY <1>1, <2>3, <2>4 DEF TurnInv
<1>7. ASSUME NEW x, Ahead(x) PROVE Ahead(x)'
  <2>1. \E i \in 1..Len(queue) : queue[i] = x
    BY <1>2, <1>7 DEF Ahead
  <2> QED BY <1>3, <2>1 DEF Ahead
<1>8. KeptInv'
  BY <1>1, <1>7 DEF KeptInv
<1>9. BudgetInv'
  <2>1. OpenFact' = OpenFact /\ OpenFact \in Nat /\ Len(queue) \in Nat
    BY <1>3 DEF OpenFact
  <2>2. edits + Len(queue) + OpenFact <= calls
    BY <1>1 DEF BudgetInv
  <2>3. Len(queue') = 0 /\ Open(t)' = Len(queue) - 0 /\ \A u \in Timer : u # t => Open(u)' = 0
    BY <1>2, <1>3, <2>1 DEF Open
  <2> HIDE DEF OpenFact, Open
  <2>4. PICK n \in Nat, o \in Nat : n = Len(queue) /\ o = OpenFact
    BY <2>1
  <2>5. edits + n + o <= calls
    BY <2>2, <2>4
  <2>6. edits + 0 + o + (n - 0) <= calls /\ edits + 0 + o + 0 <= calls /\ edits + 0 + o <= calls
    BY <1>1, <2>5
  <2>7. ASSUME NEW u \in Timer PROVE (edits + Len(queue) + OpenFact + Open(u) <= calls)'
    BY <2>1, <2>3, <2>4, <2>6
  <2> QED BY <2>1, <2>3, <2>4, <2>6, <2>7 DEF BudgetInv
<1> QED BY <1>4, <1>5, <1>6, <1>8, <1>9 DEF WayInv

LEMMA ProcessQueueKept ==
  ASSUME ForgetInv, NEW t \in Timer, ProcessQueue(t)
  PROVE  WayInv'
<1>1. TypeOK /\ calls \in Nat
  BY ForgetWay DEF ForgetInv
<1>2. pc[t] = "fired" /\ UNCHANGED <<turns, hints, given, step, op, edits, calls>>
  BY DEF ProcessQueue, clientVars, used
<1>3. calls' \in Nat /\ calls <= calls'
  BY <1>1, <1>2
<1>4. CASE Busy /\ TryAgain(t) /\ UNCHANGED <<queue, processing, batch>>
  BY <1>1, <1>2, <1>3, <1>4, ScheduleWorks, ThreadKept DEF TryAgain
<1>5. CASE pc' = [pc EXCEPT ![t] = "none"] /\ UNCHANGED <<queue, timer, processing, batch>>
  <2>1. \A u \in Timer : pc'[u] = "working" <=> pc[u] = "working"
    BY <1>1, <1>2, <1>5 DEF TypeOK
  <2> QED BY <1>2, <1>3, <1>5, <2>1, ThreadKept
<1>6. CASE /\ ~Busy /\ queue # <<>> /\ processing' = TRUE /\ batch' = [batch EXCEPT ![t] = queue]
           /\ queue' = <<>> /\ pc' = [pc EXCEPT ![t] = "working"]
  BY <1>2, <1>6, TakeKept DEF Busy
<1> QED BY <1>4, <1>5, <1>6 DEF ProcessQueue

LEMMA ProcessedKept ==
  ASSUME ForgetInv, NEW t \in Timer, Processed(t)
  PROVE  WayInv'
<1>1. /\ TypeOK /\ ContextType /\ WorkInv /\ TurnInv /\ KeptInv /\ BudgetInv
      /\ calls \in Nat /\ edits \in Nat
  BY ForgetWay DEF ForgetInv, WayInv
<1>2. /\ pc[t] = "working" /\ batch[t] = <<>> /\ processing' = FALSE /\ pc' = [pc EXCEPT ![t] = "none"]
      /\ UNCHANGED <<queue, batch, turns, hints, given, step, op, edits, calls>>
  BY DEF Processed, Reset, clientVars, used
<1>3. \A u \in Timer : pc[u] = "working" => u = t
  BY <1>1, <1>2 DEF WorkInv
<1>4. \A u \in Timer : pc'[u] # "working"
  BY <1>1, <1>2, <1>3 DEF TypeOK
<1>5. \A u \in Timer : batch[u] = <<>> /\ step[u] = "none"
  BY <1>1, <1>2, <1>3 DEF WorkInv
<1>6. WorkInv'
  BY <1>2, <1>4, <1>5 DEF WorkInv
<1>7. ContextType'
  BY <1>1, <1>2 DEF ContextType
<1>8. TurnInv' /\ KeptInv'
  <2>1. calls' \in Nat /\ calls <= calls' /\ \A u \in Timer : Asked(u)' <=> Asked(u)
    BY <1>1, <1>2 DEF Asked
  <2> QED BY <1>1, <1>2, <2>1, UnmovedStep
<1>9. BudgetInv'
  BY <1>1, <1>2 DEF BudgetInv, OpenFact, Open
<1> QED BY <1>6, <1>7, <1>8, <1>9 DEF WayInv

\* The model is given the first context of the batch.
LEMMA InvokeKept ==
  ASSUME ForgetInv, NEW t \in Timer, Invoke(t)
  PROVE  WayInv' /\ \A v \in Conversation : given'[v] >= given[v]
<1>1. /\ TypeOK /\ ContextType /\ WorkInv /\ TurnInv /\ KeptInv /\ BudgetInv
      /\ StorageType /\ calls \in Nat /\ edits \in Nat
  BY ForgetWay DEF ForgetInv, WayInv
<1> DEFINE x == batch[t][1]
<1>2. t \in Client /\ Api \in Client /\ t # Api /\ step \in [Client -> Step]
  BY <1>1, MemoryAssumption DEF Client, StorageType
<1>3. batch[t] \in Seq(Context) /\ batch[t] # <<>>
  BY <1>1 DEF WorkInv, ContextType, Invoke
<1>4. Head(batch[t]) = x /\ x \in Context /\ 1 \in 1..Len(batch[t])
  BY <1>3, TailContexts
<1>5. /\ step[t] = "loaded" /\ step' = [step EXCEPT ![t] = "invoke"]
      /\ given' = [given EXCEPT ![x.conv] = x.turn]
      /\ hints' = IF x.corrected THEN hints \ {x.conv} ELSE hints
      /\ UNCHANGED <<queue, processing, pc, batch, turns, op, calls, edits>>
  BY <1>4 DEF Invoke, Goto, used
<1>6. /\ x.conv \in Conversation /\ x.turn \in 1..MaxCalls
      /\ given[x.conv] <= x.turn /\ x.turn <= turns[x.conv]
  BY <1>1, <1>4 DEF Context, TurnInv
<1> HIDE DEF x
<1>7. ContextType'
  <2>1. given' \in [Conversation -> 0..MaxCalls]
    BY <1>1, <1>5, <1>6, MemoryAssumption DEF ContextType
  <2> QED BY <1>1, <1>5, <2>1 DEF ContextType
<1>8. \A v \in Conversation : given[v] \in Nat /\ given'[v] \in Nat /\ turns[v] \in Nat
  BY <1>1, <1>7, MemoryAssumption DEF ContextType
<1>9. \A v \in Conversation : given'[v] = IF v = x.conv THEN x.turn ELSE given[v]
  BY <1>1, <1>5 DEF ContextType
<1>10. \A v \in Conversation : given'[v] >= given[v]
  BY <1>6, <1>8, <1>9
<1>11. step'[t] = "invoke" /\ \A c \in Client : c # t => step'[c] = step[c]
  BY <1>2, <1>5
<1>12. WorkInv'
  BY <1>1, <1>3, <1>5, <1>11 DEF WorkInv, Client
<1>13. TurnInv'
  <2>1. ASSUME NEW v \in Conversation PROVE given'[v] <= turns[v]
    BY <1>1, <1>6, <1>9 DEF TurnInv
  <2>2. ASSUME NEW u \in Timer, NEW i \in 1..Len(batch[u])
        PROVE  given'[batch[u][i].conv] <= batch[u][i].turn
    <3>1. batch[u] \in Seq(Context) /\ batch[u][i] \in Context /\ u = t
      BY <1>1, <1>3, <2>2 DEF ContextType, WorkInv
    <3>2. batch[u][i].conv \in Conversation /\ batch[u][i].turn \in 1..MaxCalls
      BY <3>1 DEF Context
    <3>3. CASE batch[u][i].conv = x.conv
      <4>1. i = 1
        BY <1>1, <1>4, <3>1, <3>3 DEF TurnInv, x
      <4>2. batch[u][i].turn = x.turn
        BY <3>1, <4>1 DEF x
      <4> QED BY <1>9, <3>2, <3>3, <4>2
    <3>4. CASE batch[u][i].conv # x.conv
      BY <1>1, <1>9, <3>2, <3>4 DEF TurnInv
    <3> QED BY <3>3, <3>4
  <2> QED BY <1>1, <1>5, <2>1, <2>2 DEF TurnInv
<1>14. ASSUME NEW y, Ahead(y) PROVE Ahead(y)' \/ y = x
  <2>1. CASE \E i \in 1..Len(queue) : queue[i] = y
    BY <1>5, <2>1 DEF Ahead
  <2>2. CASE \E u \in Timer : \E i \in 1..Len(batch[u]) : batch[u][i] = y /\ (i > 1 \/ ~Asked(u))
    <3>1. PICK u \in Timer : \E i \in 1..Len(batch[u]) : batch[u][i] = y /\ (i > 1 \/ ~Asked(u))
      BY <2>2
    <3>2. PICK i \in 1..Len(batch[u]) : batch[u][i] = y /\ (i > 1 \/ ~Asked(u))
      BY <3>1
    <3>3. CASE u = t
      <4>1. CASE i = 1
        BY <3>2, <3>3, <4>1 DEF x
      <4>2. CASE i # 1
        <5>1. i > 1
          BY <1>1, <3>2, <4>2 DEF ContextType
        <5> QED BY <1>5, <3>2, <5>1 DEF Ahead
      <4> QED BY <4>1, <4>2
    <3>4. CASE u # t
      <4>1. u \in Client /\ step'[u] = step[u]
        BY <1>11, <3>4 DEF Client
      <4>2. Asked(u)' <=> Asked(u)
        BY <4>1 DEF Asked
      <4> QED BY <1>5, <3>2, <4>2 DEF Ahead
    <3> QED BY <3>3, <3>4
  <2> QED BY <1>14, <2>1, <2>2 DEF Ahead
<1>15. KeptInv'
  <2>1. ASSUME NEW v \in Conversation, given'[v] # turns[v]
        PROVE  \E y \in Context : Ahead(y)' /\ y.conv = v /\ y.turn = turns[v]
    <3>1. given[v] # turns[v]
      BY <1>6, <1>8, <1>9, <2>1
    <3>2. PICK y \in Context : Ahead(y) /\ y.conv = v /\ y.turn = turns[v]
      BY <1>1, <3>1 DEF KeptInv
    <3>3. y # x
      BY <1>9, <2>1, <3>2
    <3> QED BY <1>14, <3>2, <3>3
  <2>2. ASSUME NEW v \in Conversation, v \in hints'
        PROVE  \E y \in Context : Ahead(y)' /\ y.conv = v /\ y.corrected
    <3>1. v \in hints /\ (x.corrected => v # x.conv)
      BY <1>5, <2>2
    <3>2. PICK y \in Context : Ahead(y) /\ y.conv = v /\ y.corrected
      BY <1>1, <3>1 DEF KeptInv
    <3>3. y # x
      BY <3>1, <3>2
    <3> QED BY <1>14, <3>2, <3>3
  <2> QED BY <1>5, <2>1, <2>2 DEF KeptInv
<1>16. BudgetInv'
  <2>1. OpenFact' = OpenFact /\ OpenFact \in Nat
    BY <1>2, <1>5, <1>11 DEF OpenFact
  <2>2. ASSUME NEW u \in Timer PROVE Open(u)' = Open(u)
    BY <1>5, <1>11 DEF Open, Client
  <2> HIDE DEF OpenFact
  <2> QED BY <1>1, <1>5, <2>1, <2>2 DEF BudgetInv
<1> QED BY <1>7, <1>10, <1>12, <1>13, <1>15, <1>16 DEF WayInv

\* The last context of a conversation replaces the one queued, and takes over
\* its flag.
LEMMA AddKept ==
  ASSUME ForgetInv, NEW v \in Conversation, NEW corrected \in BOOLEAN, Add(v, corrected)
  PROVE  WayInv'
<1>1. /\ TypeOK /\ ContextType /\ WorkInv /\ TurnInv /\ KeptInv /\ BudgetInv
      /\ calls \in Nat /\ edits \in Nat /\ MaxCalls \in Nat
  BY ForgetWay, CallType DEF ForgetInv, WayInv
<1>2. Thread \in Timer /\ pc[Thread] = "none" /\ MayCall /\ Schedule(Thread) /\ Enqueue(v, corrected)
  BY <1>1, ThreadIdle DEF Add
<1> DEFINE o == Others(v)
<1>0. PICK x : x = [conv |-> v, turn |-> turns[v] + 1, corrected |-> Corrected(v, corrected)]
  OBVIOUS
<1>3. /\ queue' = Append(o, x) /\ turns' = [turns EXCEPT ![v] = @ + 1]
      /\ hints' = IF corrected THEN hints \cup {v} ELSE hints
      /\ UNCHANGED <<processing, batch, given, step, op, edits>>
  BY <1>0, <1>2 DEF Enqueue, Add, clientVars
<1>4. calls' = calls + 1 /\ calls' \in Nat /\ calls + 1 <= MaxCalls /\ calls <= calls'
  BY <1>1, <1>2, CallsType DEF MayCall
<1>5. \A u \in Timer : pc'[u] = "working" <=> pc[u] = "working"
  BY <1>1, <1>2, ScheduleWorks
<1>6. /\ turns \in [Conversation -> 0..MaxCalls] /\ given \in [Conversation -> 0..MaxCalls]
      /\ queue \in Seq(Context) /\ batch \in [Timer -> Seq(Context)]
      /\ \A i, j \in 1..Len(queue) : queue[i].conv = queue[j].conv => i = j
  BY <1>1 DEF ContextType
<1>7. /\ \A w \in Conversation : turns[w] \in Nat /\ turns[w] <= calls /\ given[w] \in Nat /\ given[w] <= turns[w]
      /\ turns'[v] = turns[v] + 1 /\ \A w \in Conversation : w # v => turns'[w] = turns[w]
  BY <1>1, <1>3, <1>6 DEF TurnInv
<1>8. turns' \in [Conversation -> 0..MaxCalls] /\ turns[v] + 1 \in 1..MaxCalls
  <2>1. turns[v] + 1 \in 1..MaxCalls
    BY <1>1, <1>4, <1>7
  <2> QED BY <1>1, <1>3, <1>6, <2>1
<1>9. /\ x \in Context /\ x.conv = v /\ x.turn = turns[v] + 1
      /\ x.corrected = Corrected(v, corrected)
  <2>1. Corrected(v, corrected) \in BOOLEAN
    BY DEF Corrected
  <2> QED BY <1>0, <1>8, <2>1 DEF Context
<1>10. /\ o \in Seq(Context) /\ Len(o) <= Len(queue)
       /\ \A i \in 1..Len(o) : o[i].conv # v /\ \E k \in 1..Len(queue) : o[i] = queue[k]
       /\ \A i, j \in 1..Len(o) : o[i].conv = o[j].conv => i = j
       /\ \A k \in 1..Len(queue) : queue[k].conv # v => \E i \in 1..Len(o) : o[i] = queue[k]
  BY <1>6, OthersQueue
<1> HIDE DEF o
<1>11. /\ queue' \in Seq(Context) /\ Len(o) \in Nat /\ Len(queue') = Len(o) + 1
       /\ \A i \in 1..Len(o) : queue'[i] = o[i]
       /\ queue'[Len(o) + 1] = x
  BY <1>3, <1>9, <1>10, AppendProperties, LenProperties
<1>12. \A i \in 1..Len(queue') : i \in 1..Len(o) \/ i = Len(o) + 1
  BY <1>11
<1>13. ContextType'
  <2>1. ASSUME NEW i \in 1..Len(queue'), NEW j \in 1..Len(queue'), queue'[i].conv = queue'[j].conv
        PROVE  i = j
    BY <1>9, <1>10, <1>11, <1>12, <2>1, SMTT(30)
  <2> QED BY <1>3, <1>6, <1>8, <1>11, <2>1 DEF ContextType
<1>14. WorkInv'
  BY <1>1, <1>3, <1>5 DEF WorkInv
<1>15. TurnInv'
  <2>1. ASSUME NEW w \in Conversation PROVE given[w] <= turns'[w] /\ turns'[w] <= calls'
    BY <1>1, <1>4, <1>7
  <2>2. ASSUME NEW i \in 1..Len(queue') PROVE queue'[i].turn = turns'[queue'[i].conv]
    <3>1. CASE i = Len(o) + 1
      BY <1>7, <1>9, <1>11, <3>1
    <3>2. CASE i \in 1..Len(o)
      <4>1. PICK k \in 1..Len(queue) : o[i] = queue[k]
        BY <1>10, <3>2
      <4>2. queue[k] \in Context /\ queue[k].conv # v /\ queue[k].conv \in Conversation
        <5>1. queue[k] \in Context /\ queue[k].conv # v
          BY <1>6, <1>10, <3>2, <4>1
        <5> QED BY <5>1 DEF Context
      <4>3. queue[k].turn = turns[queue[k].conv]
        BY <1>1 DEF TurnInv
      <4> QED BY <1>7, <1>11, <3>2, <4>1, <4>2, <4>3
    <3> QED BY <1>12, <3>1, <3>2
  <2>3. ASSUME NEW t \in Timer, NEW i \in 1..Len(batch[t])
        PROVE  batch[t][i].turn <= turns'[batch[t][i].conv]
    <3>1. batch[t][i].conv \in Conversation /\ batch[t][i].turn \in 1..MaxCalls
      <4>1. batch[t] \in Seq(Context) /\ batch[t][i] \in Context
        BY <1>6
      <4> QED BY <4>1 DEF Context
    <3>2. batch[t][i].turn <= turns[batch[t][i].conv]
      BY <1>1 DEF TurnInv
    <3>3. CASE batch[t][i].conv = v
      <4>1. batch[t][i].turn <= turns[v]
        BY <3>2, <3>3
      <4>2. batch[t][i].turn <= turns[v] + 1
        BY <1>1, <1>7, <3>1, <4>1
      <4> QED BY <1>7, <3>3, <4>2
    <3>4. CASE batch[t][i].conv # v
      BY <1>7, <3>1, <3>2, <3>4
    <3> QED BY <3>3, <3>4
  <2> QED BY <1>1, <1>3, <2>1, <2>2, <2>3 DEF TurnInv
<1>16. Ahead(x)'
  <2>1. Len(o) + 1 \in 1..Len(queue')
    BY <1>11
  <2> QED BY <1>11, <2>1 DEF Ahead
<1>17. ASSUME NEW y, Ahead(y)
       PROVE  Ahead(y)' \/ (y.conv = v /\ \E k \in 1..Len(queue) : queue[k] = y)
  <2>1. CASE \E k \in 1..Len(queue) : queue[k] = y
    <3>1. PICK k \in 1..Len(queue) : queue[k] = y
      BY <2>1
    <3>2. CASE y.conv # v
      <4>1. PICK i \in 1..Len(o) : o[i] = y
        BY <1>10, <3>1, <3>2
      <4>2. i \in 1..Len(queue') /\ queue'[i] = y
        BY <1>11, <4>1
      <4> QED BY <4>2 DEF Ahead
    <3> QED BY <3>1, <3>2
  <2>2. CASE \E t \in Timer : \E i \in 1..Len(batch[t]) : batch[t][i] = y /\ (i > 1 \/ ~Asked(t))
    BY <1>3, <2>2 DEF Ahead, Asked
  <2> QED BY <1>17, <2>1, <2>2 DEF Ahead
<1>18. KeptInv'
  <2>1. ASSUME NEW w \in Conversation, given[w] # turns'[w]
        PROVE  \E y \in Context : Ahead(y)' /\ y.conv = w /\ y.turn = turns'[w]
    <3>1. CASE w = v
      BY <1>7, <1>9, <1>16, <3>1
    <3>2. CASE w # v
      BY <1>1, <1>7, <1>17, <2>1, <3>2 DEF KeptInv
    <3> QED BY <3>1, <3>2
  <2>2. ASSUME NEW w \in Conversation, w \in hints'
        PROVE  \E y \in Context : Ahead(y)' /\ y.conv = w /\ y.corrected
    <3>1. CASE w = v /\ x.corrected
      BY <1>9, <1>16, <3>1
    <3>2. CASE w = v /\ ~x.corrected
      <4>1. ~corrected /\ \A k \in 1..Len(queue) : queue[k].conv = v => ~queue[k].corrected
        BY <1>9, <3>2 DEF Corrected, Queued
      <4>2. w \in hints
        BY <1>3, <2>2, <4>1
      <4>3. PICK y \in Context : Ahead(y) /\ y.conv = w /\ y.corrected
        BY <1>1, <4>2 DEF KeptInv
      <4>4. Ahead(y)'
        BY <1>17, <3>2, <4>1, <4>3
      <4> QED BY <4>3, <4>4
    <3>3. CASE w # v
      <4>1. w \in hints
        BY <1>3, <2>2, <3>3
      <4>2. PICK y \in Context : Ahead(y) /\ y.conv = w /\ y.corrected
        BY <1>1, <4>1 DEF KeptInv
      <4> QED BY <1>17, <3>3, <4>2
    <3> QED BY <3>1, <3>2, <3>3
  <2> QED BY <1>3, <2>1, <2>2 DEF KeptInv
<1>19. BudgetInv'
  <2>1. OpenFact' = OpenFact /\ OpenFact \in {0, 1} /\ \A t \in Timer : Open(t)' = Open(t) /\ Open(t) \in Int
    BY <1>3, <1>6 DEF OpenFact, Open
  <2> HIDE DEF OpenFact, Open
  <2>2. Len(queue) \in Nat /\ Len(queue') \in Nat /\ Len(queue') <= Len(queue) + 1
    BY <1>6, <1>10, <1>11
  <2>3. PICK n \in Nat, m \in Nat, f \in Nat : n = Len(queue) /\ m = Len(queue') /\ f = OpenFact
    BY <2>1, <2>2
  <2>4. m <= n + 1
    BY <2>2, <2>3
  <2>5. edits + n + f <= calls /\ \A t \in Timer : edits + n + f + Open(t) <= calls
    BY <1>1, <2>3 DEF BudgetInv
  <2>6. edits + m + f <= calls + 1
    BY <1>1, <2>4, <2>5
  <2>7. ASSUME NEW t \in Timer PROVE (edits + Len(queue) + OpenFact + Open(t) <= calls)'
    <3>1. PICK a \in Int : a = Open(t)
      BY <2>1
    <3>2. edits + n + f + a <= calls
      BY <2>5, <3>1
    <3>3. edits + m + f + a <= calls + 1
      BY <1>1, <2>4, <3>2
    <3> QED BY <1>3, <1>4, <2>1, <2>3, <3>1, <3>3
  <2> QED BY <1>3, <1>4, <2>1, <2>3, <2>6, <2>7 DEF BudgetInv
<1> QED BY <1>13, <1>14, <1>15, <1>18, <1>19 DEF WayInv

LEMMA StoreKept ==
  ASSUME ForgetInv, NEW c \in Client, Store(c) \/ ReplaceFails(c)
  PROVE  WayInv'
<1>1. UNCHANGED <<queue, processing, pc, turns, hints, given, edits, calls>>
  BY DEF Store, ReplaceFails, used
<1>2. CASE Store(c) /\ c = Api /\ op = "import"
  <2>1. step' = [step EXCEPT ![Api] = "stat"] /\ op' = "get" /\ batch' = batch /\ Api \notin Timer
    BY <1>2, MemoryAssumption DEF Store, Goto
  <2>2. ~(OpenFact' = 1)
    BY <2>1 DEF OpenFact
  <2> QED BY <1>1, <1>2, <2>1, <2>2, QuietStep
<1>3. CASE ~(Store(c) /\ c = Api /\ op = "import")
  <2>1. Done(c) /\ op' = op /\ step[c] \in {"replace", "store"}
    BY <1>3 DEF Store, ReplaceFails
  <2>2. CASE c = Api
    BY <1>1, <2>1, <2>2, DoneApi
  <2>3. CASE c # Api
    <3>1. c \in Timer /\ Asked(c)
      BY <2>1, <2>3 DEF Client, Asked
    <3> QED BY <1>1, <2>1, <3>1, DoneThread
  <2> QED BY <2>2, <2>3
<1> QED BY <1>2, <1>3

LEMMA StorageKept ==
  ASSUME ForgetInv, NEW c \in Client, Storage(c)
  PROVE  WayInv'
BY QuietStorage, StoreKept DEF Storage

LEMMA FinalizeKept ==
  ASSUME ForgetInv, NEW t \in Timer, Finalize(t)
  PROVE  WayInv'
<1>1. step[t] = "invoke" /\ Asked(t) /\ UNCHANGED <<queue, processing, pc, turns, hints, given, op>>
  BY DEF Finalize, Asked
<1>2. CASE Edit(t) /\ batch' = batch
  BY <1>1, <1>2, EditThread
<1>3. CASE Done(t) /\ UNCHANGED used
  BY <1>1, <1>3, DoneThread DEF used
<1> QED BY <1>2, <1>3 DEF Finalize, EditCopy

LEMMA RespondKept ==
  ASSUME ForgetInv, Respond
  PROVE  WayInv'
<1>1. step[Api] = "loaded" /\ UNCHANGED <<queue, processing, pc, turns, hints, given, op>>
  BY DEF Respond
<1>2. CASE op = "fact" /\ Edit(Api) /\ batch' = batch
  BY <1>1, <1>2, EditApi
<1>3. CASE Done(Api) /\ UNCHANGED used
  BY <1>1, <1>3, DoneApi DEF used
<1> QED BY <1>2, <1>3 DEF Respond, EditCopy

LEMMA WorkKept ==
  ASSUME ForgetInv, NEW t \in Timer, Work(t)
  PROVE  WayInv'
<1>1. t \in Client
  BY DEF Client
<1> QED BY <1>1, FireKept, ProcessQueueKept, ProcessedKept, PrepareKept, InvokeKept, FinalizeKept, StorageKept DEF Work

LEMMA NextForget == ForgetInv /\ [Next]_vars => ForgetInv'
<1> SUFFICES ASSUME ForgetInv, [Next]_vars PROVE ForgetInv'
  OBVIOUS
<1>1. StorageInv' /\ PlainType'
  BY NextStorage, NextPlain DEF ForgetInv
<1>2. WayInv'
  <2>1. CASE UNCHANGED vars
    <3>1. WayInv
      BY ForgetWay
    <3> QED BY <2>1, <3>1 DEF vars, queueVars, clientVars, used, WayInv, ContextType, WorkInv, TurnInv, KeptInv,
                              Ahead, Asked, BudgetInv, Open, OpenFact
  <2>2. CASE Serve
    BY <2>2, StorageKept, ReloadKept, RespondKept DEF Serve, Client
  <2> QED BY <2>1, <2>2, AddKept, FlushesKept, WorkKept, RequestKept, SaveElsewhereKept DEF Next
<1> QED BY <1>1, <1>2, ForgetParts, PTL DEF WayInv

LEMMA ForgetInvariant == Spec => []ForgetInv
BY InitForget, NextForget, PTL DEF Spec

\* What the user said last, and every correction, stays queued or in the hands
\* of a thread until the model is given it: however turns of a conversation
\* replace each other, and whenever threads take the queue.
THEOREM NothingIsForgotten == Spec => []NothingForgotten
<1>1. ForgetInv => NothingForgotten
  <2> SUFFICES ASSUME ForgetInv PROVE NothingForgotten
    OBVIOUS
  <2>1. TypeOK /\ KeptInv
    BY DEF ForgetInv
  <2>2. ASSUME NEW x, Ahead(x) PROVE x \in Waiting
    BY <2>2 DEF Ahead, Waiting
  <2>3. LastTurnKept
    BY <2>1, <2>2 DEF LastTurnKept, KeptInv
  <2>4. CorrectionKept
    <3>1. ASSUME NEW v \in hints PROVE \E x \in Waiting : x.conv = v /\ x.corrected
      <4>1. v \in Conversation
        BY <2>1 DEF TypeOK
      <4>2. PICK x \in Context : Ahead(x) /\ x.conv = v /\ x.corrected
        BY <2>1, <4>1 DEF KeptInv
      <4> QED BY <2>2, <4>2
    <3> QED BY <3>1 DEF CorrectionKept
  <2> QED BY <2>1, <2>3, <2>4 DEF NothingForgotten
<1> QED BY <1>1, ForgetInvariant, PTL

LEMMA GivenStep ==
  ASSUME ForgetInv, [Next]_vars
  PROVE  \A v \in Conversation : given'[v] >= given[v]
<1>1. \A v \in Conversation : given[v] \in Nat
  BY TypeParts, MemoryAssumption DEF ForgetInv, ContextType
<1>2. ASSUME given' = given PROVE \A v \in Conversation : given'[v] >= given[v]
  BY <1>1, <1>2
<1>3. ASSUME NEW c, Storage(c) PROVE given' = given
  BY <1>3 DEF Storage, Stat, Look, Read, Fill, Replace, ReplaceFails, Restat, Store, queueVars
<1>4. ASSUME NEW t \in Timer, Work(t), ~Invoke(t) PROVE given' = given
  BY <1>3, <1>4 DEF Work, Fire, ProcessQueue, Processed, Prepare, Finalize, queueVars
<1>5. CASE Serve
  BY <1>2, <1>3, <1>5 DEF Serve, Reload, Respond, queueVars
<1>6. ASSUME NEW v \in Conversation, NEW b \in BOOLEAN, Add(v, b) PROVE given' = given
  BY <1>6 DEF Add
<1>7. ASSUME NEW o, Request(o) PROVE given' = given
  BY <1>7 DEF Request, queueVars
<1>8. CASE Flush \/ FlushNowait \/ SaveElsewhere \/ UNCHANGED vars
  BY <1>2, <1>8 DEF Flush, FlushNowait, SaveElsewhere, queueVars, vars
<1> QED BY <1>2, <1>4, <1>5, <1>6, <1>7, <1>8, InvokeKept DEF Next

\* The model is never given a conversation older than one it was given: one
\* thread works at a time, and a batch has a conversation once.
THEOREM ModelSeesTurnsInOrder == Spec => TurnsInOrder
<1>1. ForgetInv /\ [Next]_vars => [\A v \in Conversation : given'[v] >= given[v]]_vars
  BY GivenStep
<1> QED BY <1>1, ForgetInvariant, PTL DEF Spec, TurnsInOrder

=============================================================================
