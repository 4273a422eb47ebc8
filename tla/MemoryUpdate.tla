---------------------------- MODULE MemoryUpdate ----------------------------
(***************************************************************************)
(* The memory of one user: MemoryUpdateQueue (agents/memory/queue.py) with *)
(* its timer threads, MemoryUpdater (updater.py), the handlers of the      *)
(* memory API, and FileMemoryStorage (storage.py) under all of them.       *)
(*                                                                         *)
(* A conversation is a debounce key; all of them share one memory file.  A *)
(* section under _lock or _cache_lock, a stat, a read or a replacement of  *)
(* the file is one step.  What a memory says is the number of the edit     *)
(* that made it, or 0 for the empty one; mtime counts the states of the    *)
(* file, beginning with none at all.                                       *)
(*                                                                         *)
(* Left out: delays (an armed timer may run at any time), clear() (only    *)
(* tests call it), two writes within one tick of the file system's clock,  *)
(* and the end of the process, which loses the queue.                      *)
(***************************************************************************)
EXTENDS Naturals, Sequences

CONSTANTS
    Conversation,
    Timer,        \* threads that run _process_queue
    MaxCalls      \* calls of add, add_nowait, flush and flush_nowait, requests
                  \* of the memory API, writes of other processes, and stats
                  \* and reads of the file that fail

Api == "api"
Cache == "cache"

ASSUME MemoryAssumption == MaxCalls \in Nat /\ {Api, Cache} \cap Timer = {}

VARIABLES
    queue,       \* _queue
    timer,       \* _timer
    processing,  \* _processing
    pc,          \* per thread: none, armed, fired or working
    batch,       \* per thread, the contexts it still has to process
    turns,       \* per conversation, its last turn
    hints,       \* conversations whose correction no model call has seen
    given,       \* per conversation, the last turn a model call was given
    file,        \* the memory file
    cache,       \* _memory_cache
    step,        \* per client of the storage, what it does next
    held,        \* per client, the memory in its hands
    base,        \* per client, the memory its edit starts from
    seen,        \* per client, the mtime it saw
    op,          \* what the API's request does
    crossed,     \* clients in whose edit somebody else wrote the file
    spoiled,     \* somebody wrote between a client's access and its stat
    misread,     \* who has a memory from an access that failed: clients, Cache
    calls,       \* how much of MaxCalls is used
    edits        \* edits so far

queueVars == <<queue, timer, processing, pc, batch, turns, hints, given>>
clientVars == <<step, held, base, seen, op>>
used == <<calls, edits>>
vars == <<queueVars, file, cache, clientVars, crossed, spoiled, misread, used>>

NoTimer == "none"
Client == Timer \cup {Api}
NoCache == [data |-> 0, mtime |-> 0]

\* create_empty_memory, and the mtime None of a file that does not exist.
Empty == 0
None == 1

Init ==
    /\ queue = <<>> /\ timer = NoTimer /\ processing = FALSE
    /\ pc = [t \in Timer |-> "none"]
    /\ batch = [t \in Timer |-> <<>>]
    /\ turns = [v \in Conversation |-> 0]
    /\ hints = {}
    /\ given = [v \in Conversation |-> 0]
    /\ file = [data |-> Empty, mtime |-> None]
    /\ cache = NoCache
    /\ step = [c \in Client |-> "none"]
    /\ held = [c \in Client |-> 0]
    /\ base = [c \in Client |-> 0]
    /\ seen = [c \in Client |-> 0]
    /\ op = "get"
    /\ crossed = {} /\ spoiled = FALSE /\ misread = {}
    /\ calls = 0 /\ edits = 0

-----------------------------------------------------------------------------
(* The queue. *)

Idle == {t \in Timer : pc[t] = "none"}
Thread == CHOOSE t \in Idle : TRUE

\* Timer.cancel() stops a timer that has not fired.
Cancelled == IF timer # NoTimer /\ pc[timer] = "armed" THEN [pc EXCEPT ![timer] = "none"] ELSE pc

\* _schedule_timer: t is the new timer's thread.
Schedule(t) ==
    /\ timer' = t
    /\ pc' = [Cancelled EXCEPT ![t] = "armed"]

MayCall == calls < MaxCalls /\ calls' = calls + 1

\* The place of a conversation in the queue, where it is once at most.
Queued(v) == {i \in 1..Len(queue) : queue[i].conv = v}

\* Mutation: the flag of the queued context is forgotten.
CorrectedNow(v, corrected) == corrected

\* The flags of the context that is replaced are kept.
Corrected(v, corrected) ==
    corrected \/ \E i \in Queued(v) : queue[i].corrected

Others(v) ==
    LET p == CHOOSE i \in Queued(v) : TRUE IN
    IF Queued(v) = {} THEN queue ELSE SubSeq(queue, 1, p - 1) \o SubSeq(queue, p + 1, Len(queue))

\* _enqueue_locked: the last context of a conversation replaces the one queued.
Enqueue(v, corrected) ==
    /\ turns' = [turns EXCEPT ![v] = @ + 1]
    /\ queue' = Append(Others(v), [conv |-> v, turn |-> turns[v] + 1,
                                   corrected |-> Corrected(v, corrected)])
    /\ hints' = IF corrected THEN hints \cup {v} ELSE hints

\* add, by the middleware after a run, and add_nowait, before messages are
\* summarized.
Add(v, corrected) ==
    /\ MayCall /\ Idle # {}
    /\ Enqueue(v, corrected)
    /\ Schedule(Thread)
    /\ UNCHANGED <<processing, batch, given, file, cache, clientVars, crossed, spoiled, misread, edits>>

FlushNowait ==
    /\ MayCall /\ Idle # {}
    /\ Schedule(Thread)
    /\ UNCHANGED <<queue, processing, batch, turns, hints, given, file, cache, clientVars, crossed, spoiled, misread, edits>>

\* flush: the timer is cancelled, then the caller's thread processes the queue.
Flush ==
    /\ MayCall /\ Idle # {}
    /\ timer' = NoTimer
    /\ pc' = [Cancelled EXCEPT ![Thread] = "fired"]
    /\ UNCHANGED <<queue, processing, batch, turns, hints, given, file, cache, clientVars, crossed, spoiled, misread, edits>>

Fire(t) ==
    /\ pc[t] = "armed"
    /\ pc' = [pc EXCEPT ![t] = "fired"]
    /\ UNCHANGED <<queue, timer, processing, batch, turns, hints, given, file, cache, clientVars,
                   crossed, spoiled, misread, used>>

\* Mutation: whoever fires processes.
BusyNever == FALSE

Busy == processing

\* Mutation: a thread that finds another one at work gives up.
GiveUp(t) == pc' = [pc EXCEPT ![t] = "none"] /\ UNCHANGED timer

\* ... tries again at once.
TryAgain(t) == Schedule(t)

\* _process_queue, the section under the lock.
ProcessQueue(t) ==
    /\ pc[t] = "fired"
    /\ \/ Busy /\ TryAgain(t) /\ UNCHANGED <<queue, processing, batch>>
       \/ /\ ~Busy /\ queue = <<>>
          /\ pc' = [pc EXCEPT ![t] = "none"]
          /\ UNCHANGED <<queue, timer, processing, batch>>
       \/ /\ ~Busy /\ queue # <<>>
          /\ processing' = TRUE
          /\ batch' = [batch EXCEPT ![t] = queue]
          /\ queue' = <<>>
          /\ timer' = NoTimer
          /\ pc' = [pc EXCEPT ![t] = "working"]
    /\ UNCHANGED <<turns, hints, given, file, cache, clientVars, crossed, spoiled, misread, used>>

Reset == processing' = FALSE /\ UNCHANGED queue

\* ... and the finally at its end.
Processed(t) ==
    /\ pc[t] = "working" /\ batch[t] = <<>>
    /\ Reset
    /\ pc' = [pc EXCEPT ![t] = "none"]
    /\ UNCHANGED <<timer, batch, turns, hints, given, file, cache, clientVars, crossed, spoiled, misread, used>>

-----------------------------------------------------------------------------
(* FileMemoryStorage. *)

Goto(c, p) == step' = [step EXCEPT ![c] = p]

\* A client is done; a thread turns to its next context.
Done(c) ==
    /\ Goto(c, "none")
    /\ held' = [held EXCEPT ![c] = 0]
    /\ base' = [base EXCEPT ![c] = 0]
    /\ seen' = [seen EXCEPT ![c] = 0]
    /\ batch' = IF c = Api THEN batch ELSE [batch EXCEPT ![c] = Tail(@)]

\* load(): a stat; None when it fails ...
Stat(c) ==
    /\ step[c] = "stat"
    /\ \/ /\ seen' = [seen EXCEPT ![c] = file.mtime]
          /\ misread' = misread \ {c}
          /\ UNCHANGED calls
       \/ /\ MayCall
          /\ seen' = [seen EXCEPT ![c] = None]
          /\ misread' = misread \cup {c}
    /\ crossed' = crossed \ {c}
    /\ Goto(c, "look")
    /\ UNCHANGED <<queueVars, file, cache, held, base, op, spoiled, edits>>

Loaded(c, data) ==
    /\ held' = [held EXCEPT ![c] = data]
    /\ base' = [base EXCEPT ![c] = data]

\* ... the cache, if its mtime is the one seen ...
Look(c) ==
    /\ step[c] = "look"
    /\ \/ /\ cache.mtime = seen[c]
          /\ Loaded(c, cache.data)
          /\ misread' = IF Cache \in misread THEN misread \cup {c} ELSE misread
          /\ Goto(c, "loaded")
       \/ /\ cache.mtime # seen[c]
          /\ Goto(c, "read")
          /\ UNCHANGED <<held, base, misread>>
    /\ UNCHANGED <<queueVars, file, cache, seen, op, crossed, spoiled, used>>

\* _load_memory_from_file: a file that cannot be read or parsed counts as empty.
ReadFile(c) ==
    \/ /\ Loaded(c, file.data)
       /\ misread' = misread \ {c}
       /\ UNCHANGED calls
    \/ /\ MayCall
       /\ Loaded(c, Empty)
       /\ misread' = misread \cup {c}

\* ... or the file ...
Read(c) ==
    /\ step[c] = "read"
    /\ ReadFile(c)
    /\ Goto(c, "fill")
    /\ UNCHANGED <<queueVars, file, cache, seen, op, crossed, spoiled, edits>>

\* Mutation: the mtime is taken when the cache is filled.
MtimeNow(c) == file.mtime

\* The mtime the file had before it was read.
MtimeSeen(c) == seen[c]

\* What a client has is cached, whatever it is.
Keep(c, mtime) ==
    /\ cache' = [data |-> held[c], mtime |-> mtime]
    /\ misread' = IF c \in misread THEN misread \cup {Cache} ELSE misread \ {Cache}

\* ... which is cached.
Fill(c) ==
    /\ step[c] = "fill"
    /\ Keep(c, MtimeSeen(c))
    /\ Goto(c, "loaded")
    /\ UNCHANGED <<queueVars, file, held, base, seen, op, crossed, spoiled, used>>

\* Steps in which an edit rests on what was loaded.
Editing == {"look", "read", "fill", "loaded", "invoke", "replace"}

\* The file is replaced, under the eyes of the others.
Write(data, others) ==
    /\ file' = [data |-> data, mtime |-> file.mtime + 1]
    /\ crossed' = crossed \cup {d \in others : step[d] \in Editing}
    /\ spoiled' = (spoiled \/ \E d \in others : step[d] = "restat")

\* save(): the temporary file replaces the file ...
Replace(c) ==
    /\ step[c] = "replace"
    /\ Write(held[c], Client \ {c})
    /\ misread' = misread \ {c}
    /\ Goto(c, "restat")
    /\ UNCHANGED <<queueVars, cache, held, base, seen, op, used>>

\* A failed write is logged; False or OSError.
ReplaceFails(c) ==
    /\ step[c] = "replace"
    /\ Done(c)
    /\ UNCHANGED <<queue, timer, processing, pc, turns, hints, given, file, cache, op, crossed, spoiled, misread, used>>

\* ... its mtime is looked up ...
Restat(c) ==
    /\ step[c] = "restat"
    /\ \/ seen' = [seen EXCEPT ![c] = file.mtime] /\ UNCHANGED calls
       \/ seen' = [seen EXCEPT ![c] = None] /\ MayCall
    /\ Goto(c, "store")
    /\ UNCHANGED <<queueVars, file, cache, held, base, op, crossed, spoiled, misread, edits>>

\* ... and the cache is set.  An import is loaded again.
Store(c) ==
    /\ step[c] = "store"
    /\ Keep(c, seen[c])
    /\ IF c = Api /\ op = "import"
       THEN op' = "get" /\ Goto(c, "stat") /\ UNCHANGED <<batch, held, base, seen>>
       ELSE op' = op /\ Done(c)
    /\ UNCHANGED <<queue, timer, processing, pc, turns, hints, given, file, crossed, spoiled, used>>

\* reload(): the file is read, then the stat and the cache as above.
Reload ==
    /\ step[Api] = "reload"
    /\ ReadFile(Api)
    /\ Goto(Api, "restat")
    /\ UNCHANGED <<queueVars, file, cache, seen, op, crossed, spoiled, edits>>

\* Another process saves the memory.
SaveElsewhere ==
    /\ MayCall
    /\ edits' = edits + 1
    /\ Write(edits + 1, Client)
    /\ UNCHANGED <<queueVars, cache, clientVars, misread>>

Storage(c) ==
    Stat(c) \/ Look(c) \/ Read(c) \/ Fill(c) \/ Replace(c) \/ ReplaceFails(c) \/ Restat(c) \/ Store(c)

-----------------------------------------------------------------------------
(* The clients: a thread's updater, and the API's handlers, one at a time. *)

\* The memory is edited, in a copy.
Edit(c) ==
    /\ held' = [held EXCEPT ![c] = edits + 1]
    /\ edits' = edits + 1
    /\ Goto(c, "replace")
    /\ UNCHANGED calls

\* update_memory of the next context: _prepare_update_prompt loads the memory.
Prepare(t) ==
    /\ pc[t] = "working" /\ batch[t] # <<>> /\ step[t] = "none"
    /\ Goto(t, "stat")
    /\ UNCHANGED <<queueVars, file, cache, held, base, seen, op, crossed, spoiled, misread, used>>

\* Mutation: the cached object itself is updated.
EditInPlace(c) ==
    /\ Edit(c)
    /\ cache' = IF cache.data = base[c] THEN [cache EXCEPT !.data = edits + 1] ELSE cache

\* Its answer is applied to a copy (copy.deepcopy, dict, list) and saved.
EditCopy(c) == Edit(c) /\ UNCHANGED cache

\* The model is asked; a prompt or a model that cannot be built counts as a
\* call that fails ...
Invoke(t) ==
    LET x == Head(batch[t]) IN
    /\ t \in Timer /\ step[t] = "loaded"
    /\ given' = [given EXCEPT ![x.conv] = x.turn]
    /\ hints' = IF x.corrected THEN hints \ {x.conv} ELSE hints
    /\ Goto(t, "invoke")
    /\ UNCHANGED <<queue, timer, processing, pc, batch, turns, file, cache, held, base, seen, op,
                   crossed, spoiled, misread, used>>

\* ... and its answer applied and saved, unless it fails or is no JSON.
Finalize(t) ==
    /\ t \in Timer /\ step[t] = "invoke"
    /\ \/ EditCopy(t) /\ UNCHANGED <<batch, base, seen>>
       \/ Done(t) /\ UNCHANGED <<cache, used>>
    /\ UNCHANGED <<queue, timer, processing, pc, turns, hints, given, file, op, crossed, spoiled, misread>>

\* GET, POST .../reload, DELETE of all, POST .../import, and create, delete and
\* update of a fact.
Request(o) ==
    /\ step[Api] = "none" /\ MayCall
    /\ op' = o
    /\ IF o \in {"clear", "import"}
       THEN /\ held' = [held EXCEPT ![Api] = edits + 1]
            /\ edits' = edits + 1
            /\ Goto(Api, "replace")
       ELSE /\ Goto(Api, IF o = "reload" THEN "reload" ELSE "stat")
            /\ UNCHANGED <<held, edits>>
    /\ UNCHANGED <<queueVars, file, cache, base, seen, crossed, spoiled, misread>>

\* The memory is returned, or the fact edited, or not found.
Respond ==
    /\ step[Api] = "loaded"
    /\ \/ op = "fact" /\ EditCopy(Api) /\ UNCHANGED <<batch, base, seen>>
       \/ Done(Api) /\ UNCHANGED <<cache, used>>
    /\ UNCHANGED <<queue, timer, processing, pc, turns, hints, given, file, op, crossed, spoiled, misread>>

-----------------------------------------------------------------------------
Work(t) == Fire(t) \/ ProcessQueue(t) \/ Processed(t) \/ Prepare(t) \/ Invoke(t) \/ Finalize(t) \/ Storage(t)

Serve == Storage(Api) \/ Reload \/ Respond

Next ==
    \/ \E v \in Conversation, corrected \in BOOLEAN : Add(v, corrected)
    \/ Flush \/ FlushNowait
    \/ \E t \in Timer : Work(t)
    \/ \E o \in {"get", "reload", "clear", "import", "fact"} : Request(o)
    \/ Serve
    \/ SaveElsewhere

Spec == Init /\ [][Next]_vars

\* Threads run, and every model call and every access to the file returns.
FairSpec == Spec /\ \A t \in Timer : WF_vars(Work(t))

-----------------------------------------------------------------------------
(* Properties. *)

Context == [conv : Conversation, turn : 1..MaxCalls, corrected : BOOLEAN]
TypeOK ==
    /\ queue \in Seq(Context)
    /\ \A i, j \in 1..Len(queue) : queue[i].conv = queue[j].conv => i = j
    /\ timer \in Timer \cup {NoTimer}
    /\ processing \in BOOLEAN /\ spoiled \in BOOLEAN
    /\ pc \in [Timer -> {"none", "armed", "fired", "working"}]
    /\ batch \in [Timer -> Seq(Context)]
    /\ {turns, given} \subseteq [Conversation -> 0..MaxCalls]
    /\ hints \subseteq Conversation
    /\ file \in [data : Nat, mtime : Nat]
    /\ cache \in [data : Nat, mtime : Nat]
    /\ step \in [Client -> Editing \cup {"none", "stat", "restat", "store", "reload"}]
    /\ {held, base, seen} \subseteq [Client -> Nat]
    /\ op \in {"get", "reload", "clear", "import", "fact"}
    /\ crossed \subseteq Client /\ misread \subseteq Client \cup {Cache}
    /\ calls \in 0..MaxCalls /\ edits \in 0..calls

\* What is queued has a thread that will look at the queue, although a timer
\* may fire while its successor is set, and a processing thread forgets the
\* timer without knowing whether it is its own.
QueueAttended == queue # <<>> => \E t \in Timer : pc[t] \in {"armed", "fired"}

\* The contexts that no model call has been given.
Waiting == {queue[i] : i \in 1..Len(queue)}
           \cup UNION {{batch[t][i] : i \in 1..Len(batch[t])} : t \in Timer}

\* The last turn of a conversation is not forgotten between the queue, the
\* thread that took it and the model.
LastTurnKept ==
    \A v \in Conversation : given[v] # turns[v] => \E x \in Waiting : x.conv = v /\ x.turn = turns[v]

\* A correction the user made is flagged in what the model will be given, although
\* later turns without one replace the context.
CorrectionKept == \A v \in hints : \E x \in Waiting : x.conv = v /\ x.corrected

\* Nothing the user said last is dropped on the way to the model.
NothingForgotten == TypeOK /\ LastTurnKept /\ CorrectionKept

\* The model never sees a conversation older than one it has seen: threads do
\* not process their contexts side by side.
TurnsInOrder == [][\A v \in Conversation : given'[v] >= given[v]]_vars

\* A memory cached with the mtime of the file is the file's, unless somebody
\* wrote between another one's access to the file and its stat, or the access
\* that filled the cache failed: a failed save or an edit that is not saved yet
\* does not show, and a stat that fails spoils nothing.
CacheCurrent ==
    ~spoiled /\ Cache \notin misread /\ cache.mtime = file.mtime => cache.data = file.data

\* An edit is applied to what the file says, unless somebody else wrote it
\* while the edit was under way, or the file could not be looked at or read,
\* now or when the cache was filled: what was saved before is not lost.
EditsBuildOnLatest ==
    [][\A c \in Client :
        /\ step[c] = "replace" /\ step'[c] = "restat"
        /\ ~spoiled /\ c \notin crossed \cup misread
        /\ c = Api => op = "fact"
        => base[c] = file.data]_vars

\* Does not hold: a file that cannot be read or parsed once counts as empty, is
\* cached as such, and the next edit replaces what was saved.
NoReadLosesMemory ==
    [][\A c \in Client :
        /\ step[c] = "replace" /\ step'[c] = "restat"
        /\ ~spoiled /\ c \notin crossed
        /\ c = Api => op = "fact"
        => base[c] = file.data]_vars

\* Every conversation reaches the model with its last turn, and never goes back
\* to an earlier one.
TurnsReachModelInOrder ==
    /\ TurnsInOrder
    /\ \A v \in Conversation : given[v] # turns[v] ~> given[v] = turns[v]
=============================================================================
