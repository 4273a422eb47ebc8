---------------------------- MODULE SandboxPool ----------------------------
(***************************************************************************)
(* AioSandboxProvider (community/aio_sandbox/aio_sandbox_provider.py, with *)
(* the mixin warm_pool_lifecycle.py): active and warm containers of one    *)
(* process.                                                                *)
(*                                                                         *)
(* A scope is a pair of a user and a thread; its sandbox id, and so its    *)
(* container's name, is a function of the scope.  A section under _lock is *)
(* one step; every call of the backend is a step of its own, taken without *)
(* the lock.  A worker is a coroutine or thread that needs a sandbox.  A   *)
(* worker whose await is cancelled gives the thread lock back at once,     *)
(* while the call it made in an executor thread runs to its end.           *)
(*                                                                         *)
(* Left out: anonymous sandboxes (no caller), the file lock (it separates  *)
(* processes), other processes, ports.  The oldest warm entry is any of    *)
(* them, and a time since the last use is old or not.                      *)
(***************************************************************************)
EXTENDS Naturals, FiniteSets

CONSTANTS
    Worker,
    Scope,
    Replicas,
    MaxObjects,   \* SandboxInfo objects alive at one time
    MaxCalls,     \* calls of ensure_sandbox_initialized
    MaxFaults     \* cancelled acquisitions, containers that die, stops that
                  \* fail, ends of the process

ASSUME SandboxAssumption ==
    /\ Replicas \in Nat \ {0}
    /\ MaxObjects \in Nat \ {0}
    /\ {MaxCalls, MaxFaults} \subseteq Nat
    /\ IsFiniteSet(Worker) /\ IsFiniteSet(Scope)

VARIABLES
    running,   \* per scope, the number of the container of that name, or 0
    active,    \* _sandboxes and _sandbox_infos
    warm,      \* _warm_pool
    old,       \* entries unused for longer than idle_timeout
    lock,      \* _thread_locks: who holds the scope's
    pc,        \* per worker, what it does next
    scope,     \* per worker, the scope it works for
    info,      \* per worker, the SandboxInfo in its hands
    again,     \* per worker, the caches are looked up for the second time
    gone,      \* workers whose coroutine is cancelled; their call goes on
    sweep,     \* the idle checker: where it is, the ids marked, the one it
               \* destroys, the infos to stop
    shut,      \* shutdown(): where it is, the ids to destroy, the infos to
               \* stop now and later
    lost,      \* scopes whose container nobody knows: its creation was cancelled,
               \* a stop of it failed, or the start of the process missed it
    calls,     \* how much of MaxCalls is used
    faults     \* how much of MaxFaults is used

pool == <<active, warm, old>>
used == <<calls, faults>>
workers == <<lock, pc, scope, info, again, gone>>
vars == <<running, active, warm, old, lock, pc, scope, info, again, gone,
          sweep, shut, lost, calls, faults>>

\* obj is the object's identity.  An info from create() carries the container's
\* id, which is written obj too; one from discover() knows only the name.
NoInfo == [obj |-> 0, id |-> "none", named |-> FALSE]
Info == [obj : 1..MaxObjects, id : Scope, named : BOOLEAN]

Nobody == "nobody"
ASSUME NobodyAssumption == Nobody \notin Worker
InActive == {"reuse", "checkActive", "touch", "dropActive", "stopActive"}
InWarm == {"warm", "checkWarm", "reclaim", "dropWarm", "stopWarm"}
Pc == {"idle", "queued", "abandoned", "granted", "discover", "found", "evict", "evicting",
       "create", "ready", "unready", "held"} \cup InActive \cup InWarm

Active(s) == active[s] # NoInfo
Warm(s) == warm[s] # NoInfo

\* Objects and containers that somebody refers to.
InUse == {running[s] : s \in Scope}
         \cup {active[s].obj : s \in Scope} \cup {warm[s].obj : s \in Scope}
         \cup {info[w].obj : w \in Worker}
         \cup {i.obj : i \in sweep.stop \cup shut.stop \cup shut.rest}
Free == 1..MaxObjects \ InUse
NewObject == CHOOSE n \in Free : TRUE

Quiet == [at |-> "wait", ids |-> {}, now |-> Nobody, stop |-> {}]
Up == [at |-> "up", ids |-> {}, stop |-> {}, rest |-> {}]

Init ==
    /\ running = [s \in Scope |-> 0]
    /\ active = [s \in Scope |-> NoInfo]
    /\ warm = [s \in Scope |-> NoInfo]
    /\ old = {}
    /\ lock = [s \in Scope |-> Nobody]
    /\ pc = [w \in Worker |-> "idle"]
    /\ scope \in [Worker -> Scope]
    /\ info = [w \in Worker |-> NoInfo]
    /\ again = {}
    /\ gone = {}
    /\ sweep = Quiet
    /\ shut = Up
    /\ lost = {}
    /\ calls = 0 /\ faults = 0

Fault == faults < MaxFaults /\ faults' = faults + 1 /\ UNCHANGED calls
MayCall == calls < MaxCalls /\ calls' = calls + 1 /\ UNCHANGED faults

-----------------------------------------------------------------------------
(* The backend. *)

\* docker stop of an info's container: by id, or by name.
Hit(i) == i # NoInfo /\ running[i.id] # 0 /\ (i.named \/ running[i.id] = i.obj)

\* LocalContainerBackend.destroy; a failed stop is only logged.
Stop(i) ==
    \/ /\ running' = IF Hit(i) THEN [running EXCEPT ![i.id] = 0] ELSE running
       /\ lost' = IF Hit(i) THEN lost \ {i.id} ELSE lost
       /\ UNCHANGED used
    \/ Hit(i) /\ Fault /\ lost' = lost \cup {i.id} /\ UNCHANGED running

\* A container dies.
Die(s) ==
    /\ running[s] # 0 /\ Fault
    /\ running' = [running EXCEPT ![s] = 0]
    /\ lost' = lost \ {s}
    /\ UNCHANGED <<pool, workers, sweep, shut>>

\* Mutation: what could not be checked counts as dead.
FoundDeadIfUnknown(s) == TRUE

\* is_alive() answers False; it raises when docker cannot tell.
FoundDead(s) == running[s] = 0

-----------------------------------------------------------------------------
(* The tracking maps. *)

\* Time passes: an entry has not been used for idle_timeout.
Age(s) ==
    /\ Active(s) \/ Warm(s)
    /\ s \notin old
    /\ old' = old \cup {s}
    /\ UNCHANGED <<running, active, warm, workers, sweep, shut, lost, used>>

\* expected_info is the info object that was checked.
Removable(s, expected) == expected \in {active[s], warm[s]}

\* _remove_tracked_sandbox: both maps forget s.
Forget(s) ==
    /\ active' = [active EXCEPT ![s] = NoInfo]
    /\ warm' = [warm EXCEPT ![s] = NoInfo]
    /\ old' = old \ {s}

\* ... and the info it returns.
Forgotten(s) == IF Active(s) THEN active[s] ELSE warm[s]

\* What destroy() stops: the info that was removed, if any.
Destroyed(s) == {Forgotten(s)} \ {NoInfo}

\* _register_discovered_sandbox, _register_created_sandbox, and the promotion
\* of a warm entry: s is active and just used.
Track(s, i) ==
    /\ active' = [active EXCEPT ![s] = i]
    /\ old' = old \ {s}
    /\ lost' = IF Hit(i) THEN lost \ {s} ELSE lost

-----------------------------------------------------------------------------
(* acquire, acquire_async. *)

Goto(w, p) == pc' = [pc EXCEPT ![w] = p]

\* The call of an executor thread returned and nobody waits for it any more.
Vanish(w) ==
    /\ Goto(w, "idle")
    /\ gone' = gone \ {w}
    /\ again' = again \ {w}
    /\ info' = [info EXCEPT ![w] = NoInfo]

\* The call returns, and the coroutine goes on with p.
Return(w, p) == IF w \in gone THEN Vanish(w) ELSE Goto(w, p) /\ UNCHANGED <<info, again, gone>>

\* Nothing usable in the map w looks at.  The warm pool comes after the active
\* map; both are looked up again, in one call, under the file lock.
Miss(w) ==
    IF w \in gone /\ ~(w \in again /\ pc[w] \in InActive)
    THEN Vanish(w)
    ELSE /\ info' = [info EXCEPT ![w] = NoInfo]
         /\ Goto(w, IF pc[w] \in InActive THEN "warm" ELSE IF w \in again THEN "discover" ELSE "reuse")
         /\ again' = IF pc[w] \in InActive THEN again ELSE again \cup {w}
         /\ UNCHANGED gone

\* Mutation: an acquisition that fails keeps the thread lock.
UnlockOnlyHeld(w, p) == p = "held"

\* The with or finally releases the thread lock, however the acquisition ends.
Unlock(w, p) == TRUE

\* The acquisition ends: with a sandbox ("held") or with an exception ("idle").
Finish(w, p) ==
    /\ Goto(w, IF w \in gone THEN "idle" ELSE p)
    /\ lock' = IF w \notin gone /\ Unlock(w, p) THEN [lock EXCEPT ![scope[w]] = Nobody] ELSE lock
    /\ gone' = gone \ {w}
    /\ again' = again \ {w}
    /\ info' = [info EXCEPT ![w] = NoInfo]

\* get(), for a state that knows its sandbox: the entry is used.
Get(w) ==
    LET s == scope[w] IN
    /\ pc[w] \in {"idle", "held"} /\ Active(s)
    /\ MayCall
    /\ Goto(w, "held")
    /\ old' = old \ {s}
    /\ UNCHANGED <<running, active, warm, lock, scope, info, again, gone, sweep, shut, lost>>

\* No sandbox, or one that was released meanwhile: acquire.
Ask(w, s) ==
    /\ \/ pc[w] = "idle"
       \/ pc[w] = "held" /\ s = scope[w] /\ ~Active(s)
    /\ MayCall
    /\ Goto(w, "queued")
    /\ scope' = [scope EXCEPT ![w] = s]
    /\ UNCHANGED <<running, pool, lock, info, again, gone, sweep, shut, lost>>

\* Mutation: no thread lock.
MayLockAlways(w) == TRUE

MayLock(w) == lock[scope[w]] = Nobody

\* The thread lock of the scope; "granted" is the lock of a cancelled waiter.
Lock(w) ==
    /\ pc[w] \in {"queued", "abandoned"} /\ MayLock(w)
    /\ lock' = [lock EXCEPT ![scope[w]] = w]
    /\ Goto(w, IF pc[w] = "queued" THEN "reuse" ELSE "granted")
    /\ UNCHANGED <<running, pool, scope, info, again, gone, sweep, shut, lost, used>>

\* _release_cancelled_lock_acquire.
ReleaseCancelled(w) ==
    /\ pc[w] = "granted"
    /\ Finish(w, "idle")
    /\ UNCHANGED <<running, pool, scope, sweep, shut, lost, used>>

\* The awaiting coroutine is cancelled.
Cancel(w) ==
    /\ pc[w] \notin {"idle", "held", "abandoned", "granted", "found"}
    /\ w \notin gone
    /\ Fault
    /\ IF pc[w] = "queued"
       THEN Goto(w, "abandoned") /\ UNCHANGED <<lock, gone>>
       ELSE /\ gone' = gone \cup {w}
            /\ lock' = [lock EXCEPT ![scope[w]] = Nobody]
            /\ UNCHANGED pc
    /\ UNCHANGED <<running, pool, scope, info, again, sweep, shut, lost>>

\* _reuse_in_process_sandbox, first section.
Reuse(w) ==
    LET s == scope[w] IN
    /\ pc[w] = "reuse"
    /\ \/ /\ Active(s)
          /\ Goto(w, "checkActive")
          /\ info' = [info EXCEPT ![w] = active[s]]
          /\ UNCHANGED <<again, gone>>
       \/ ~Active(s) /\ Miss(w)
    /\ UNCHANGED <<running, pool, lock, scope, sweep, shut, lost, used>>

\* _reclaim_warm_pool_sandbox, first section.
LookWarm(w) ==
    LET s == scope[w] IN
    /\ pc[w] = "warm"
    /\ \/ /\ Warm(s)
          /\ Goto(w, "checkWarm")
          /\ info' = [info EXCEPT ![w] = warm[s]]
          /\ UNCHANGED <<again, gone>>
       \/ ~Warm(s) /\ Miss(w)
    /\ UNCHANGED <<running, pool, lock, scope, sweep, shut, lost, used>>

\* The health check, outside the lock: the entry is kept unless it says no.
Check(w) ==
    /\ \/ pc[w] = "checkActive" /\ Goto(w, "touch")
       \/ pc[w] = "checkWarm" /\ Goto(w, "reclaim")
       \/ pc[w] = "checkActive" /\ FoundDead(scope[w]) /\ Goto(w, "dropActive")
       \/ pc[w] = "checkWarm" /\ FoundDead(scope[w]) /\ Goto(w, "dropWarm")
    /\ UNCHANGED <<running, pool, lock, scope, info, again, gone, sweep, shut, lost, used>>

\* _drop_unhealthy_sandbox: forget the entry that was checked ...
Drop(w) ==
    LET s == scope[w] IN
    /\ pc[w] \in {"dropActive", "dropWarm"}
    /\ \/ /\ Removable(s, info[w])
          /\ Forget(s)
          /\ info' = [info EXCEPT ![w] = Forgotten(s)]
          /\ Goto(w, IF pc[w] = "dropActive" THEN "stopActive" ELSE "stopWarm")
          /\ UNCHANGED <<again, gone>>
       \/ ~Removable(s, info[w]) /\ Miss(w) /\ UNCHANGED pool
    /\ UNCHANGED <<running, lock, scope, sweep, shut, lost, used>>

\* ... and destroy its container.
Dropped(w) ==
    /\ pc[w] \in {"stopActive", "stopWarm"}
    /\ Stop(info[w])
    /\ Miss(w)
    /\ UNCHANGED <<pool, lock, scope, sweep, shut>>

\* _reuse_in_process_sandbox, second section.
Touch(w) ==
    LET s == scope[w] IN
    /\ pc[w] = "touch"
    /\ \/ Active(s) /\ Finish(w, "held") /\ old' = old \ {s}
       \/ ~Active(s) /\ Miss(w) /\ UNCHANGED <<old, lock>>
    /\ UNCHANGED <<running, active, warm, scope, sweep, shut, lost, used>>

\* _reclaim_warm_pool_sandbox, second section: whatever is warm now is promoted.
Reclaim(w) ==
    LET s == scope[w] IN
    /\ pc[w] = "reclaim"
    /\ \/ /\ Warm(s)
          /\ Track(s, warm[s])
          /\ warm' = [warm EXCEPT ![s] = NoInfo]
          /\ Finish(w, "held")
       \/ ~Warm(s) /\ Miss(w) /\ UNCHANGED <<pool, lock, lost>>
    /\ UNCHANGED <<running, scope, sweep, shut, used>>

\* _replica_count.
Total == Cardinality({s \in Scope : Active(s)}) + Cardinality({s \in Scope : Warm(s)})

\* backend.discover: a healthy container of that name, unless docker cannot
\* tell or it does not answer.  Without one the replicas are counted.
Discover(w) ==
    LET s == scope[w] IN
    /\ pc[w] = "discover"
    /\ \/ /\ running[s] # 0 /\ w \notin gone /\ Free # {}
          /\ info' = [info EXCEPT ![w] = [obj |-> NewObject, id |-> s, named |-> TRUE]]
          /\ Goto(w, "found") /\ UNCHANGED <<again, gone>>
       \/ Return(w, IF Total >= Replicas THEN "evict" ELSE "create")
    /\ UNCHANGED <<running, pool, lock, scope, sweep, shut, lost, used>>

\* _evict_oldest_warm: forget one warm entry ...
Evict(w) ==
    /\ pc[w] = "evict"
    /\ \/ \E s \in Scope :
             /\ Warm(s)
             /\ warm' = [warm EXCEPT ![s] = NoInfo]
             /\ old' = IF Active(s) THEN old ELSE old \ {s}
             /\ info' = [info EXCEPT ![w] = warm[s]]
             /\ Goto(w, "evicting") /\ UNCHANGED <<again, gone>>
       \/ (\A s \in Scope : ~Warm(s)) /\ Return(w, "create") /\ UNCHANGED <<warm, old>>
    /\ UNCHANGED <<running, active, lock, scope, sweep, shut, lost, used>>

\* ... and destroy its container.
Evicted(w) ==
    /\ pc[w] = "evicting"
    /\ Stop(info[w])
    /\ IF w \in gone THEN Vanish(w)
       ELSE Goto(w, "create") /\ info' = [info EXCEPT ![w] = NoInfo] /\ UNCHANGED <<again, gone>>
    /\ UNCHANGED <<pool, lock, scope, sweep, shut>>

\* backend.create: a container of its own, or the one that has the name.
Create(w) ==
    LET s == scope[w]  new == [obj |-> NewObject, id |-> s, named |-> running[s] # 0] IN
    /\ pc[w] = "create" /\ Free # {}
    /\ running' = IF running[s] = 0 THEN [running EXCEPT ![s] = NewObject] ELSE running
    /\ info' = [info EXCEPT ![w] = new]
    /\ Goto(w, "ready")
    /\ UNCHANGED <<pool, lock, scope, again, gone, sweep, shut, lost, used>>

CreateFails(w) ==
    /\ pc[w] = "create"
    /\ Finish(w, "idle")
    /\ UNCHANGED <<running, pool, scope, sweep, shut, lost, used>>

\* A cancelled create() is over: the container has no entry.
CreatedForNobody(w) ==
    /\ pc[w] = "ready" /\ w \in gone
    /\ lost' = IF Hit(info[w]) THEN lost \cup {scope[w]} ELSE lost
    /\ Vanish(w)
    /\ UNCHANGED <<running, pool, lock, scope, sweep, shut, used>>

\* wait_for_sandbox_ready said yes, or discover() found one: track it, and the
\* acquisition returns.  It may be dead by now.
Register(w) ==
    /\ pc[w] = "found" \/ (pc[w] = "ready" /\ w \notin gone)
    /\ Track(scope[w], info[w])
    /\ Finish(w, "held")
    /\ UNCHANGED <<running, warm, scope, sweep, shut, used>>

\* It is not ready in time: it is destroyed ...
NotReady(w) ==
    /\ pc[w] = "ready" /\ w \notin gone
    /\ Goto(w, "unready")
    /\ UNCHANGED <<running, pool, lock, scope, info, again, gone, sweep, shut, lost, used>>

\* ... and the acquisition raises.
Unready(w) ==
    /\ pc[w] = "unready"
    /\ Stop(info[w])
    /\ Finish(w, "idle")
    /\ UNCHANGED <<pool, scope, sweep, shut>>

\* Mutation: the container is stopped later and not parked.
ParkNothing(s) == UNCHANGED warm

\* The container keeps running.
Park(s) == warm' = IF Active(s) /\ ~Warm(s) THEN [warm EXCEPT ![s] = active[s]] ELSE warm

\* release(), by the middleware after the agent.
Release(w) ==
    LET s == scope[w] IN
    /\ pc[w] = "held"
    /\ active' = [active EXCEPT ![s] = NoInfo]
    /\ Park(s)
    /\ old' = IF Active(s) THEN old \ {s} ELSE old
    /\ Goto(w, "idle")
    /\ UNCHANGED <<running, lock, scope, info, again, gone, sweep, shut, lost, used>>

-----------------------------------------------------------------------------
(* The idle checker, one thread. *)

\* The active sandboxes that look idle.
Mark ==
    /\ sweep.at = "wait" /\ shut.at = "up" /\ old # {}
    /\ sweep' = [Quiet EXCEPT !.at = "verify", !.ids = {s \in old : Active(s)}]
    /\ UNCHANGED <<running, pool, workers, shut, lost, used>>

\* Is it still there and still idle?
Verify(s) ==
    /\ sweep.at = "verify" /\ sweep.stop = {} /\ s \in sweep.ids
    /\ sweep' = IF Active(s) /\ s \in old
                THEN [sweep EXCEPT !.at = "destroy", !.ids = @ \ {s}, !.now = s]
                ELSE [sweep EXCEPT !.ids = @ \ {s}]
    /\ UNCHANGED <<running, pool, workers, shut, lost, used>>

\* destroy(): forget it, however it is tracked by now ...
DestroyIdle ==
    LET s == sweep.now IN
    /\ sweep.at = "destroy"
    /\ Forget(s)
    /\ sweep' = [sweep EXCEPT !.at = "verify", !.now = Nobody, !.stop = Destroyed(s)]
    /\ UNCHANGED <<running, workers, shut, lost, used>>

\* ... and stop its container.
StopIdle(i) ==
    /\ i \in sweep.stop
    /\ Stop(i)
    /\ sweep' = [sweep EXCEPT !.stop = @ \ {i}]
    /\ UNCHANGED <<pool, workers, shut>>

\* The warm entries older than idle_timeout.
Expired == {s \in old : Warm(s)}

\* _reap_expired_warm, after the active ones: forget them; they are stopped next.
Reap ==
    /\ sweep.at = "verify" /\ sweep.stop = {} /\ sweep.ids = {}
    /\ warm' = [s \in Scope |-> IF s \in Expired THEN NoInfo ELSE warm[s]]
    /\ old' = {s \in old : Active(s) \/ s \notin Expired}
    /\ sweep' = [sweep EXCEPT !.at = "reap", !.stop = {warm[s] : s \in Expired}]
    /\ UNCHANGED <<running, active, workers, shut, lost, used>>

Swept ==
    /\ sweep.at = "reap" /\ sweep.stop = {}
    /\ sweep' = Quiet
    /\ UNCHANGED <<running, pool, workers, shut, lost, used>>

-----------------------------------------------------------------------------
(* The end of the process, and the next one. *)

\* shutdown(), once.  Acquisitions are not refused from then on, and the idle
\* checker finishes what it does.
Shutdown ==
    /\ shut.at = "up" /\ Fault
    /\ shut' = [at |-> "down", ids |-> {s \in Scope : Active(s)}, stop |-> {},
                rest |-> {warm[s] : s \in {t \in Scope : Warm(t)}}]
    /\ warm' = [s \in Scope |-> NoInfo]
    /\ old' = {s \in old : Active(s)}
    /\ UNCHANGED <<running, active, workers, sweep, lost>>

\* destroy() of a sandbox that was active.
DestroyOnShutdown(s) ==
    /\ s \in shut.ids /\ shut.stop = {}
    /\ Forget(s)
    /\ shut' = [shut EXCEPT !.ids = @ \ {s}, !.stop = Destroyed(s)]
    /\ UNCHANGED <<running, workers, sweep, lost, used>>

\* The stop of such a one, and at last those of the warm ones.
StopOnShutdown(i) ==
    /\ \/ i \in shut.stop /\ shut' = [shut EXCEPT !.stop = @ \ {i}]
       \/ i \in shut.rest /\ shut.stop = {} /\ shut.ids = {} /\ shut' = [shut EXCEPT !.rest = @ \ {i}]
    /\ Stop(i)
    /\ UNCHANGED <<pool, workers, sweep>>

Running == {s \in Scope : running[s] # 0}

\* list_running: the running containers of our prefix; none when docker ps or
\* docker inspect fails, and not those whose inspection cannot be read.
Listings == SUBSET Running

\* _reconcile_orphans: what was listed becomes warm.
Adopt(listing) ==
    /\ warm' = [s \in Scope |-> IF s \in listing THEN [obj |-> running[s], id |-> s, named |-> TRUE]
                                ELSE NoInfo]
    /\ lost' = Running \ listing

\* The process ends, after shutdown() or by a crash, and the next one starts:
\* the maps are empty, the callers gone, and no checker runs yet.
Restart ==
    /\ \/ shut.at = "down" /\ shut.ids = {} /\ shut.stop = {} /\ shut.rest = {} /\ UNCHANGED used
       \/ shut.at = "up" /\ Fault
    /\ active' = [s \in Scope |-> NoInfo]
    /\ \E listing \in Listings : Adopt(listing)
    /\ old' = {}
    /\ lock' = [s \in Scope |-> Nobody]
    /\ pc' = [w \in Worker |-> "idle"]
    /\ info' = [w \in Worker |-> NoInfo]
    /\ again' = {} /\ gone' = {}
    /\ sweep' = Quiet /\ shut' = Up
    /\ UNCHANGED <<running, scope>>

-----------------------------------------------------------------------------
Acquire(w) ==
    \/ Lock(w) \/ ReleaseCancelled(w)
    \/ Reuse(w) \/ LookWarm(w) \/ Check(w) \/ Drop(w) \/ Dropped(w) \/ Touch(w) \/ Reclaim(w)
    \/ Discover(w) \/ Evict(w) \/ Evicted(w)
    \/ Create(w) \/ CreateFails(w) \/ CreatedForNobody(w) \/ Register(w) \/ NotReady(w) \/ Unready(w)

Sweep == Mark \/ DestroyIdle \/ Reap \/ Swept \/ (\E s \in Scope : Verify(s)) \/ (\E i \in sweep.stop : StopIdle(i))

GoDown ==
    \/ \E s \in Scope : DestroyOnShutdown(s)
    \/ \E i \in shut.stop \cup shut.rest : StopOnShutdown(i)
    \/ Restart

Next ==
    \/ \E w \in Worker : Acquire(w) \/ Get(w) \/ Cancel(w) \/ Release(w)
    \/ \E w \in Worker, s \in Scope : Ask(w, s)
    \/ \E s \in Scope : Age(s) \/ Die(s)
    \/ Sweep \/ Shutdown \/ GoDown

Spec == Init /\ [][Next]_vars

\* Every call of the backend returns, threads run, the idle checker wakes up
\* every minute, what is unused becomes old, and shutdown() goes on.
FairSpec ==
    /\ Spec
    /\ \A w \in Worker : WF_vars(Acquire(w))
    /\ \A s \in Scope : WF_vars(Age(s))
    /\ WF_vars(Sweep)
    /\ WF_vars(shut.at = "down" /\ GoDown)

-----------------------------------------------------------------------------
(* Properties. *)

Holder == {Nobody} \cup Worker
TypeOK ==
    /\ running \in [Scope -> 0..MaxObjects]
    /\ active \in [Scope -> Info \cup {NoInfo}]
    /\ warm \in [Scope -> Info \cup {NoInfo}]
    /\ old \subseteq Scope
    /\ lock \in [Scope -> Holder]
    /\ pc \in [Worker -> Pc]
    /\ scope \in [Worker -> Scope]
    /\ info \in [Worker -> Info \cup {NoInfo}]
    /\ again \subseteq Worker /\ gone \subseteq Worker
    /\ sweep \in [at : {"wait", "verify", "destroy", "reap"}, ids : SUBSET Scope,
                  now : Scope \cup {Nobody}, stop : SUBSET Info]
    /\ shut \in [at : {"up", "down"}, ids : SUBSET Scope, stop : SUBSET Info, rest : SUBSET Info]
    /\ lost \subseteq Scope
    /\ calls \in 0..MaxCalls /\ faults \in 0..MaxFaults

\* A sandbox is never active and warm at once: the idle checker, an eviction
\* or the reaper of warm entries would stop the container its user holds.
\* (Two acquisitions cancelled in the middle of _reclaim_warm_pool_sandbox can
\* break this: each may promote an entry between a later one's two looks.)
ActiveNotWarm == faults <= 1 => \A s \in Scope : ~(Active(s) /\ Warm(s))

\* The maps of the provider hold what they may hold, and not in two places.
PoolMapsOK == TypeOK /\ ActiveNotWarm

\* Somebody is about to stop the container, or to register it.
InHand(s) ==
    \/ \E w \in Worker :
          /\ pc[w] \in {"stopActive", "stopWarm", "evicting", "found", "ready", "unready"}
          /\ info[w].id = s /\ Hit(info[w])
    \/ \E i \in sweep.stop \cup shut.stop \cup shut.rest : i.id = s /\ Hit(i)

\* A running container is tracked, so that the idle checker or shutdown() will
\* stop it, or in the hands of somebody who stops or registers it - unless its
\* creation was cancelled, a stop of it failed, or the listing at the start of
\* the process missed it.
NoLeakedContainer ==
    \A s \in Scope : running[s] # 0 => Hit(active[s]) \/ Hit(warm[s]) \/ InHand(s) \/ s \in lost

\* A container that is tracked no more, unless somebody finds it by its name:
\* it is lost, or its creation was cancelled.
Unclaimed(s) == s \in lost \/ \E w \in gone : pc[w] = "ready" /\ scope[w] = s /\ Hit(info[w])

\* What a health check drops is not running: a sandbox that was registered
\* again while the check was under way is spared.  (With two acquisitions cancelled, one
\* may create the container again that the other has found dead.)
DropsOnlyDead ==
    [][faults <= 1 => \A w \in Worker :
        /\ pc[w] \in {"dropActive", "dropWarm"} /\ pc'[w] \in {"stopActive", "stopWarm"}
        => running[scope[w]] = 0 \/ Unclaimed(scope[w])]_vars

\* Every acquisition ends, with a sandbox or an exception; no waiter that was
\* cancelled keeps the thread lock from the others.
AcquireEnds == \A w \in Worker : pc[w] \notin {"idle", "held"} ~> pc[w] \in {"idle", "held"}

\* A container is stopped in the end: by the idle checker, after a crash by
\* that of the next process, if its start found the container.
ContainersStop == \A s \in Scope : running[s] # 0 ~> (running[s] = 0 \/ s \in lost)

\* Nobody waits for ever, and no container that is not lost runs for ever.
CallsAndContainersEnd == AcquireEnds /\ ContainersStop

\* Does not hold.  No container runs for ever, although the process crashes:
\* "This closes the fundamental gap where in-memory state loss (process
\* restart, crash, SIGKILL) leaves Docker containers running forever."
NoContainerRunsForever == \A s \in Scope : running[s] # 0 ~> running[s] = 0

\* What eviction stops is no active sandbox: "Active sandboxes are in use by
\* live threads and must not be forcibly stopped."
EvictionSparesActive ==
    [][\A w \in Worker :
        pc[w] = "evicting" /\ pc'[w] # "evicting" /\ Hit(info[w]) => ~Active(info[w].id)]_vars

\* The idle check destroys no sandbox that was used since it verified it.
IdleDestroyIsIdle == [][sweep.at = "destroy" /\ sweep'.at = "verify" /\ Active(sweep.now) => sweep.now \in old]_vars
=============================================================================
