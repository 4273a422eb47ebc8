------------------------- MODULE SandboxPoolProofs -------------------------
(***************************************************************************)
(* SandboxPool keeps its types, the thread lock of a scope keeps what it   *)
(* promises, and as long as no two things go wrong no sandbox is active    *)
(* and warm at once, no container is leaked and a health check drops only  *)
(* dead ones, for every number of workers, scopes and calls.               *)
(*                                                                         *)
(* PoolInv is about the maps and the thread locks.  ContainerInv adds what *)
(* the steps without a lock rely on: every entry stands at its own scope   *)
(* (PlaceInv), what is collected for stopping is stopped first (StopInv),  *)
(* an info in hand that is not registered yet is nobody else's (HandInv),  *)
(* and a lost container needed a fault (LostInv).                          *)
(***************************************************************************)
EXTENDS SandboxPool, TLAPS

\* Inside the thread lock: on behalf of a caller, or of one that is gone.
Locked == {"reuse", "checkActive", "touch", "dropActive", "stopActive",
           "warm", "checkWarm", "reclaim", "dropWarm", "stopWarm",
           "discover", "found", "evict", "evicting", "create", "ready", "unready"}

\* The entries of the scope were looked up, and there were none.
Past == {"discover", "found", "evict", "evicting", "create", "ready", "unready",
         "stopActive", "stopWarm"}
Looked == {"checkActive", "dropActive", "checkWarm", "dropWarm"}

Attached(x) == x \notin gone /\ pc[x] \in Locked
Pending(s) == \E g \in gone : scope[g] = s
Absent(s) == ~Active(s) /\ ~Warm(s)
Exclusive(s) == ~(Active(s) /\ Warm(s))

LockOf(x) ==
    /\ Attached(x) \/ pc[x] = "granted" => lock[scope[x]] = x
    /\ x \in gone \/ x \in again => pc[x] \in Locked
    /\ x \in gone => pc[x] # "found"

\* What the holder of the lock may rely on, although a cancelled acquisition
\* of the same scope may still promote a warm entry.
ClearOf(x) ==
    Attached(x) =>
      /\ pc[x] \in Past => Absent(scope[x])
      /\ x \in again /\ Pending(scope[x]) => Absent(scope[x])
      /\ pc[x] \in InWarm /\ (x \in again \/ Pending(scope[x])) => ~Active(scope[x])
      /\ pc[x] \in Looked =>
           /\ info[x] # NoInfo
           /\ active[scope[x]] \in {NoInfo, info[x]}
           /\ warm[scope[x]] \in {NoInfo, info[x]}

LockInv == (\A x \in Worker : LockOf(x)) /\ (gone # {} => faults > 0)

Clear ==
    /\ \A s \in Scope : Exclusive(s)
    /\ \A x \in Worker : ClearOf(x)
    /\ \A g \in gone, h \in gone : g = h

ClearInv == faults <= 1 => Clear

\* The idle checker destroys a sandbox it verified.
SweepInv == sweep.at = "destroy" => sweep.now \in Scope

PoolInv == TypeOK /\ SweepInv /\ LockInv /\ ClearInv

USE DEF InActive, InWarm, Pc, Locked

-----------------------------------------------------------------------------
(* Types. *)

\* The worker part of TypeOK, and the maps.
WorkerType ==
    /\ lock \in [Scope -> Holder]
    /\ pc \in [Worker -> Pc]
    /\ scope \in [Worker -> Scope]
    /\ info \in [Worker -> Info \cup {NoInfo}]
    /\ again \subseteq Worker /\ gone \subseteq Worker

MapType ==
    /\ active \in [Scope -> Info \cup {NoInfo}]
    /\ warm \in [Scope -> Info \cup {NoInfo}]
    /\ old \subseteq Scope

BackType ==
    /\ running \in [Scope -> 0..MaxObjects]
    /\ lost \subseteq Scope
    /\ calls \in 0..MaxCalls /\ faults \in 0..MaxFaults

SideType ==
    /\ sweep \in [at : {"wait", "verify", "destroy", "reap"}, ids : SUBSET Scope,
                  now : Scope \cup {Nobody}, stop : SUBSET Info]
    /\ shut \in [at : {"up", "down"}, ids : SUBSET Scope, stop : SUBSET Info, rest : SUBSET Info]

LEMMA TypeParts == TypeOK <=> WorkerType /\ MapType /\ BackType /\ SideType
BY DEF TypeOK, WorkerType, MapType, BackType, SideType

LEMMA TypePartsNext == TypeOK' <=> WorkerType' /\ MapType' /\ BackType' /\ SideType'
BY DEF TypeOK, WorkerType, MapType, BackType, SideType

LEMMA IdOf ==
  ASSUME NEW i \in Info \cup {NoInfo}, Hit(i)
  PROVE  i.id \in Scope
BY DEF Info, Hit

LEMMA NewInfoType ==
  ASSUME NEW s \in Scope, NEW b \in BOOLEAN, Free # {}
  PROVE  [obj |-> NewObject, id |-> s, named |-> b] \in Info
<1>1. NewObject \in Free
  BY DEF NewObject
<1>2. NewObject \in 1..MaxObjects
  BY <1>1 DEF Free
<1> QED BY <1>2 DEF Info

LEMMA FaultType ==
  ASSUME BackType, Fault
  PROVE  calls' \in 0..MaxCalls /\ faults' \in 0..MaxFaults /\ faults' = faults + 1
BY SandboxAssumption DEF BackType, Fault

LEMMA CallType ==
  ASSUME BackType, MayCall
  PROVE  calls' \in 0..MaxCalls /\ faults' \in 0..MaxFaults /\ faults' = faults
BY SandboxAssumption DEF BackType, MayCall

LEMMA StopType ==
  ASSUME BackType, NEW i \in Info \cup {NoInfo}, Stop(i)
  PROVE  BackType' /\ faults' \in {faults, faults + 1}
<1>1. CASE UNCHANGED used /\ Hit(i) /\ running' = [running EXCEPT ![i.id] = 0] /\ lost' = lost \ {i.id}
  <2>1. running' \in [Scope -> 0..MaxObjects]
    <3>1. 0 \in 0..MaxObjects
      BY SandboxAssumption
    <3> QED BY <1>1, <3>1 DEF BackType
  <2> QED BY <1>1, <2>1 DEF BackType, used
<1>2. CASE UNCHANGED used /\ UNCHANGED running /\ UNCHANGED lost
  BY <1>2 DEF BackType, used
<1>3. CASE Hit(i) /\ Fault /\ lost' = lost \cup {i.id} /\ UNCHANGED running
  <2>1. lost' \subseteq Scope
    BY <1>3, IdOf DEF BackType
  <2>2. calls' \in 0..MaxCalls /\ faults' \in 0..MaxFaults /\ faults' = faults + 1
    BY <1>3, FaultType
  <2>3. running' \in [Scope -> 0..MaxObjects]
    BY <1>3 DEF BackType
  <2> QED BY <2>1, <2>2, <2>3 DEF BackType
<1> QED BY <1>1, <1>2, <1>3 DEF Stop

LEMMA TrackType ==
  ASSUME MapType, BackType, NEW s \in Scope, NEW i \in Info \cup {NoInfo}, Track(s, i)
  PROVE  /\ active' \in [Scope -> Info \cup {NoInfo}]
         /\ old' \subseteq Scope /\ lost' \subseteq Scope
BY DEF MapType, BackType, Track

AskAny(w) == \E s \in Scope : Ask(w, s)

\* The steps of a worker.
WorkerStep(w) ==
    Acquire(w) \/ Get(w) \/ Cancel(w) \/ Release(w) \/ AskAny(w)

\* A worker's step keeps the workers' types ...
LEMMA WorkerTypeStep ==
  ASSUME TypeOK, NEW w \in Worker, WorkerStep(w)
  PROVE  WorkerType'
<1> WorkerType /\ MapType
  BY TypeParts
<1> USE DEF WorkerType, MapType, Holder
<1>1. ASSUME Get(w) PROVE WorkerType'
  BY <1>1 DEF Get, MayCall, Goto
<1>2. ASSUME Lock(w) PROVE WorkerType'
  BY <1>2 DEF Lock, Goto
<1>3. ASSUME ReleaseCancelled(w) PROVE WorkerType'
  BY <1>3 DEF ReleaseCancelled, Finish, Goto, Unlock
<1>4. ASSUME Cancel(w) PROVE WorkerType'
  BY <1>4 DEF Cancel, Fault, Goto
<1>5. ASSUME Reuse(w) PROVE WorkerType'
  BY <1>5 DEF Reuse, Goto, Miss, Vanish
<1>6. ASSUME LookWarm(w) PROVE WorkerType'
  BY <1>6 DEF LookWarm, Goto, Miss, Vanish
<1>7. ASSUME Check(w) PROVE WorkerType'
  BY <1>7 DEF Check, Goto
<1>8. ASSUME Drop(w) PROVE WorkerType'
  BY <1>8 DEF Drop, Removable, Forget, Forgotten, Goto, Miss, Vanish
<1>9. ASSUME Dropped(w) PROVE WorkerType'
  BY <1>9 DEF Dropped, Miss, Vanish, Goto
<1>10. ASSUME Touch(w) PROVE WorkerType'
  BY <1>10 DEF Touch, Finish, Goto, Unlock, Miss, Vanish
<1>11. ASSUME Reclaim(w) PROVE WorkerType'
  BY <1>11 DEF Reclaim, Track, Finish, Goto, Unlock, Miss, Vanish
<1>12. ASSUME Discover(w) PROVE WorkerType'
  <2>1. CASE Free # {} /\ info' = [info EXCEPT ![w] = [obj |-> NewObject, id |-> scope[w], named |-> TRUE]]
             /\ Goto(w, "found") /\ UNCHANGED <<again, gone>>
    <3>1. [obj |-> NewObject, id |-> scope[w], named |-> TRUE] \in Info
      BY <2>1, NewInfoType
    <3> QED BY <1>12, <2>1, <3>1 DEF Discover, Goto
  <2>2. CASE Return(w, IF Total >= Replicas THEN "evict" ELSE "create")
    BY <1>12, <2>2 DEF Discover, Return, Goto, Vanish
  <2> QED BY <1>12, <2>1, <2>2 DEF Discover
<1>13. ASSUME Evict(w) PROVE WorkerType'
  BY <1>13 DEF Evict, Goto, Return, Vanish
<1>14. ASSUME Evicted(w) PROVE WorkerType'
  BY <1>14 DEF Evicted, Goto, Vanish
<1>15. ASSUME Create(w) PROVE WorkerType'
  BY NewInfoType, <1>15 DEF Create, Goto
<1>16. ASSUME CreateFails(w) PROVE WorkerType'
  BY <1>16 DEF CreateFails, Finish, Goto, Unlock
<1>17. ASSUME CreatedForNobody(w) PROVE WorkerType'
  BY <1>17 DEF CreatedForNobody, Vanish, Goto
<1>18. ASSUME Register(w) PROVE WorkerType'
  BY <1>18 DEF Register, Track, Finish, Goto, Unlock
<1>19. ASSUME NotReady(w) PROVE WorkerType'
  BY <1>19 DEF NotReady, Goto
<1>20. ASSUME Unready(w) PROVE WorkerType'
  BY <1>20 DEF Unready, Finish, Goto, Unlock
<1>21. ASSUME Release(w) PROVE WorkerType'
  BY <1>21 DEF Release, Park, Goto
<1>22. ASSUME AskAny(w) PROVE WorkerType'
  BY <1>22 DEF AskAny, Ask, MayCall, Goto
<1> QED
  BY <1>1, <1>2, <1>3, <1>4, <1>5, <1>6, <1>7, <1>8, <1>9, <1>10, <1>11, <1>12, <1>13, <1>14, <1>15, <1>16, <1>17, <1>18, <1>19, <1>20, <1>21, <1>22
     DEF WorkerStep, Acquire

\* ... and the types of the maps, of the backend and of the other threads.
LEMMA MapTypeStep ==
  ASSUME TypeOK, NEW w \in Worker, WorkerStep(w)
  PROVE  MapType'
<1> WorkerType /\ MapType /\ BackType
  BY TypeParts
<1>1. ASSUME Get(w) PROVE MapType'
  BY <1>1 DEF Get, MayCall, Goto, pool, MapType, WorkerType, workers
<1>2. ASSUME Lock(w) PROVE MapType'
  BY <1>2 DEF Lock, Goto, pool, MapType, WorkerType, workers
<1>3. ASSUME ReleaseCancelled(w) PROVE MapType'
  BY <1>3 DEF ReleaseCancelled, Finish, Goto, Unlock, pool, MapType, WorkerType, workers
<1>4. ASSUME Cancel(w) PROVE MapType'
  BY <1>4 DEF Cancel, Fault, Goto, pool, MapType, WorkerType, workers
<1>5. ASSUME Reuse(w) PROVE MapType'
  BY <1>5 DEF Reuse, Goto, Miss, Vanish, pool, MapType, WorkerType, workers
<1>6. ASSUME LookWarm(w) PROVE MapType'
  BY <1>6 DEF LookWarm, Goto, Miss, Vanish, pool, MapType, WorkerType, workers
<1>7. ASSUME Check(w) PROVE MapType'
  BY <1>7 DEF Check, Goto, pool, MapType, WorkerType, workers
<1>8. ASSUME Drop(w) PROVE MapType'
  <2>1. scope[w] \in Scope
    BY DEF WorkerType
  <2> QED BY <1>8, <2>1 DEF Drop, Forget, pool, MapType
<1>9. ASSUME Dropped(w) PROVE MapType'
  BY <1>9 DEF Dropped, Miss, Vanish, Goto, pool, MapType, WorkerType, workers
<1>10. ASSUME Touch(w) PROVE MapType'
  BY <1>10 DEF Touch, Finish, Goto, Unlock, Miss, Vanish, pool, MapType, WorkerType, workers
<1>11. ASSUME Reclaim(w) PROVE MapType'
  <2>1. scope[w] \in Scope /\ warm[scope[w]] \in Info \cup {NoInfo}
    BY DEF WorkerType, MapType
  <2>2. CASE Track(scope[w], warm[scope[w]]) /\ warm' = [warm EXCEPT ![scope[w]] = NoInfo]
    BY <2>1, <2>2, TrackType DEF MapType
  <2>3. CASE UNCHANGED pool
    BY <2>3 DEF pool, MapType
  <2> QED BY <1>11, <2>2, <2>3 DEF Reclaim, pool
<1>12. ASSUME Discover(w) PROVE MapType'
  BY <1>12 DEF Discover, Goto, Return, Vanish, pool, MapType, WorkerType, workers
<1>13. ASSUME Evict(w) PROVE MapType'
  BY <1>13 DEF Evict, Goto, Return, Vanish, pool, MapType, WorkerType, workers
<1>14. ASSUME Evicted(w) PROVE MapType'
  BY <1>14 DEF Evicted, Goto, Vanish, pool, MapType, WorkerType, workers
<1>15. ASSUME Create(w) PROVE MapType'
  BY <1>15 DEF Create, Goto, pool, MapType, WorkerType, workers
<1>16. ASSUME CreateFails(w) PROVE MapType'
  BY <1>16 DEF CreateFails, Finish, Goto, Unlock, pool, MapType, WorkerType, workers
<1>17. ASSUME CreatedForNobody(w) PROVE MapType'
  BY <1>17 DEF CreatedForNobody, Vanish, Goto, pool, MapType, WorkerType, workers
<1>18. ASSUME Register(w) PROVE MapType'
  <2>1. scope[w] \in Scope /\ info[w] \in Info \cup {NoInfo}
    BY DEF WorkerType
  <2> QED BY <1>18, <2>1, TrackType DEF Register, MapType
<1>19. ASSUME NotReady(w) PROVE MapType'
  BY <1>19 DEF NotReady, Goto, pool, MapType, WorkerType, workers
<1>20. ASSUME Unready(w) PROVE MapType'
  BY <1>20 DEF Unready, Finish, Goto, Unlock, pool, MapType, WorkerType, workers
<1>21. ASSUME Release(w) PROVE MapType'
  BY <1>21 DEF Release, Park, Goto, pool, MapType, WorkerType, workers
<1>22. ASSUME AskAny(w) PROVE MapType'
  BY <1>22 DEF AskAny, Ask, MayCall, Goto, pool, MapType, WorkerType, workers
<1> QED
  BY <1>1, <1>2, <1>3, <1>4, <1>5, <1>6, <1>7, <1>8, <1>9, <1>10, <1>11, <1>12, <1>13, <1>14, <1>15, <1>16, <1>17, <1>18, <1>19, <1>20, <1>21, <1>22
     DEF WorkerStep, Acquire

LEMMA BackTypeStep ==
  ASSUME TypeOK, NEW w \in Worker, WorkerStep(w)
  PROVE  BackType' /\ faults <= faults'
<1> WorkerType /\ MapType /\ BackType
  BY TypeParts
<1>0. faults \in Nat
  BY DEF BackType
<1> USE <1>0
<1>1. ASSUME Get(w) PROVE BackType' /\ faults <= faults'
  BY <1>1, CallType DEF Get, BackType
<1>2. ASSUME Lock(w) PROVE BackType' /\ faults <= faults'
  BY <1>2 DEF Lock, Goto, used, BackType, WorkerType
<1>3. ASSUME ReleaseCancelled(w) PROVE BackType' /\ faults <= faults'
  BY <1>3 DEF ReleaseCancelled, Finish, Goto, Unlock, used, BackType, WorkerType
<1>4. ASSUME Cancel(w) PROVE BackType' /\ faults <= faults'
  BY <1>4, FaultType DEF Cancel, BackType
<1>5. ASSUME Reuse(w) PROVE BackType' /\ faults <= faults'
  BY <1>5 DEF Reuse, Goto, Miss, Vanish, used, BackType, WorkerType
<1>6. ASSUME LookWarm(w) PROVE BackType' /\ faults <= faults'
  BY <1>6 DEF LookWarm, Goto, Miss, Vanish, used, BackType, WorkerType
<1>7. ASSUME Check(w) PROVE BackType' /\ faults <= faults'
  BY <1>7 DEF Check, Goto, used, BackType, WorkerType
<1>8. ASSUME Drop(w) PROVE BackType' /\ faults <= faults'
  BY <1>8 DEF Drop, Removable, Forget, Forgotten, Goto, Miss, Vanish, used, BackType, WorkerType
<1>9. ASSUME Dropped(w) PROVE BackType' /\ faults <= faults'
  <2>1. info[w] \in Info \cup {NoInfo} /\ Stop(info[w])
    BY <1>9 DEF Dropped, WorkerType
  <2>2. BackType' /\ faults' \in {faults, faults + 1}
    BY <2>1, StopType
  <2> QED BY <2>2 DEF BackType
<1>10. ASSUME Touch(w) PROVE BackType' /\ faults <= faults'
  BY <1>10 DEF Touch, Finish, Goto, Unlock, Miss, Vanish, used, BackType, WorkerType
<1>11. ASSUME Reclaim(w) PROVE BackType' /\ faults <= faults'
  <2>1. scope[w] \in Scope /\ warm[scope[w]] \in Info \cup {NoInfo}
    BY DEF WorkerType, MapType
  <2>2. lost' \subseteq Scope
    BY <1>11, <2>1, TrackType DEF Reclaim, BackType
  <2> QED BY <1>11, <2>2 DEF Reclaim, BackType, used
<1>12. ASSUME Discover(w) PROVE BackType' /\ faults <= faults'
  BY <1>12 DEF Discover, Goto, Return, Vanish, used, BackType, WorkerType
<1>13. ASSUME Evict(w) PROVE BackType' /\ faults <= faults'
  BY <1>13 DEF Evict, Goto, Return, Vanish, used, BackType, WorkerType
<1>14. ASSUME Evicted(w) PROVE BackType' /\ faults <= faults'
  <2>1. info[w] \in Info \cup {NoInfo} /\ Stop(info[w])
    BY <1>14 DEF Evicted, WorkerType
  <2>2. BackType' /\ faults' \in {faults, faults + 1}
    BY <2>1, StopType
  <2> QED BY <2>2 DEF BackType
<1>15. ASSUME Create(w) PROVE BackType' /\ faults <= faults'
  <2>1. NewObject \in 0..MaxObjects
    BY <1>15 DEF Create, NewObject, Free
  <2>2. running' \in [Scope -> 0..MaxObjects]
    BY <1>15, <2>1 DEF Create, BackType
  <2> QED BY <1>15, <2>2 DEF Create, BackType, used
<1>16. ASSUME CreateFails(w) PROVE BackType' /\ faults <= faults'
  BY <1>16 DEF CreateFails, Finish, Goto, Unlock, used, BackType, WorkerType
<1>17. ASSUME CreatedForNobody(w) PROVE BackType' /\ faults <= faults'
  BY <1>17 DEF CreatedForNobody, Vanish, Goto, used, BackType, WorkerType
<1>18. ASSUME Register(w) PROVE BackType' /\ faults <= faults'
  <2>1. scope[w] \in Scope /\ info[w] \in Info \cup {NoInfo}
    BY DEF WorkerType
  <2>2. lost' \subseteq Scope
    BY <1>18, <2>1, TrackType DEF Register
  <2> QED BY <1>18, <2>2 DEF Register, BackType, used
<1>19. ASSUME NotReady(w) PROVE BackType' /\ faults <= faults'
  BY <1>19 DEF NotReady, Goto, used, BackType, WorkerType
<1>20. ASSUME Unready(w) PROVE BackType' /\ faults <= faults'
  <2>1. info[w] \in Info \cup {NoInfo} /\ Stop(info[w])
    BY <1>20 DEF Unready, WorkerType
  <2>2. BackType' /\ faults' \in {faults, faults + 1}
    BY <2>1, StopType
  <2> QED BY <2>2 DEF BackType
<1>21. ASSUME Release(w) PROVE BackType' /\ faults <= faults'
  BY <1>21 DEF Release, Park, Goto, used, BackType, WorkerType
<1>22. ASSUME AskAny(w) PROVE BackType' /\ faults <= faults'
  BY <1>22, CallType DEF AskAny, Ask, BackType
<1> QED
  BY <1>1, <1>2, <1>3, <1>4, <1>5, <1>6, <1>7, <1>8, <1>9, <1>10, <1>11, <1>12, <1>13, <1>14, <1>15, <1>16, <1>17, <1>18, <1>19, <1>20, <1>21, <1>22
     DEF WorkerStep, Acquire

LEMMA SideStep ==
  ASSUME TypeOK, NEW w \in Worker, WorkerStep(w)
  PROVE  SideType' /\ sweep' = sweep /\ shut' = shut
<1> SideType
  BY TypeParts
<1>1. ASSUME Get(w) PROVE SideType' /\ sweep' = sweep /\ shut' = shut
  BY <1>1 DEF Get, MayCall, Goto, SideType
<1>2. ASSUME Lock(w) PROVE SideType' /\ sweep' = sweep /\ shut' = shut
  BY <1>2 DEF Lock, Goto, SideType
<1>3. ASSUME ReleaseCancelled(w) PROVE SideType' /\ sweep' = sweep /\ shut' = shut
  BY <1>3 DEF ReleaseCancelled, Finish, Goto, Unlock, SideType
<1>4. ASSUME Cancel(w) PROVE SideType' /\ sweep' = sweep /\ shut' = shut
  BY <1>4 DEF Cancel, Fault, Goto, SideType
<1>5. ASSUME Reuse(w) PROVE SideType' /\ sweep' = sweep /\ shut' = shut
  BY <1>5 DEF Reuse, Goto, Miss, Vanish, SideType
<1>6. ASSUME LookWarm(w) PROVE SideType' /\ sweep' = sweep /\ shut' = shut
  BY <1>6 DEF LookWarm, Goto, Miss, Vanish, SideType
<1>7. ASSUME Check(w) PROVE SideType' /\ sweep' = sweep /\ shut' = shut
  BY <1>7 DEF Check, Goto, SideType
<1>8. ASSUME Drop(w) PROVE SideType' /\ sweep' = sweep /\ shut' = shut
  BY <1>8 DEF Drop, Removable, Forget, Forgotten, Goto, Miss, Vanish, SideType
<1>9. ASSUME Dropped(w) PROVE SideType' /\ sweep' = sweep /\ shut' = shut
  BY <1>9 DEF Dropped, Miss, Vanish, Goto, SideType
<1>10. ASSUME Touch(w) PROVE SideType' /\ sweep' = sweep /\ shut' = shut
  BY <1>10 DEF Touch, Finish, Goto, Unlock, Miss, Vanish, SideType
<1>11. ASSUME Reclaim(w) PROVE SideType' /\ sweep' = sweep /\ shut' = shut
  BY <1>11 DEF Reclaim, Track, Finish, Goto, Unlock, Miss, Vanish, SideType
<1>12. ASSUME Discover(w) PROVE SideType' /\ sweep' = sweep /\ shut' = shut
  BY <1>12 DEF Discover, Goto, Return, Vanish, SideType
<1>13. ASSUME Evict(w) PROVE SideType' /\ sweep' = sweep /\ shut' = shut
  BY <1>13 DEF Evict, Goto, Return, Vanish, SideType
<1>14. ASSUME Evicted(w) PROVE SideType' /\ sweep' = sweep /\ shut' = shut
  BY <1>14 DEF Evicted, Goto, Vanish, SideType
<1>15. ASSUME Create(w) PROVE SideType' /\ sweep' = sweep /\ shut' = shut
  BY <1>15 DEF Create, Goto, SideType
<1>16. ASSUME CreateFails(w) PROVE SideType' /\ sweep' = sweep /\ shut' = shut
  BY <1>16 DEF CreateFails, Finish, Goto, Unlock, SideType
<1>17. ASSUME CreatedForNobody(w) PROVE SideType' /\ sweep' = sweep /\ shut' = shut
  BY <1>17 DEF CreatedForNobody, Vanish, Goto, SideType
<1>18. ASSUME Register(w) PROVE SideType' /\ sweep' = sweep /\ shut' = shut
  BY <1>18 DEF Register, Track, Finish, Goto, Unlock, SideType
<1>19. ASSUME NotReady(w) PROVE SideType' /\ sweep' = sweep /\ shut' = shut
  BY <1>19 DEF NotReady, Goto, SideType
<1>20. ASSUME Unready(w) PROVE SideType' /\ sweep' = sweep /\ shut' = shut
  BY <1>20 DEF Unready, Finish, Goto, Unlock, SideType
<1>21. ASSUME Release(w) PROVE SideType' /\ sweep' = sweep /\ shut' = shut
  BY <1>21 DEF Release, Park, Goto, SideType
<1>22. ASSUME AskAny(w) PROVE SideType' /\ sweep' = sweep /\ shut' = shut
  BY <1>22 DEF AskAny, Ask, MayCall, Goto, SideType
<1> QED
  BY <1>1, <1>2, <1>3, <1>4, <1>5, <1>6, <1>7, <1>8, <1>9, <1>10, <1>11, <1>12, <1>13, <1>14, <1>15, <1>16, <1>17, <1>18, <1>19, <1>20, <1>21, <1>22
     DEF WorkerStep, Acquire

-----------------------------------------------------------------------------
(* What a step does to the maps. *)

\* Nothing becomes active, and nothing new becomes warm.
Still(s) ==
    /\ active'[s] \in {NoInfo, active[s]}
    /\ warm'[s] \in {NoInfo, active[s], warm[s]}
    /\ Exclusive(s) => ~(active'[s] # NoInfo /\ warm'[s] # NoInfo)

\* A warm entry is promoted.
Promotes(s) == Warm(s) /\ active'[s] = warm[s] /\ warm'[s] = NoInfo

\* All steps but two are quiet.
StillStep(w) ==
    \/ Get(w) \/ Lock(w) \/ ReleaseCancelled(w) \/ Cancel(w) \/ Reuse(w) \/ LookWarm(w)
    \/ Check(w) \/ Drop(w) \/ Dropped(w) \/ Touch(w) \/ Discover(w) \/ Evict(w)
    \/ Evicted(w) \/ Create(w) \/ CreateFails(w) \/ CreatedForNobody(w) \/ NotReady(w) \/ Unready(w)
    \/ Release(w) \/ AskAny(w)

LEMMA StillSteps ==
  ASSUME TypeOK, NEW w \in Worker, StillStep(w)
  PROVE  \A s \in Scope : Still(s)
<1> WorkerType /\ MapType
  BY TypeParts
<1> USE DEF WorkerType, MapType, Active, Warm, Exclusive, pool
<1>1. ASSUME Get(w) PROVE \A s \in Scope : Still(s)
  BY <1>1 DEF Get, MayCall, Goto, Still
<1>2. ASSUME Lock(w) PROVE \A s \in Scope : Still(s)
  BY <1>2 DEF Lock, Goto, Still
<1>3. ASSUME ReleaseCancelled(w) PROVE \A s \in Scope : Still(s)
  BY <1>3 DEF ReleaseCancelled, Finish, Goto, Unlock, Still
<1>4. ASSUME Cancel(w) PROVE \A s \in Scope : Still(s)
  BY <1>4 DEF Cancel, Fault, Goto, Still
<1>5. ASSUME Reuse(w) PROVE \A s \in Scope : Still(s)
  BY <1>5 DEF Reuse, Goto, Miss, Vanish, Still
<1>6. ASSUME LookWarm(w) PROVE \A s \in Scope : Still(s)
  BY <1>6 DEF LookWarm, Goto, Miss, Vanish, Still
<1>7. ASSUME Check(w) PROVE \A s \in Scope : Still(s)
  BY <1>7 DEF Check, Goto, Still
<1>8. ASSUME Drop(w) PROVE \A s \in Scope : Still(s)
  <2>1. CASE Forget(scope[w])
    BY <2>1 DEF Forget, Still
  <2>2. CASE UNCHANGED pool
    BY <2>2 DEF Still
  <2> QED BY <1>8, <2>1, <2>2 DEF Drop
<1>9. ASSUME Dropped(w) PROVE \A s \in Scope : Still(s)
  BY <1>9 DEF Dropped, Miss, Vanish, Goto, Still
<1>10. ASSUME Touch(w) PROVE \A s \in Scope : Still(s)
  BY <1>10 DEF Touch, Finish, Goto, Unlock, Miss, Vanish, Still
<1>11. ASSUME Discover(w) PROVE \A s \in Scope : Still(s)
  BY <1>11 DEF Discover, Goto, Return, Vanish, Still
<1>12. ASSUME Evict(w) PROVE \A s \in Scope : Still(s)
  BY <1>12 DEF Evict, Goto, Return, Vanish, Still
<1>13. ASSUME Evicted(w) PROVE \A s \in Scope : Still(s)
  BY <1>13 DEF Evicted, Goto, Vanish, Still
<1>14. ASSUME Create(w) PROVE \A s \in Scope : Still(s)
  BY <1>14 DEF Create, Goto, Still
<1>15. ASSUME CreateFails(w) PROVE \A s \in Scope : Still(s)
  BY <1>15 DEF CreateFails, Finish, Goto, Unlock, Still
<1>16. ASSUME CreatedForNobody(w) PROVE \A s \in Scope : Still(s)
  BY <1>16 DEF CreatedForNobody, Vanish, Goto, Still
<1>17. ASSUME NotReady(w) PROVE \A s \in Scope : Still(s)
  BY <1>17 DEF NotReady, Goto, Still
<1>18. ASSUME Unready(w) PROVE \A s \in Scope : Still(s)
  BY <1>18 DEF Unready, Finish, Goto, Unlock, Still
<1>19. ASSUME Release(w) PROVE \A s \in Scope : Still(s)
  BY <1>19 DEF Release, Park, Goto, Still
<1>20. ASSUME AskAny(w) PROVE \A s \in Scope : Still(s)
  BY <1>20 DEF AskAny, Ask, Goto, Still
<1> QED
  BY <1>1, <1>2, <1>3, <1>4, <1>5, <1>6, <1>7, <1>8, <1>9, <1>10, <1>11, <1>12, <1>13, <1>14, <1>15, <1>16, <1>17, <1>18, <1>19, <1>20
     DEF StillStep

LEMMA PromotingStep ==
  ASSUME TypeOK, NEW w \in Worker, Reclaim(w)
  PROVE  \A s \in Scope : Still(s) \/ (s = scope[w] /\ Promotes(s))
<1> WorkerType /\ MapType
  BY TypeParts
<1> USE DEF WorkerType, MapType
<1>1. CASE Warm(scope[w]) /\ Track(scope[w], warm[scope[w]]) /\ warm' = [warm EXCEPT ![scope[w]] = NoInfo]
  BY <1>1 DEF Track, Still, Promotes, Exclusive, Active, Warm
<1>2. CASE UNCHANGED pool
  BY <1>2 DEF pool, Still, Exclusive, Active, Warm
<1> QED BY <1>1, <1>2 DEF Reclaim

LEMMA RegisteringStep ==
  ASSUME TypeOK, NEW w \in Worker, Register(w)
  PROVE  \A s \in Scope : s # scope[w] => Still(s)
BY TypeParts DEF WorkerType, MapType, Register, Track, Still, Exclusive, Active, Warm

-----------------------------------------------------------------------------
(* The steps of the other threads leave the workers alone. *)

OtherStep ==
    \/ \E s \in Scope : Age(s) \/ Die(s) \/ Verify(s) \/ DestroyOnShutdown(s)
    \/ Mark \/ DestroyIdle \/ Reap \/ Swept \/ Shutdown
    \/ \E i \in sweep.stop : StopIdle(i)
    \/ \E i \in shut.stop \cup shut.rest : StopOnShutdown(i)

LEMMA OtherMaps ==
  ASSUME TypeOK, OtherStep
  PROVE  MapType' /\ UNCHANGED workers /\ \A t \in Scope : Still(t)
<1> MapType /\ BackType /\ SideType
  BY TypeParts
<1>0. faults \in Nat
  BY DEF BackType
<1> USE <1>0 DEF MapType, pool, Still, Exclusive, Active, Warm
<1>1. ASSUME NEW s \in Scope, Age(s) PROVE MapType' /\ UNCHANGED workers /\ \A t \in Scope : Still(t)
  BY <1>1 DEF Age
<1>2. ASSUME NEW s \in Scope, Die(s) PROVE MapType' /\ UNCHANGED workers /\ \A t \in Scope : Still(t)
  BY <1>2 DEF Die
<1>3. ASSUME NEW s \in Scope, Verify(s) PROVE MapType' /\ UNCHANGED workers /\ \A t \in Scope : Still(t)
  BY <1>3 DEF Verify
<1>4. ASSUME NEW s \in Scope, DestroyOnShutdown(s) PROVE MapType' /\ UNCHANGED workers /\ \A t \in Scope : Still(t)
  BY <1>4 DEF DestroyOnShutdown, Forget, Destroyed, Forgotten
<1>5. ASSUME Mark PROVE MapType' /\ UNCHANGED workers /\ \A t \in Scope : Still(t)
  BY <1>5 DEF Mark, Quiet
<1>6. ASSUME DestroyIdle PROVE MapType' /\ UNCHANGED workers /\ \A t \in Scope : Still(t)
  BY <1>6 DEF DestroyIdle, Forget, Destroyed, Forgotten
<1>7. ASSUME Reap PROVE MapType' /\ UNCHANGED workers /\ \A t \in Scope : Still(t)
  BY <1>7 DEF Reap, Expired
<1>8. ASSUME Swept PROVE MapType' /\ UNCHANGED workers /\ \A t \in Scope : Still(t)
  BY <1>8 DEF Swept
<1>9. ASSUME Shutdown PROVE MapType' /\ UNCHANGED workers /\ \A t \in Scope : Still(t)
  BY <1>9 DEF Shutdown
<1>10. ASSUME NEW i \in sweep.stop, StopIdle(i) PROVE MapType' /\ UNCHANGED workers /\ \A t \in Scope : Still(t)
  BY <1>10 DEF StopIdle
<1>11. ASSUME NEW i \in shut.stop \cup shut.rest, StopOnShutdown(i) PROVE MapType' /\ UNCHANGED workers /\ \A t \in Scope : Still(t)
  BY <1>11 DEF StopOnShutdown
<1> QED
  BY <1>1, <1>2, <1>3, <1>4, <1>5, <1>6, <1>7, <1>8, <1>9, <1>10, <1>11 DEF OtherStep

LEMMA OtherBack ==
  ASSUME TypeOK, OtherStep
  PROVE  BackType' /\ faults <= faults'
<1> MapType /\ BackType /\ SideType
  BY TypeParts
<1>0. faults \in Nat
  BY DEF BackType
<1> USE <1>0 DEF BackType, used
<1>1. ASSUME NEW s \in Scope, Age(s) PROVE BackType' /\ faults <= faults'
  BY <1>1 DEF Age
<1>2. ASSUME NEW s \in Scope, Die(s) PROVE BackType' /\ faults <= faults'
  <2>1. calls' \in 0..MaxCalls /\ faults' \in 0..MaxFaults /\ faults' = faults + 1
    BY <1>2, FaultType DEF Die
  <2>2. running' \in [Scope -> 0..MaxObjects]
    <3>1. 0 \in 0..MaxObjects
      BY SandboxAssumption
    <3> QED BY <1>2, <3>1 DEF Die
  <2> QED BY <1>2, <2>1, <2>2 DEF Die
<1>3. ASSUME NEW s \in Scope, Verify(s) PROVE BackType' /\ faults <= faults'
  BY <1>3 DEF Verify
<1>4. ASSUME NEW s \in Scope, DestroyOnShutdown(s) PROVE BackType' /\ faults <= faults'
  BY <1>4 DEF DestroyOnShutdown, Forget, Destroyed, Forgotten
<1>5. ASSUME Mark PROVE BackType' /\ faults <= faults'
  BY <1>5 DEF Mark, Quiet
<1>6. ASSUME DestroyIdle PROVE BackType' /\ faults <= faults'
  BY <1>6 DEF DestroyIdle, Forget, Destroyed, Forgotten
<1>7. ASSUME Reap PROVE BackType' /\ faults <= faults'
  BY <1>7 DEF Reap, Expired
<1>8. ASSUME Swept PROVE BackType' /\ faults <= faults'
  BY <1>8 DEF Swept
<1>9. ASSUME Shutdown PROVE BackType' /\ faults <= faults'
  BY FaultType, <1>9 DEF Shutdown
<1>10. ASSUME NEW i \in sweep.stop, StopIdle(i) PROVE BackType' /\ faults <= faults'
  <2>1. i \in Info
    BY DEF SideType
  <2>2. Stop(i)
    BY <1>10 DEF StopIdle
  <2> QED BY <2>1, <2>2, StopType
<1>11. ASSUME NEW i \in shut.stop \cup shut.rest, StopOnShutdown(i) PROVE BackType' /\ faults <= faults'
  <2>1. i \in Info
    BY DEF SideType
  <2>2. Stop(i)
    BY <1>11 DEF StopOnShutdown
  <2> QED BY <2>1, <2>2, StopType
<1> QED
  BY <1>1, <1>2, <1>3, <1>4, <1>5, <1>6, <1>7, <1>8, <1>9, <1>10, <1>11 DEF OtherStep

LEMMA OtherSide ==
  ASSUME TypeOK, SweepInv, OtherStep
  PROVE  SideType' /\ SweepInv'
<1> MapType /\ BackType /\ SideType
  BY TypeParts
<1>0. faults \in Nat
  BY DEF BackType
<1> USE <1>0 DEF SideType, SweepInv, MapType, Quiet, Nobody, Active, Warm
<1>1. ASSUME NEW s \in Scope, Age(s) PROVE SideType' /\ SweepInv'
  BY <1>1 DEF Age
<1>2. ASSUME NEW s \in Scope, Die(s) PROVE SideType' /\ SweepInv'
  BY <1>2 DEF Die
<1>3. ASSUME NEW s \in Scope, Verify(s) PROVE SideType' /\ SweepInv'
  BY <1>3 DEF Verify
<1>4. ASSUME NEW s \in Scope, DestroyOnShutdown(s) PROVE SideType' /\ SweepInv'
  BY <1>4 DEF DestroyOnShutdown, Forget, Destroyed, Forgotten
<1>5. ASSUME Mark PROVE SideType' /\ SweepInv'
  BY <1>5 DEF Mark, Quiet
<1>6. ASSUME DestroyIdle PROVE SideType' /\ SweepInv'
  <2>1. Destroyed(sweep.now) \subseteq Info
    BY <1>6 DEF DestroyIdle, Destroyed, Forgotten
  <2> QED BY <1>6, <2>1 DEF DestroyIdle
<1>7. ASSUME Reap PROVE SideType' /\ SweepInv'
  <2>1. {warm[s] : s \in Expired} \subseteq Info
    BY DEF Expired
  <2> QED BY <1>7, <2>1 DEF Reap
<1>8. ASSUME Swept PROVE SideType' /\ SweepInv'
  BY <1>8 DEF Swept
<1>9. ASSUME Shutdown PROVE SideType' /\ SweepInv'
  BY <1>9 DEF Shutdown
<1>10. ASSUME NEW i \in sweep.stop, StopIdle(i) PROVE SideType' /\ SweepInv'
  BY <1>10 DEF StopIdle
<1>11. ASSUME NEW i \in shut.stop \cup shut.rest, StopOnShutdown(i) PROVE SideType' /\ SweepInv'
  BY <1>11 DEF StopOnShutdown
<1> QED
  BY <1>1, <1>2, <1>3, <1>4, <1>5, <1>6, <1>7, <1>8, <1>9, <1>10, <1>11 DEF OtherStep

-----------------------------------------------------------------------------
(* The lock, and what its holder may rely on. *)

Same(x) ==
    /\ pc'[x] = pc[x] /\ scope'[x] = scope[x] /\ info'[x] = info[x]
    /\ (x \in gone' <=> x \in gone) /\ (x \in again' <=> x \in again)

LEMMA StillHolder ==
  ASSUME NEW x \in Worker, ClearOf(x), Same(x), Still(scope[x]), gone' \subseteq gone,
         \A g \in gone' : scope'[g] = scope[g]
  PROVE  ClearOf(x)'
<1>1. Absent(scope[x]) => Absent(scope[x])'
  BY DEF Still, Absent, Active, Warm, Same
<1>2. Pending(scope[x])' => Pending(scope[x])
  BY DEF Pending, Same
<1>3. ~Active(scope[x]) => ~Active(scope[x])'
  BY DEF Still, Active, Same
<1>4. Attached(x)' <=> Attached(x)
  BY DEF Attached, Same
<1>5. ASSUME Attached(x), pc[x] \in Looked
      PROVE  info'[x] # NoInfo /\ active'[scope'[x]] \in {NoInfo, info'[x]} /\ warm'[scope'[x]] \in {NoInfo, info'[x]}
  BY <1>5 DEF ClearOf, Still, Same
<1>6. ASSUME Attached(x) PROVE ClearOf(x)'
  BY <1>1, <1>2, <1>3, <1>5, <1>6 DEF ClearOf, Same
<1> QED BY <1>4, <1>6 DEF ClearOf

\* A step of w leaves the other workers and their locks alone.
Alone(w) ==
    /\ \A x \in Worker \ {w} : Same(x) /\ (lock[scope[x]] = x => lock'[scope[x]] = x)
    /\ gone' \subseteq gone \cup {w}

LEMMA AloneStep ==
  ASSUME TypeOK, LockInv, NEW w \in Worker, WorkerStep(w)
  PROVE  Alone(w)
<1> WorkerType /\ LockOf(w)
  BY TypeParts DEF LockInv
<1>0. Attached(w) \/ pc[w] = "granted" => lock[scope[w]] = w
  BY DEF LockOf
<1> USE NobodyAssumption DEF WorkerType, Alone, Same
<1>1. ASSUME Get(w) PROVE Alone(w)
  BY <1>1 DEF Get, MayCall, Goto, workers
<1>2. ASSUME Lock(w) PROVE Alone(w)
  BY <1>2 DEF Lock, MayLock, Goto, workers
<1>3. ASSUME ReleaseCancelled(w) PROVE Alone(w)
  BY <1>0, <1>3 DEF ReleaseCancelled, Attached, Finish, Goto, Unlock, workers
<1>4. ASSUME Cancel(w) PROVE Alone(w)
  BY <1>0, <1>4 DEF Attached, Cancel, Fault, Goto, workers
<1>5. ASSUME Reuse(w) PROVE Alone(w)
  BY <1>5 DEF Reuse, Goto, Miss, Vanish, workers
<1>6. ASSUME LookWarm(w) PROVE Alone(w)
  BY <1>6 DEF LookWarm, Goto, Miss, Vanish, workers
<1>7. ASSUME Check(w) PROVE Alone(w)
  BY <1>7 DEF Check, Goto, workers
<1>8. ASSUME Drop(w) PROVE Alone(w)
  BY <1>8 DEF Drop, Removable, Forget, Forgotten, Goto, Miss, Vanish, workers
<1>9. ASSUME Dropped(w) PROVE Alone(w)
  BY <1>9 DEF Dropped, Miss, Vanish, Goto, workers
<1>10. ASSUME Touch(w) PROVE Alone(w)
  BY <1>0, <1>10 DEF Attached, Touch, Finish, Goto, Unlock, Miss, Vanish, workers
<1>11. ASSUME Reclaim(w) PROVE Alone(w)
  BY <1>0, <1>11 DEF Attached, Reclaim, Track, Finish, Goto, Unlock, Miss, Vanish, workers
<1>12. ASSUME Discover(w) PROVE Alone(w)
  BY <1>12 DEF Discover, Goto, Return, Vanish, workers
<1>13. ASSUME Evict(w) PROVE Alone(w)
  BY <1>13 DEF Evict, Goto, Return, Vanish, workers
<1>14. ASSUME Evicted(w) PROVE Alone(w)
  BY <1>14 DEF Evicted, Goto, Vanish, workers
<1>15. ASSUME Create(w) PROVE Alone(w)
  BY <1>15 DEF Create, Goto, workers
<1>16. ASSUME CreateFails(w) PROVE Alone(w)
  BY <1>0, <1>16 DEF Attached, CreateFails, Finish, Goto, Unlock, workers
<1>17. ASSUME CreatedForNobody(w) PROVE Alone(w)
  BY <1>17 DEF CreatedForNobody, Vanish, Goto, workers
<1>18. ASSUME Register(w) PROVE Alone(w)
  BY <1>0, <1>18 DEF Attached, Register, Track, Finish, Goto, Unlock, workers
<1>19. ASSUME NotReady(w) PROVE Alone(w)
  BY <1>19 DEF NotReady, Goto, workers
<1>20. ASSUME Unready(w) PROVE Alone(w)
  BY <1>0, <1>20 DEF Attached, Unready, Finish, Goto, Unlock, workers
<1>21. ASSUME Release(w) PROVE Alone(w)
  BY <1>21 DEF Release, Park, Goto, workers
<1>22. ASSUME AskAny(w) PROVE Alone(w)
  BY <1>22 DEF AskAny, Ask, MayCall, Goto, workers
<1> QED
  BY <1>1, <1>2, <1>3, <1>4, <1>5, <1>6, <1>7, <1>8, <1>9, <1>10, <1>11, <1>12, <1>13, <1>14, <1>15, <1>16, <1>17, <1>18, <1>19, <1>20, <1>21, <1>22
     DEF WorkerStep, Acquire

\* Nobody is gone who was not, unless w is cancelled.
LEMMA GoneStep ==
  ASSUME NEW w \in Worker, WorkerStep(w), ~Cancel(w)
  PROVE  gone' \subseteq gone
<1>1. ASSUME Get(w) PROVE gone' \subseteq gone
  BY <1>1 DEF Get, MayCall, Goto, workers
<1>2. ASSUME Lock(w) PROVE gone' \subseteq gone
  BY <1>2 DEF Lock, Goto, workers
<1>3. ASSUME ReleaseCancelled(w) PROVE gone' \subseteq gone
  BY <1>3 DEF ReleaseCancelled, Finish, Goto, Unlock, workers
<1>4. ~Cancel(w)
  OBVIOUS
<1>5. ASSUME Reuse(w) PROVE gone' \subseteq gone
  BY <1>5 DEF Reuse, Goto, Miss, Vanish, workers
<1>6. ASSUME LookWarm(w) PROVE gone' \subseteq gone
  BY <1>6 DEF LookWarm, Goto, Miss, Vanish, workers
<1>7. ASSUME Check(w) PROVE gone' \subseteq gone
  BY <1>7 DEF Check, Goto, workers
<1>8. ASSUME Drop(w) PROVE gone' \subseteq gone
  BY <1>8 DEF Drop, Removable, Forget, Forgotten, Goto, Miss, Vanish, workers
<1>9. ASSUME Dropped(w) PROVE gone' \subseteq gone
  BY <1>9 DEF Dropped, Miss, Vanish, Goto, workers
<1>10. ASSUME Touch(w) PROVE gone' \subseteq gone
  BY <1>10 DEF Touch, Finish, Goto, Unlock, Miss, Vanish, workers
<1>11. ASSUME Reclaim(w) PROVE gone' \subseteq gone
  BY <1>11 DEF Reclaim, Track, Finish, Goto, Unlock, Miss, Vanish, workers
<1>12. ASSUME Discover(w) PROVE gone' \subseteq gone
  BY <1>12 DEF Discover, Goto, Return, Vanish, workers
<1>13. ASSUME Evict(w) PROVE gone' \subseteq gone
  BY <1>13 DEF Evict, Goto, Return, Vanish, workers
<1>14. ASSUME Evicted(w) PROVE gone' \subseteq gone
  BY <1>14 DEF Evicted, Goto, Vanish, workers
<1>15. ASSUME Create(w) PROVE gone' \subseteq gone
  BY <1>15 DEF Create, Goto, workers
<1>16. ASSUME CreateFails(w) PROVE gone' \subseteq gone
  BY <1>16 DEF CreateFails, Finish, Goto, Unlock, workers
<1>17. ASSUME CreatedForNobody(w) PROVE gone' \subseteq gone
  BY <1>17 DEF CreatedForNobody, Vanish, Goto, workers
<1>18. ASSUME Register(w) PROVE gone' \subseteq gone
  BY <1>18 DEF Register, Track, Finish, Goto, Unlock, workers
<1>19. ASSUME NotReady(w) PROVE gone' \subseteq gone
  BY <1>19 DEF NotReady, Goto, workers
<1>20. ASSUME Unready(w) PROVE gone' \subseteq gone
  BY <1>20 DEF Unready, Finish, Goto, Unlock, workers
<1>21. ASSUME Release(w) PROVE gone' \subseteq gone
  BY <1>21 DEF Release, Park, Goto, workers
<1>22. ASSUME AskAny(w) PROVE gone' \subseteq gone
  BY <1>22 DEF AskAny, Ask, MayCall, Goto, workers
<1> QED
  BY <1>1, <1>2, <1>3, <1>4, <1>5, <1>6, <1>7, <1>8, <1>9, <1>10, <1>11, <1>12, <1>13, <1>14, <1>15, <1>16, <1>17, <1>18, <1>19, <1>20, <1>21, <1>22
     DEF WorkerStep, Acquire

\* The worker itself: the lock ...
LEMMA OwnLock ==
  ASSUME TypeOK, LockInv, NEW w \in Worker, WorkerStep(w)
  PROVE  LockOf(w)'
<1> WorkerType /\ LockOf(w)
  BY TypeParts DEF LockInv
<1> USE NobodyAssumption DEF WorkerType, LockOf, Attached
<1>1. ASSUME Get(w) PROVE LockOf(w)'
  BY <1>1 DEF Get, MayCall, Goto, workers
<1>2. ASSUME Lock(w) PROVE LockOf(w)'
  BY <1>2 DEF Lock, Goto, workers
<1>3. ASSUME ReleaseCancelled(w) PROVE LockOf(w)'
  BY <1>3 DEF ReleaseCancelled, Finish, Goto, Unlock, workers
<1>4. ASSUME Cancel(w) PROVE LockOf(w)'
  BY <1>4 DEF Cancel, Fault, Goto, workers
<1>5. ASSUME Reuse(w) PROVE LockOf(w)'
  BY <1>5 DEF Reuse, Goto, Miss, Vanish, workers
<1>6. ASSUME LookWarm(w) PROVE LockOf(w)'
  BY <1>6 DEF LookWarm, Goto, Miss, Vanish, workers
<1>7. ASSUME Check(w) PROVE LockOf(w)'
  BY <1>7 DEF Check, Goto, workers
<1>8. ASSUME Drop(w) PROVE LockOf(w)'
  BY <1>8 DEF Drop, Removable, Forget, Forgotten, Goto, Miss, Vanish, workers
<1>9. ASSUME Dropped(w) PROVE LockOf(w)'
  BY <1>9 DEF Dropped, Miss, Vanish, Goto, workers
<1>10. ASSUME Touch(w) PROVE LockOf(w)'
  BY <1>10 DEF Touch, Finish, Goto, Unlock, Miss, Vanish, workers
<1>11. ASSUME Reclaim(w) PROVE LockOf(w)'
  BY <1>11 DEF Reclaim, Track, Finish, Goto, Unlock, Miss, Vanish, workers
<1>12. ASSUME Discover(w) PROVE LockOf(w)'
  BY <1>12 DEF Discover, Goto, Return, Vanish, workers
<1>13. ASSUME Evict(w) PROVE LockOf(w)'
  BY <1>13 DEF Evict, Goto, Return, Vanish, workers
<1>14. ASSUME Evicted(w) PROVE LockOf(w)'
  BY <1>14 DEF Evicted, Goto, Vanish, workers
<1>15. ASSUME Create(w) PROVE LockOf(w)'
  BY <1>15 DEF Create, Goto, workers
<1>16. ASSUME CreateFails(w) PROVE LockOf(w)'
  BY <1>16 DEF CreateFails, Finish, Goto, Unlock, workers
<1>17. ASSUME CreatedForNobody(w) PROVE LockOf(w)'
  BY <1>17 DEF CreatedForNobody, Vanish, Goto, workers
<1>18. ASSUME Register(w) PROVE LockOf(w)'
  BY <1>18 DEF Register, Track, Finish, Goto, Unlock, workers
<1>19. ASSUME NotReady(w) PROVE LockOf(w)'
  BY <1>19 DEF NotReady, Goto, workers
<1>20. ASSUME Unready(w) PROVE LockOf(w)'
  BY <1>20 DEF Unready, Finish, Goto, Unlock, workers
<1>21. ASSUME Release(w) PROVE LockOf(w)'
  BY <1>21 DEF Release, Park, Goto, workers
<1>22. ASSUME AskAny(w) PROVE LockOf(w)'
  BY <1>22 DEF AskAny, Ask, MayCall, Goto, workers
<1> QED
  BY <1>1, <1>2, <1>3, <1>4, <1>5, <1>6, <1>7, <1>8, <1>9, <1>10, <1>11, <1>12, <1>13, <1>14, <1>15, <1>16, <1>17, <1>18, <1>19, <1>20, <1>21, <1>22
     DEF WorkerStep, Acquire

\* ... and its entries.
LEMMA OwnClear ==
  ASSUME TypeOK, LockInv, NEW w \in Worker, WorkerStep(w), ClearOf(w), Exclusive(scope[w])
  PROVE  ClearOf(w)'
<1> WorkerType /\ MapType /\ LockOf(w) /\ scope[w] \in Scope
  BY TypeParts DEF LockInv, WorkerType
<1>0. ~Cancel(w) => gone' \subseteq gone
  BY GoneStep
<1> USE DEF WorkerType, MapType, ClearOf, Attached
<1>1. ASSUME Get(w) PROVE ClearOf(w)'
  BY <1>1 DEF Get, MayCall, Goto
<1>2. ASSUME Lock(w) PROVE ClearOf(w)'
  BY <1>0, <1>2 DEF Lock, LockOf, Goto, pool, Past, Looked, Pending, Absent, Active, Warm
<1>3. ASSUME ReleaseCancelled(w) PROVE ClearOf(w)'
  BY <1>3 DEF ReleaseCancelled, Finish, Goto
<1>4. ASSUME Cancel(w) PROVE ClearOf(w)'
  BY <1>4 DEF Cancel, Goto
<1>5. ASSUME Reuse(w) PROVE ClearOf(w)'
  BY <1>0, <1>5 DEF Reuse, Exclusive, Goto, Miss, Vanish, pool, Past, Looked, Pending, Absent, Active, Warm
<1>6. ASSUME LookWarm(w) PROVE ClearOf(w)'
  BY <1>0, <1>6 DEF LookWarm, Exclusive, Goto, Miss, Vanish, pool, Past, Looked, Pending, Absent, Active, Warm
<1>7. ASSUME Check(w) PROVE ClearOf(w)'
  BY <1>0, <1>7 DEF Check, Goto, pool, Past, Looked, Pending, Absent, Active, Warm
<1>8. ASSUME Drop(w) PROVE ClearOf(w)'
  <2>1. CASE Removable(scope[w], info[w]) /\ Forget(scope[w]) /\ gone' = gone
             /\ Goto(w, IF pc[w] = "dropActive" THEN "stopActive" ELSE "stopWarm")
    <3>1. Absent(scope[w])' /\ ~Active(scope[w])'
      BY <1>8, <2>1 DEF Drop, Forget, Absent, Active, Warm
    <3> QED BY <1>8, <2>1, <3>1 DEF Drop, Goto, Past, Looked
  <2>2. CASE ~Removable(scope[w], info[w]) /\ Miss(w) /\ UNCHANGED pool
    BY <1>8, <2>2 DEF Drop, Removable, Miss, Vanish, Goto, pool, Past, Looked, Pending, Absent, Active, Warm
  <2> QED BY <1>8, <2>1, <2>2 DEF Drop
<1>9. ASSUME Dropped(w) PROVE ClearOf(w)'
  BY <1>0, <1>9 DEF Dropped, Goto, Miss, Vanish, pool, Past, Looked, Pending, Absent, Active, Warm
<1>10. ASSUME Touch(w) PROVE ClearOf(w)'
  BY <1>0, <1>10 DEF Touch, Finish, Goto, Miss, Vanish, pool, Past, Looked, Pending, Absent, Active, Warm
<1>11. ASSUME Reclaim(w) PROVE ClearOf(w)'
  BY <1>0, <1>11 DEF Reclaim, Finish, Goto, Miss, Vanish, pool, Past, Looked, Pending, Absent, Active, Warm
<1>12. ASSUME Discover(w) PROVE ClearOf(w)'
  BY <1>0, <1>12 DEF Discover, Return, Goto, Vanish, pool, Past, Looked, Pending, Absent, Active, Warm
<1>13. ASSUME Evict(w) PROVE ClearOf(w)'
  BY <1>0, <1>13 DEF Evict, Return, Goto, Vanish, pool, Past, Looked, Pending, Absent, Active, Warm
<1>14. ASSUME Evicted(w) PROVE ClearOf(w)'
  BY <1>0, <1>14 DEF Evicted, Goto, Vanish, pool, Past, Looked, Pending, Absent, Active, Warm
<1>15. ASSUME Create(w) PROVE ClearOf(w)'
  BY <1>0, <1>15 DEF Create, Goto, pool, Past, Looked, Pending, Absent, Active, Warm
<1>16. ASSUME CreateFails(w) PROVE ClearOf(w)'
  BY <1>16 DEF CreateFails, Finish, Goto
<1>17. ASSUME CreatedForNobody(w) PROVE ClearOf(w)'
  BY <1>17 DEF CreatedForNobody, Goto, Vanish
<1>18. ASSUME Register(w) PROVE ClearOf(w)'
  BY <1>18 DEF Register, Finish, Goto
<1>19. ASSUME NotReady(w) PROVE ClearOf(w)'
  BY <1>0, <1>19 DEF NotReady, Goto, pool, Past, Looked, Pending, Absent, Active, Warm
<1>20. ASSUME Unready(w) PROVE ClearOf(w)'
  BY <1>20 DEF Unready, Finish, Goto
<1>21. ASSUME Release(w) PROVE ClearOf(w)'
  BY <1>21 DEF Release, Goto
<1>22. ASSUME AskAny(w) PROVE ClearOf(w)'
  BY <1>22 DEF AskAny, Ask, Goto
<1> QED
  BY <1>1, <1>2, <1>3, <1>4, <1>5, <1>6, <1>7, <1>8, <1>9, <1>10, <1>11, <1>12, <1>13, <1>14, <1>15, <1>16, <1>17, <1>18, <1>19, <1>20, <1>21, <1>22
     DEF WorkerStep, Acquire

\* Only a new call changes the scope a worker works for.
LEMMA ScopeStep ==
  ASSUME NEW w \in Worker, WorkerStep(w), ~AskAny(w)
  PROVE  scope' = scope
BY DEF WorkerStep, Acquire, workers, Get, Lock, ReleaseCancelled, Cancel, Reuse, LookWarm, Check, Drop, Dropped, Touch, Reclaim, Discover, Evict, Evicted, Create, CreateFails, CreatedForNobody, Register, NotReady, Unready, Release

LEMMA GoneScope ==
  ASSUME TypeOK, LockInv, NEW w \in Worker, WorkerStep(w), ~Cancel(w)
  PROVE  \A g \in gone' : scope'[g] = scope[g]
<1> WorkerType /\ gone' \subseteq gone
  BY TypeParts, GoneStep
<1>1. CASE AskAny(w)
  <2>1. w \notin gone
    BY <1>1 DEF AskAny, Ask, LockInv, LockOf, WorkerType
  <2> QED BY <1>1, <2>1 DEF AskAny, Ask, WorkerType
<1> QED BY <1>1, ScopeStep

\* Two workers never have the lock of one scope.
LEMMA OneHolder ==
  ASSUME LockInv, NEW w \in Worker, NEW x \in Worker, x # w, Attached(w), Attached(x)
  PROVE  scope[x] # scope[w]
BY DEF LockInv, LockOf

LEMMA CancelFirst ==
  ASSUME TypeOK, LockInv, NEW w \in Worker, Cancel(w), faults' <= 1
  PROVE  gone = {} /\ gone' \subseteq {w}
<1>1. faults = 0
  BY TypeParts DEF Cancel, Fault, BackType
<1> QED BY <1>1 DEF LockInv, Cancel

\* The other workers of the scope.
LEMMA OthersClear ==
  ASSUME TypeOK, LockInv, Clear, NEW w \in Worker, WorkerStep(w), faults' <= 1,
         NEW x \in Worker \ {w}
  PROVE  ClearOf(x)'
<1> WorkerType /\ MapType /\ LockOf(w) /\ ClearOf(x) /\ scope[x] \in Scope
  BY TypeParts DEF LockInv, Clear, WorkerType
<1>0. Same(x)
  BY AloneStep DEF Alone
<1>a. Attached(x)' <=> Attached(x)
  BY <1>0 DEF Same, Attached
<1>1. CASE Cancel(w)
  <2>1. gone = {} /\ gone' \subseteq {w} /\ UNCHANGED pool
    BY <1>1, CancelFirst DEF Cancel
  <2>2. w \in gone' => Attached(w)
    BY <1>1, <2>1 DEF Cancel, Attached, WorkerType
  <2>3. ASSUME Attached(x) PROVE ~Pending(scope[x])'
    <3>1. w \in gone' => scope[x] # scope[w]
      BY <2>2, <2>3, OneHolder
    <3>2. scope' = scope
      BY <1>1 DEF Cancel
    <3> QED BY <2>1, <3>1, <3>2 DEF Pending
  <2>4. scope' = scope
    BY <1>1 DEF Cancel
  <2> QED BY <1>0, <1>a, <2>1, <2>3, <2>4 DEF ClearOf, Same, pool, Absent, Active, Warm
<1>2. CASE ~Cancel(w) /\ Still(scope[x])
  BY <1>0, <1>2, GoneStep, GoneScope, StillHolder
<1>3. CASE Register(w) /\ scope[x] = scope[w]
  <2>1. Attached(w)
    BY <1>3 DEF Register, Attached, LockOf
  <2>2. ~Attached(x)
    BY <1>3, <2>1, OneHolder
  <2> QED BY <1>a, <2>2 DEF ClearOf
<1>4. CASE Reclaim(w) /\ scope[x] = scope[w] /\ ~Still(scope[x])
  <2>1. Promotes(scope[x]) /\ Finish(w, "held")
    <3>1. ~UNCHANGED pool
      BY <1>4 DEF pool, Still, Exclusive, Active, Warm
    <3>2. Promotes(scope[x])
      BY <1>4, PromotingStep
    <3> QED BY <1>4, <3>1, <3>2 DEF Reclaim
  <2>2. ASSUME Attached(x) PROVE ClearOf(x)'
    <3>1. w \in gone
      <4>1. ~Attached(w)
        BY <1>4, <2>2, OneHolder
      <4> QED BY <1>4, <4>1 DEF Reclaim, Attached
    <3>2. gone = {w}
      BY <3>1 DEF Clear
    <3>3. gone' = {}
      BY <2>1, <3>2 DEF Finish
    <3>4. Pending(scope[x])
      BY <1>4, <3>1 DEF Pending
    <3>5. ~Pending(scope[x])'
      BY <3>3 DEF Pending
    <3>6. ~Absent(scope[x])
      BY <2>1 DEF Promotes, Absent
    <3>7. pc[x] \notin Past /\ x \notin again
      BY <2>2, <3>4, <3>6 DEF ClearOf
    <3>8. pc[x] \in Looked => /\ info[x] # NoInfo
                              /\ active'[scope[x]] \in {NoInfo, info[x]}
                              /\ warm'[scope[x]] \in {NoInfo, info[x]}
      BY <2>1, <2>2 DEF ClearOf, Promotes
    <3>9. scope' = scope
      BY <1>4 DEF Reclaim
    <3> QED BY <1>0, <3>5, <3>7, <3>8, <3>9 DEF ClearOf, Same
  <2> QED BY <1>a, <2>2 DEF ClearOf
<1>5. Cancel(w) \/ Still(scope[x]) \/ ((Register(w) \/ Reclaim(w)) /\ scope[x] = scope[w])
  <2>1. CASE Register(w)
    BY <2>1, RegisteringStep
  <2>2. CASE Reclaim(w)
    BY <2>2, PromotingStep
  <2>3. CASE StillStep(w)
    BY <2>3, StillSteps
  <2> QED BY <2>1, <2>2, <2>3 DEF WorkerStep, Acquire, StillStep
<1>6. CASE Cancel(w) \/ ~Still(scope[x])
  BY <1>1, <1>3, <1>4, <1>5, <1>6
<1> QED BY <1>2, <1>6

\* A worker's step leaves no scope active and warm.
LEMMA ExclusiveStep ==
  ASSUME TypeOK, LockInv, Clear, NEW w \in Worker, WorkerStep(w), NEW s \in Scope
  PROVE  Exclusive(s)'
<1> WorkerType /\ Exclusive(s) /\ ClearOf(w) /\ LockOf(w)
  BY TypeParts DEF Clear, LockInv
<1>1. ASSUME Still(s) PROVE Exclusive(s)'
  BY <1>1 DEF Still, Exclusive, Active, Warm
<1>2. CASE Register(w)
  <2>1. Absent(scope[w])
    BY <1>2 DEF Register, LockOf, Attached, ClearOf, Past
  <2>2. warm' = warm
    BY <1>2 DEF Register
  <2>3. s # scope[w] => Still(s)
    BY <1>2, RegisteringStep
  <2> QED BY <1>1, <2>1, <2>2, <2>3 DEF Absent, Exclusive, Warm
<1>3. CASE Reclaim(w)
  <2>1. Still(s) \/ Promotes(s)
    BY <1>3, PromotingStep
  <2> QED BY <1>1, <2>1 DEF Promotes, Exclusive, Warm
<1>4. CASE StillStep(w)
  BY <1>1, <1>4, StillSteps
<1> QED BY <1>2, <1>3, <1>4 DEF WorkerStep, Acquire, StillStep

\* A worker's step keeps the invariant.
LEMMA WorkerInv ==
  ASSUME PoolInv, NEW w \in Worker, WorkerStep(w)
  PROVE  PoolInv'
<1> TypeOK /\ SweepInv /\ LockInv
  BY DEF PoolInv
<1>1. TypeOK'
  BY WorkerTypeStep, MapTypeStep, BackTypeStep, SideStep, TypePartsNext
<1>2. SweepInv'
  BY SideStep DEF SweepInv
<1>3. faults \in Nat /\ faults' \in Nat /\ faults <= faults'
  BY <1>1, BackTypeStep, TypeParts, TypePartsNext DEF BackType
<1>4. LockInv'
  <2>1. ASSUME NEW x \in Worker PROVE LockOf(x)'
    <3>1. CASE x = w
      BY <3>1, OwnLock
    <3>2. CASE x # w
      BY <3>2, AloneStep DEF Alone, Same, LockInv, LockOf, Attached
    <3> QED BY <3>1, <3>2
  <2>2. ASSUME gone' # {} PROVE faults' > 0
    <3>1. CASE Cancel(w)
      BY <1>3, <3>1 DEF Cancel, Fault
    <3>2. CASE ~Cancel(w)
      BY <1>3, <2>2, <3>2, GoneStep DEF LockInv
    <3> QED BY <3>1, <3>2
  <2> QED BY <2>1, <2>2 DEF LockInv
<1>5. ASSUME faults' <= 1 PROVE Clear'
  <2>1. Clear
    BY <1>3, <1>5 DEF PoolInv, ClearInv
  <2>2. \A s \in Scope : Exclusive(s)'
    BY <2>1, ExclusiveStep
  <2>3. ASSUME NEW x \in Worker PROVE ClearOf(x)'
    <3>1. CASE x = w
      <4>1. scope[w] \in Scope
        BY TypeParts DEF WorkerType
      <4> QED BY <2>1, <3>1, <4>1, OwnClear DEF Clear
    <3>2. CASE x # w
      BY <1>5, <2>1, <3>2, OthersClear
    <3> QED BY <3>1, <3>2
  <2>4. \A g \in gone', h \in gone' : g = h
    <3>1. CASE Cancel(w)
      BY <1>5, <3>1, CancelFirst
    <3>2. CASE ~Cancel(w)
      BY <2>1, <3>2, GoneStep DEF Clear
    <3> QED BY <3>1, <3>2
  <2> QED BY <2>2, <2>3, <2>4 DEF Clear
<1> QED BY <1>1, <1>2, <1>4, <1>5 DEF PoolInv, ClearInv

\* So does one of the idle checker, of shutdown(), of a container or of time.
LEMMA OtherInv ==
  ASSUME PoolInv, OtherStep
  PROVE  PoolInv'
<1> TypeOK /\ SweepInv /\ LockInv
  BY DEF PoolInv
<1>0. UNCHANGED workers /\ \A s \in Scope : Still(s)
  BY OtherMaps
<1>1. TypeOK'
  <2>1. WorkerType'
    BY <1>0, TypeParts DEF WorkerType, workers
  <2> QED BY <2>1, OtherMaps, OtherBack, OtherSide, TypePartsNext
<1>2. SweepInv'
  BY OtherSide
<1>3. faults \in Nat /\ faults' \in Nat /\ faults <= faults'
  BY <1>1, OtherBack, TypeParts, TypePartsNext DEF BackType
<1>4. LockInv'
  BY <1>0, <1>3 DEF LockInv, LockOf, Attached, workers
<1>5. ASSUME faults' <= 1 PROVE Clear'
  <2>1. Clear
    BY <1>3, <1>5 DEF PoolInv, ClearInv
  <2>2. ASSUME NEW s \in Scope PROVE Exclusive(s)'
    BY <1>0, <2>1 DEF Clear, Still, Exclusive, Active, Warm
  <2>3. ASSUME NEW x \in Worker PROVE ClearOf(x)'
    <3>1. scope[x] \in Scope
      BY TypeParts DEF WorkerType
    <3>2. Same(x) /\ gone' \subseteq gone /\ \A g \in gone' : scope'[g] = scope[g]
      BY <1>0 DEF Same, workers
    <3> QED BY <1>0, <2>1, <3>1, <3>2, StillHolder DEF Clear
  <2>4. \A g \in gone', h \in gone' : g = h
    BY <1>0, <2>1 DEF Clear, workers
  <2> QED BY <2>2, <2>3, <2>4 DEF Clear
<1> QED BY <1>1, <1>2, <1>4, <1>5 DEF PoolInv, ClearInv

\* A process that has just started: nobody works and nothing is active.
Started ==
    /\ \A s \in Scope : active[s] = NoInfo
    /\ pc = [w \in Worker |-> "idle"]
    /\ again = {} /\ gone = {}
    /\ sweep = Quiet

LEMMA StartedInv ==
  ASSUME Started
  PROVE  SweepInv /\ LockInv /\ Clear
<1>1. ASSUME NEW x \in Worker PROVE LockOf(x) /\ ClearOf(x)
  BY <1>1 DEF Started, LockOf, ClearOf, Attached
<1> QED BY <1>1 DEF Started, SweepInv, Quiet, LockInv, Clear, Exclusive, Active

LEMMA StartedNext ==
  ASSUME Started'
  PROVE  SweepInv' /\ LockInv' /\ Clear'
<1>1. ASSUME NEW x \in Worker PROVE LockOf(x)' /\ ClearOf(x)'
  BY <1>1 DEF Started, LockOf, ClearOf, Attached
<1> QED BY <1>1 DEF Started, SweepInv, Quiet, LockInv, Clear, Exclusive, Active

LEMMA RestartInv ==
  ASSUME PoolInv, Restart
  PROVE  PoolInv'
<1> WorkerType /\ MapType /\ BackType
  BY TypeParts DEF PoolInv
<1>1. Started'
  BY DEF Restart, Started
<1>2. WorkerType'
  BY DEF Restart, WorkerType, Holder
<1> PICK listing \in Listings : Adopt(listing)
  BY DEF Restart
<1>3. MapType'
  <2>1. ASSUME NEW s \in listing
        PROVE  [obj |-> running[s], id |-> s, named |-> TRUE] \in Info
    BY <2>1, SandboxAssumption DEF BackType, Info, Listings, Running
  <2> QED BY <2>1 DEF Restart, Adopt, MapType
<1>4. BackType'
  <2>1. calls' \in 0..MaxCalls /\ faults' \in 0..MaxFaults
    BY FaultType DEF Restart, BackType, used
  <2> QED BY <2>1 DEF Restart, Adopt, Running, BackType
<1>5. SideType'
  BY DEF Restart, SideType, Quiet, Up
<1> QED BY <1>1, <1>2, <1>3, <1>4, <1>5, StartedNext, TypePartsNext DEF PoolInv, ClearInv

LEMMA InitInv == Init => PoolInv
<1> SUFFICES ASSUME Init PROVE PoolInv
  OBVIOUS
<1>1. Started
  BY DEF Init, Started
<1>2. WorkerType
  BY DEF Init, WorkerType, Holder
<1>3. MapType /\ SideType
  BY DEF Init, MapType, SideType, Quiet, Up
<1>4. BackType
  BY SandboxAssumption DEF Init, BackType
<1> QED BY <1>1, <1>2, <1>3, <1>4, StartedInv, TypeParts DEF PoolInv, ClearInv

LEMMA NextInv == PoolInv /\ [Next]_vars => PoolInv'
<1> SUFFICES ASSUME PoolInv, [Next]_vars PROVE PoolInv'
  OBVIOUS
<1>1. CASE \E w \in Worker : WorkerStep(w)
  BY <1>1, WorkerInv
<1>2. CASE OtherStep
  BY <1>2, OtherInv
<1>3. CASE Restart
  BY <1>3, RestartInv
<1>4. CASE UNCHANGED vars
  BY <1>4 DEF vars, PoolInv, TypeOK, SweepInv, LockInv, LockOf, ClearInv, Clear, ClearOf,
              Attached, Pending, Absent, Exclusive, Active, Warm
<1> QED BY <1>1, <1>2, <1>3, <1>4 DEF Next, WorkerStep, AskAny, OtherStep, Sweep, GoDown

LEMMA PoolInvariant == Spec => []PoolInv
BY InitInv, NextInv, PTL DEF Spec

-----------------------------------------------------------------------------
(* Theorems. *)

\* The provider keeps its types: in particular a lock is free or a worker's,
\* and what the idle checker and shutdown() stop are infos.
THEOREM TypeCorrect == Spec => []TypeOK
<1>1. PoolInv => TypeOK
  BY DEF PoolInv
<1> QED BY <1>1, PoolInvariant, PTL

\* With any number of workers, scopes and calls, one fault does not make a
\* sandbox active and warm at once: not a cancelled acquisition, although its
\* call goes on without the thread lock, and not a stop that fails.
THEOREM Exclusion == Spec => []PoolMapsOK
<1>1. PoolInv => PoolMapsOK
  BY DEF PoolInv, ClearInv, Clear, Exclusive, ActiveNotWarm, PoolMapsOK
<1> QED BY <1>1, PoolInvariant, PTL
-----------------------------------------------------------------------------
(* Containers: none is leaked, and a health check drops no live one.         *)

\* A worker that stops a container, or is about to register it.
HandPc == {"stopActive", "stopWarm", "evicting", "found", "ready", "unready"}
Holds(x, s) == pc[x] \in HandPc /\ info[x].id = s /\ Hit(info[x])

\* A running container is known as far as worker w is concerned.
KnownTo(w, s) == Hit(active[s]) \/ Hit(warm[s]) \/ Holds(w, s) \/ s \in lost

Known(s) == running[s] # 0 => Hit(active[s]) \/ Hit(warm[s]) \/ InHand(s) \/ s \in lost

\* Every entry stands at its own scope.
PlaceInv ==
    \A s \in Scope : /\ Active(s) => active[s].id = s
                     /\ Warm(s) => warm[s].id = s

\* What is collected for stopping is stopped before the next collection.
StopInv ==
    /\ sweep.at \in {"wait", "destroy"} => sweep.stop = {}
    /\ shut.at = "up" => shut.ids = {} /\ shut.stop = {} /\ shut.rest = {}

\* The info in a worker's hands; one that is not registered yet is nobody
\* else's.
HandInv(x) ==
    /\ pc[x] \in Looked => info[x] # NoInfo
    /\ pc[x] \in {"found", "ready", "unready"} => info[x] # NoInfo /\ info[x].id = scope[x]
    /\ pc[x] \in {"found", "ready"} =>
         /\ \A s \in Scope : active[s] # info[x] /\ warm[s] # info[x]
         /\ \A y \in Worker \ {x} : info[y] # info[x]

\* A container is lost by a fault, or after one, when the process has ended; and
\* the one cancelled call did not lose any before it returns.
LostInv ==
    /\ shut.at = "down" => faults # 0
    /\ faults = 0 => lost = {}
    /\ faults <= 1 /\ gone # {} => lost = {}

\* What was found dead stays dead as long as its entry stands.
DropInv(x) ==
    /\ pc[x] \in {"dropActive", "dropWarm"}
    /\ info[x] \in {active[scope[x]], warm[scope[x]]}
    => running[scope[x]] = 0 \/ Unclaimed(scope[x])

ContainerInv ==
    /\ PlaceInv /\ StopInv /\ LostInv
    /\ \A x \in Worker : HandInv(x)
    /\ faults <= 1 => (\A s \in Scope : Known(s)) /\ (\A x \in Worker : DropInv(x))

\* Entries move, and what is registered is in the hands of its own scope's worker.
LEMMA PlaceStep ==
  ASSUME TypeOK, PlaceInv, NEW w \in Worker, HandInv(w), WorkerStep(w)
  PROVE  PlaceInv'
<1> WorkerType /\ MapType
  BY TypeParts
<1> SUFFICES ASSUME NEW s \in Scope
             PROVE  (Active(s)' => active'[s].id = s) /\ (Warm(s)' => warm'[s].id = s)
  BY DEF PlaceInv
<1> USE DEF PlaceInv, Active, Warm
<1>1. CASE Still(s)
  BY <1>1 DEF Still
<1>2. CASE Promotes(s)
  BY <1>2 DEF Promotes
<1>3. CASE Register(w) /\ s = scope[w]
  <2>1. active'[s] = info[w] /\ warm' = warm
    BY <1>3 DEF Register, Track, WorkerType, MapType
  <2> QED BY <1>3, <2>1 DEF Register, HandInv
<1>4. Still(s) \/ Promotes(s) \/ (Register(w) /\ s = scope[w])
  BY StillSteps, PromotingStep, RegisteringStep DEF WorkerStep, Acquire, StillStep
<1> QED BY <1>1, <1>2, <1>3, <1>4

\* What a worker does to the list of the lost containers.
LEMMA LostStep ==
  ASSUME NEW w \in Worker, WorkerStep(w)
  PROVE  \/ lost' \subseteq lost
         \/ Fault
         \/ CreatedForNobody(w)
<1>1. ASSUME Get(w) PROVE lost' \subseteq lost \/ Fault
  BY <1>1 DEF Get, MayCall, Goto, used, pool
<1>2. ASSUME Lock(w) PROVE lost' \subseteq lost \/ Fault
  BY <1>2 DEF Lock, Goto, used, pool
<1>3. ASSUME ReleaseCancelled(w) PROVE lost' \subseteq lost \/ Fault
  BY <1>3 DEF ReleaseCancelled, Finish, Goto, used, pool
<1>4. ASSUME Cancel(w) PROVE lost' \subseteq lost \/ Fault
  BY <1>4 DEF Cancel, Fault, Goto, used, pool
<1>5. ASSUME Reuse(w) PROVE lost' \subseteq lost \/ Fault
  BY <1>5 DEF Reuse, Goto, Miss, Vanish, used, pool
<1>6. ASSUME LookWarm(w) PROVE lost' \subseteq lost \/ Fault
  BY <1>6 DEF LookWarm, Goto, Miss, Vanish, used, pool
<1>7. ASSUME Check(w) PROVE lost' \subseteq lost \/ Fault
  BY <1>7 DEF Check, Goto, used, pool
<1>8. ASSUME Drop(w) PROVE lost' \subseteq lost \/ Fault
  BY <1>8 DEF Drop, Removable, Forget, Forgotten, Goto, Miss, Vanish, used, pool
<1>9. ASSUME Dropped(w) PROVE lost' \subseteq lost \/ Fault
  BY <1>9 DEF Dropped, Stop, Miss, Vanish, Goto, used, pool
<1>10. ASSUME Touch(w) PROVE lost' \subseteq lost \/ Fault
  BY <1>10 DEF Touch, Finish, Goto, Miss, Vanish, used, pool
<1>11. ASSUME Reclaim(w) PROVE lost' \subseteq lost \/ Fault
  BY <1>11 DEF Reclaim, Track, Finish, Goto, Miss, Vanish, used, pool
<1>12. ASSUME Discover(w) PROVE lost' \subseteq lost \/ Fault
  BY <1>12 DEF Discover, Goto, Return, Vanish, used, pool
<1>13. ASSUME Evict(w) PROVE lost' \subseteq lost \/ Fault
  BY <1>13 DEF Evict, Goto, Return, Vanish, used, pool
<1>14. ASSUME Evicted(w) PROVE lost' \subseteq lost \/ Fault
  BY <1>14 DEF Evicted, Stop, Goto, Vanish, used, pool
<1>15. ASSUME Create(w) PROVE lost' \subseteq lost \/ Fault
  BY <1>15 DEF Create, Goto, used, pool
<1>16. ASSUME CreateFails(w) PROVE lost' \subseteq lost \/ Fault
  BY <1>16 DEF CreateFails, Finish, Goto, used, pool
<1>17. CreatedForNobody(w) => CreatedForNobody(w)
  OBVIOUS
<1>18. ASSUME Register(w) PROVE lost' \subseteq lost \/ Fault
  BY <1>18 DEF Register, Track, Finish, Goto, used, pool
<1>19. ASSUME NotReady(w) PROVE lost' \subseteq lost \/ Fault
  BY <1>19 DEF NotReady, Goto, used, pool
<1>20. ASSUME Unready(w) PROVE lost' \subseteq lost \/ Fault
  BY <1>20 DEF Unready, Stop, Finish, Goto, used, pool
<1>21. ASSUME Release(w) PROVE lost' \subseteq lost \/ Fault
  BY <1>21 DEF Release, Park, Goto, used, pool
<1>22. ASSUME AskAny(w) PROVE lost' \subseteq lost \/ Fault
  BY <1>22 DEF AskAny, Ask, MayCall, Goto, used, pool
<1> QED
  BY <1>1, <1>2, <1>3, <1>4, <1>5, <1>6, <1>7, <1>8, <1>9, <1>10, <1>11, <1>12, <1>13, <1>14, <1>15, <1>16, <1>17, <1>18, <1>19, <1>20, <1>21, <1>22
     DEF WorkerStep, Acquire

LEMMA LostWorker ==
  ASSUME TypeOK, TypeOK', LockInv, ClearInv, LostInv, NEW w \in Worker, WorkerStep(w)
  PROVE  LostInv'
<1>1. faults \in Nat /\ faults' \in Nat /\ faults <= faults'
  BY BackTypeStep, TypeParts, TypePartsNext DEF BackType
<1> shut' = shut
  BY SideStep
<1>2. CASE lost' \subseteq lost
  <2>1. CASE Cancel(w)
    BY <1>1, <1>2, <2>1 DEF LostInv, Cancel, Fault
  <2>2. CASE ~Cancel(w)
    BY <1>1, <1>2, <2>2, GoneStep DEF LostInv
  <2> QED BY <2>1, <2>2
<1>3. CASE Fault
  <2>1. ASSUME faults' <= 1 PROVE lost = {} /\ faults' = 1
    BY <1>1, <1>3, <2>1 DEF Fault, LostInv
  <2>2. ASSUME faults' <= 1, gone' # {} PROVE lost' = {}
    <3>1. CASE Cancel(w)
      BY <2>1, <2>2, <3>1 DEF Cancel
    <3>2. CASE ~Cancel(w)
      BY <1>1, <1>3, <2>2, <3>2, GoneStep DEF Fault, LockInv
    <3> QED BY <3>1, <3>2
  <2> QED BY <1>1, <1>3, <2>2 DEF LostInv, Fault
<1>4. CASE CreatedForNobody(w)
  <2>1. w \in gone /\ gone' = gone \ {w} /\ faults' = faults
    BY <1>4 DEF CreatedForNobody, Vanish, used
  <2>2. faults > 0
    BY <2>1 DEF LockInv
  <2>3. faults <= 1 => gone' = {}
    BY <2>1 DEF ClearInv, Clear
  <2> QED BY <1>1, <2>1, <2>2, <2>3 DEF LostInv
<1> QED BY <1>2, <1>3, <1>4, LostStep

\* The info of a worker's hands after its step: one that it had, or took from
\* the maps, or a new object.
Carried(w) == \/ info'[w] \in {NoInfo, info[w]}
              \/ \E t \in Scope : info'[w] \in {active[t], warm[t]}
Fresh(w) ==
    /\ Free # {} /\ UNCHANGED <<pool, scope>>
    /\ \E b \in BOOLEAN : info' = [info EXCEPT ![w] = [obj |-> NewObject, id |-> scope[w], named |-> b]]
    /\ pc'[w] \in {"found", "ready"}
InfoStep(w) == Carried(w) \/ Fresh(w)

LEMMA InfoSteps ==
  ASSUME TypeOK, NEW w \in Worker, WorkerStep(w)
  PROVE  InfoStep(w)
<1> WorkerType /\ MapType
  BY TypeParts
<1> USE DEF WorkerType
<1>1. ASSUME Get(w) PROVE InfoStep(w)
  BY <1>1 DEF Get, MayCall, Goto, InfoStep, Carried, pool, workers
<1>2. ASSUME Lock(w) PROVE InfoStep(w)
  BY <1>2 DEF Lock, Goto, InfoStep, Carried, pool, workers
<1>3. ASSUME ReleaseCancelled(w) PROVE InfoStep(w)
  BY <1>3 DEF ReleaseCancelled, Finish, Goto, InfoStep, Carried, pool, workers
<1>4. ASSUME Cancel(w) PROVE InfoStep(w)
  BY <1>4 DEF Cancel, Fault, Goto, InfoStep, Carried, pool, workers
<1>5. ASSUME Reuse(w) PROVE InfoStep(w)
  BY <1>5 DEF Reuse, Goto, Miss, Vanish, InfoStep, Carried, pool, workers
<1>6. ASSUME LookWarm(w) PROVE InfoStep(w)
  BY <1>6 DEF LookWarm, Goto, Miss, Vanish, InfoStep, Carried, pool, workers
<1>7. ASSUME Check(w) PROVE InfoStep(w)
  BY <1>7 DEF Check, Goto, InfoStep, Carried, pool, workers
<1>8. ASSUME Drop(w) PROVE InfoStep(w)
  BY <1>8 DEF Drop, Removable, Forget, Forgotten, Goto, Miss, Vanish, InfoStep, Carried, pool, workers
<1>9. ASSUME Dropped(w) PROVE InfoStep(w)
  BY <1>9 DEF Dropped, Stop, Miss, Vanish, Goto, InfoStep, Carried, pool, workers
<1>10. ASSUME Touch(w) PROVE InfoStep(w)
  BY <1>10 DEF Touch, Finish, Goto, Miss, Vanish, InfoStep, Carried, pool, workers
<1>11. ASSUME Reclaim(w) PROVE InfoStep(w)
  BY <1>11 DEF Reclaim, Track, Finish, Goto, Miss, Vanish, InfoStep, Carried, pool, workers
<1>12. ASSUME Discover(w) PROVE InfoStep(w)
  <2>1. CASE Fresh(w)
    BY <2>1 DEF InfoStep
  <2>2. CASE Return(w, IF Total >= Replicas THEN "evict" ELSE "create")
    BY <2>2 DEF Return, Goto, Vanish, InfoStep, Carried
  <2>3. Fresh(w) \/ Return(w, IF Total >= Replicas THEN "evict" ELSE "create")
    BY <1>12 DEF Discover, Fresh, Goto, pool
  <2> QED BY <2>1, <2>2, <2>3
<1>13. ASSUME Evict(w) PROVE InfoStep(w)
  BY <1>13 DEF Evict, Goto, Return, Vanish, InfoStep, Carried, pool, workers
<1>14. ASSUME Evicted(w) PROVE InfoStep(w)
  BY <1>14 DEF Evicted, Stop, Goto, Vanish, InfoStep, Carried, pool, workers
<1>15. ASSUME Create(w) PROVE InfoStep(w)
  BY <1>15 DEF Create, Fresh, Goto, pool, InfoStep
<1>16. ASSUME CreateFails(w) PROVE InfoStep(w)
  BY <1>16 DEF CreateFails, Finish, Goto, InfoStep, Carried, pool, workers
<1>17. ASSUME CreatedForNobody(w) PROVE InfoStep(w)
  BY <1>17 DEF CreatedForNobody, Vanish, Goto, InfoStep, Carried, pool, workers
<1>18. ASSUME Register(w) PROVE InfoStep(w)
  BY <1>18 DEF Register, Track, Finish, Goto, InfoStep, Carried, pool, workers
<1>19. ASSUME NotReady(w) PROVE InfoStep(w)
  BY <1>19 DEF NotReady, Goto, InfoStep, Carried, pool, workers
<1>20. ASSUME Unready(w) PROVE InfoStep(w)
  BY <1>20 DEF Unready, Stop, Finish, Goto, InfoStep, Carried, pool, workers
<1>21. ASSUME Release(w) PROVE InfoStep(w)
  BY <1>21 DEF Release, Park, Goto, InfoStep, Carried, pool, workers
<1>22. ASSUME AskAny(w) PROVE InfoStep(w)
  BY <1>22 DEF AskAny, Ask, MayCall, Goto, InfoStep, Carried, pool, workers
<1> QED
  BY <1>1, <1>2, <1>3, <1>4, <1>5, <1>6, <1>7, <1>8, <1>9, <1>10, <1>11, <1>12, <1>13, <1>14, <1>15, <1>16, <1>17, <1>18, <1>19, <1>20, <1>21, <1>22
     DEF WorkerStep, Acquire

\* A new object is nobody else's.
LEMMA NewObjectIsNew ==
  ASSUME TypeOK, Free # {}
  PROVE  /\ \A s \in Scope : active[s].obj # NewObject /\ warm[s].obj # NewObject
         /\ \A y \in Worker : info[y].obj # NewObject
         /\ NewObject # 0
<1>1. NewObject \in Free
  BY DEF NewObject
<1>2. NewObject \in 1..MaxObjects /\ NewObject \notin InUse
  BY <1>1 DEF Free
<1>3. NewObject # 0
  BY <1>2
<1> QED BY <1>2, <1>3 DEF InUse

LEMMA FreshHand ==
  ASSUME TypeOK, NEW w \in Worker, Fresh(w)
  PROVE  HandInv(w)'
<1> WorkerType /\ MapType
  BY TypeParts
<1>1. PICK b \in BOOLEAN : info' = [info EXCEPT ![w] = [obj |-> NewObject, id |-> scope[w], named |-> b]]
  BY DEF Fresh
<1>2. info'[w] = [obj |-> NewObject, id |-> scope[w], named |-> b] /\ scope' = scope
  BY <1>1 DEF Fresh, WorkerType
<1>3. info'[w].obj = NewObject /\ info'[w].id = scope'[w]
  BY <1>2
<1>4. info'[w] # NoInfo
  BY <1>3, NewObjectIsNew DEF Fresh, NoInfo
<1>5. ASSUME NEW s \in Scope PROVE active'[s] # info'[w] /\ warm'[s] # info'[w]
  BY <1>3, NewObjectIsNew DEF Fresh, pool
<1>6. ASSUME NEW y \in Worker \ {w} PROVE info'[y] # info'[w]
  <2>1. info'[y] = info[y]
    BY <1>1 DEF WorkerType
  <2> QED BY <1>3, <2>1, NewObjectIsNew DEF Fresh
<1> QED BY <1>3, <1>4, <1>5, <1>6 DEF HandInv

LEMMA OwnHand ==
  ASSUME TypeOK, NEW w \in Worker, HandInv(w), WorkerStep(w)
  PROVE  HandInv(w)'
<1> WorkerType /\ MapType
  BY TypeParts
<1> USE DEF WorkerType
<1>1. ASSUME Get(w) PROVE HandInv(w)'
  BY <1>1 DEF Get, MayCall, Goto, HandInv, Looked, Active, Warm, pool, workers
<1>2. ASSUME Lock(w) PROVE HandInv(w)'
  BY <1>2 DEF Lock, Goto, HandInv, Looked, Active, Warm, pool, workers
<1>3. ASSUME ReleaseCancelled(w) PROVE HandInv(w)'
  BY <1>3 DEF ReleaseCancelled, Finish, Goto, HandInv, Looked, Active, Warm, pool, workers
<1>4. ASSUME Cancel(w) PROVE HandInv(w)'
  <2>1. UNCHANGED <<pool, scope, info>> /\ pc'[w] \in {pc[w], "abandoned"}
    BY <1>4 DEF Cancel, Goto
  <2> QED BY <2>1 DEF HandInv, pool, Looked
<1>5. ASSUME Reuse(w) PROVE HandInv(w)'
  BY <1>5 DEF Reuse, Goto, Miss, Vanish, HandInv, Looked, Active, Warm, pool, workers
<1>6. ASSUME LookWarm(w) PROVE HandInv(w)'
  BY <1>6 DEF LookWarm, Goto, Miss, Vanish, HandInv, Looked, Active, Warm, pool, workers
<1>7. ASSUME Check(w) PROVE HandInv(w)'
  BY <1>7 DEF Check, Goto, HandInv, Looked, Active, Warm, pool, workers
<1>8. ASSUME Drop(w) PROVE HandInv(w)'
  BY <1>8 DEF Drop, Removable, Forget, Forgotten, Goto, Miss, Vanish, HandInv, Looked, Active, Warm, pool, workers
<1>9. ASSUME Dropped(w) PROVE HandInv(w)'
  BY <1>9 DEF Dropped, Stop, Miss, Vanish, Goto, HandInv, Looked, Active, Warm, pool, workers
<1>10. ASSUME Touch(w) PROVE HandInv(w)'
  BY <1>10 DEF Touch, Finish, Goto, Miss, Vanish, HandInv, Looked, Active, Warm, pool, workers
<1>11. ASSUME Reclaim(w) PROVE HandInv(w)'
  BY <1>11 DEF Reclaim, Track, Finish, Goto, Miss, Vanish, HandInv, Looked, Active, Warm, pool, workers
<1>12. ASSUME Discover(w) PROVE HandInv(w)'
  <2>1. CASE Fresh(w)
    BY <2>1, FreshHand
  <2>2. CASE Return(w, IF Total >= Replicas THEN "evict" ELSE "create")
    BY <2>2 DEF Return, Goto, Vanish, HandInv, Looked
  <2>3. Fresh(w) \/ Return(w, IF Total >= Replicas THEN "evict" ELSE "create")
    BY <1>12 DEF Discover, Fresh, Goto, pool
  <2> QED BY <2>1, <2>2, <2>3
<1>13. ASSUME Evict(w) PROVE HandInv(w)'
  BY <1>13 DEF Evict, Goto, Return, Vanish, HandInv, Looked, Active, Warm, pool, workers
<1>14. ASSUME Evicted(w) PROVE HandInv(w)'
  BY <1>14 DEF Evicted, Stop, Goto, Vanish, HandInv, Looked, Active, Warm, pool, workers
<1>15. ASSUME Create(w) PROVE HandInv(w)'
  <2>1. Fresh(w)
    BY <1>15 DEF Create, Fresh, Goto, pool
  <2> QED BY <2>1, FreshHand
<1>16. ASSUME CreateFails(w) PROVE HandInv(w)'
  BY <1>16 DEF CreateFails, Finish, Goto, HandInv, Looked, Active, Warm, pool, workers
<1>17. ASSUME CreatedForNobody(w) PROVE HandInv(w)'
  BY <1>17 DEF CreatedForNobody, Vanish, Goto, HandInv, Looked, Active, Warm, pool, workers
<1>18. ASSUME Register(w) PROVE HandInv(w)'
  BY <1>18 DEF Register, Track, Finish, Goto, HandInv, Looked, Active, Warm, pool, workers
<1>19. ASSUME NotReady(w) PROVE HandInv(w)'
  BY <1>19 DEF NotReady, Goto, HandInv, Looked, Active, Warm, pool, workers
<1>20. ASSUME Unready(w) PROVE HandInv(w)'
  BY <1>20 DEF Unready, Stop, Finish, Goto, HandInv, Looked, Active, Warm, pool, workers
<1>21. ASSUME Release(w) PROVE HandInv(w)'
  BY <1>21 DEF Release, Park, Goto, HandInv, Looked, Active, Warm, pool, workers
<1>22. ASSUME AskAny(w) PROVE HandInv(w)'
  BY <1>22 DEF AskAny, Ask, MayCall, Goto, HandInv, Looked, Active, Warm, pool, workers
<1> QED
  BY <1>1, <1>2, <1>3, <1>4, <1>5, <1>6, <1>7, <1>8, <1>9, <1>10, <1>11, <1>12, <1>13, <1>14, <1>15, <1>16, <1>17, <1>18, <1>19, <1>20, <1>21, <1>22
     DEF WorkerStep, Acquire

LEMMA OtherHand ==
  ASSUME TypeOK, LockInv, NEW w \in Worker, WorkerStep(w), HandInv(w),
         NEW x \in Worker \ {w}, HandInv(x)
  PROVE  HandInv(x)'
<1> WorkerType /\ MapType
  BY TypeParts
<1>0. \A y \in Worker \ {w} : Same(y)
  BY AloneStep DEF Alone
<1>1. ASSUME NEW s \in Scope, pc[x] \in {"found", "ready"}
      PROVE  active'[s] # info[x] /\ warm'[s] # info[x]
  <2>1. info[x] # NoInfo /\ active[s] # info[x] /\ warm[s] # info[x]
    BY <1>1 DEF HandInv
  <2>2. CASE Still(s)
    BY <2>1, <2>2 DEF Still
  <2>3. CASE Promotes(s)
    BY <2>1, <2>3 DEF Promotes
  <2>4. CASE Register(w) /\ s = scope[w]
    <3>1. active'[s] = info[w] /\ warm' = warm
      BY <2>4 DEF Register, Track, WorkerType, MapType
    <3>2. info[w] # info[x]
      BY <1>1 DEF HandInv
    <3> QED BY <2>1, <3>1, <3>2
  <2>5. Still(s) \/ Promotes(s) \/ (Register(w) /\ s = scope[w])
    BY StillSteps, PromotingStep, RegisteringStep DEF WorkerStep, Acquire, StillStep
  <2> QED BY <2>2, <2>3, <2>4, <2>5
<1>2. ASSUME NEW y \in Worker \ {x}, pc[x] \in {"found", "ready"} PROVE info'[y] # info[x]
  <2>1. CASE y # w
    BY <1>0, <1>2, <2>1 DEF Same, HandInv
  <2>2. CASE y = w /\ Carried(w)
    BY <1>2, <2>2 DEF Carried, HandInv
  <2>3. CASE y = w /\ Fresh(w)
    <3>1. info'[w].obj = NewObject
      BY <2>3 DEF Fresh, WorkerType
    <3> QED BY <2>3, <3>1, NewObjectIsNew DEF Fresh
  <2> QED BY <2>1, <2>2, <2>3, InfoSteps DEF InfoStep
<1> QED BY <1>0, <1>1, <1>2 DEF Same, HandInv

\* As far as w is concerned, s is known after its step if it was before.
StillKnown(w, s) ==
    running'[s] # 0 => \/ KnownTo(w, s)'
                       \/ running'[s] = running[s] /\ ~KnownTo(w, s)

LEMMA KnownFrom ==
  ASSUME TypeOK, NEW w \in Worker, NEW s \in Scope, Known(s), StillKnown(w, s),
         \A x \in Worker \ {w} : Same(x), sweep' = sweep, shut' = shut
  PROVE  Known(s)'
<1> SUFFICES ASSUME running'[s] # 0, ~KnownTo(w, s)' PROVE InHand(s)'
  BY DEF Known, KnownTo, InHand, Holds, HandPc
<1>1. running'[s] = running[s] /\ ~KnownTo(w, s)
  BY DEF StillKnown
<1>2. InHand(s)
  BY <1>1 DEF Known, KnownTo
<1>3. CASE \E x \in Worker : pc[x] \in HandPc /\ info[x].id = s /\ Hit(info[x])
  <2>1. PICK x \in Worker : Holds(x, s)
    BY <1>3 DEF Holds
  <2>2. x # w
    BY <1>1, <2>1 DEF KnownTo
  <2>3. Holds(x, s)'
    BY <1>1, <2>1, <2>2 DEF Same, Holds, Hit
  <2> QED BY <2>3 DEF Holds, HandPc, InHand
<1>4. CASE \E i \in sweep.stop \cup shut.stop \cup shut.rest : i.id = s /\ Hit(i)
  BY <1>1, <1>4 DEF Hit, InHand
<1> QED BY <1>2, <1>3, <1>4 DEF InHand, HandPc

\* A stop ends the container it hits, or the container is lost.
StopKnown(i, s) ==
    /\ running'[s] # 0 => running'[s] = running[s]
    /\ s \in lost /\ running'[s] # 0 => s \in lost'
    /\ Hit(i) /\ i.id = s /\ running'[s] # 0 => s \in lost'

LEMMA StopKeeps ==
  ASSUME TypeOK, NEW i \in Info \cup {NoInfo}, Stop(i), NEW s \in Scope
  PROVE  StopKnown(i, s)
<1>1. CASE Hit(i) /\ running' = [running EXCEPT ![i.id] = 0] /\ lost' = lost \ {i.id}
  BY <1>1, TypeParts DEF StopKnown, BackType
<1>2. CASE ~Hit(i) /\ running' = running /\ lost' = lost
  BY <1>2 DEF StopKnown
<1>3. CASE Hit(i) /\ lost' = lost \cup {i.id} /\ UNCHANGED running
  BY <1>3 DEF StopKnown
<1> QED BY <1>1, <1>2, <1>3 DEF Stop

LEMMA KnownStep ==
  ASSUME TypeOK, LockInv, Clear, PlaceInv, NEW w \in Worker, HandInv(w), WorkerStep(w),
         NEW s \in Scope
  PROVE  StillKnown(w, s)
<1> WorkerType /\ MapType /\ BackType /\ LockOf(w) /\ ClearOf(w)
  BY TypeParts DEF LockInv, Clear
<1>0. Exclusive(s) /\ scope[w] \in Scope
  BY DEF Clear, WorkerType
<1> USE <1>0 DEF WorkerType, MapType, BackType, StillKnown
<1>1. ASSUME Get(w) PROVE StillKnown(w, s)
  BY <1>1 DEF Get, MayCall, Goto, KnownTo, Holds, HandPc, Hit, pool, workers, used
<1>2. ASSUME Lock(w) PROVE StillKnown(w, s)
  BY <1>2 DEF Lock, Goto, KnownTo, Holds, HandPc, Hit, pool, workers, used
<1>3. ASSUME ReleaseCancelled(w) PROVE StillKnown(w, s)
  BY <1>3 DEF ReleaseCancelled, Finish, Goto, KnownTo, Holds, HandPc, Hit, pool, workers, used
<1>4. ASSUME Cancel(w) PROVE StillKnown(w, s)
  <2>1. UNCHANGED <<running, pool, lost, info>> /\ (pc'[w] = pc[w] \/ pc[w] = "queued")
    BY <1>4 DEF Cancel, Goto
  <2> QED BY <2>1 DEF KnownTo, Holds, HandPc, Hit, pool
<1>5. ASSUME Reuse(w) PROVE StillKnown(w, s)
  BY <1>5 DEF Reuse, Goto, Miss, Vanish, KnownTo, Holds, HandPc, Hit, pool, workers, used
<1>6. ASSUME LookWarm(w) PROVE StillKnown(w, s)
  BY <1>6 DEF LookWarm, Goto, Miss, Vanish, KnownTo, Holds, HandPc, Hit, pool, workers, used
<1>7. ASSUME Check(w) PROVE StillKnown(w, s)
  BY <1>7 DEF Check, Goto, KnownTo, Holds, HandPc, Hit, pool, workers, used
<1>8. ASSUME Drop(w) PROVE StillKnown(w, s)
  <2>1. ~Holds(w, s)
    BY <1>8 DEF Drop, Holds, HandPc
  <2>2. UNCHANGED <<running, lost>>
    BY <1>8 DEF Drop, used
  <2>3. CASE UNCHANGED pool
    BY <2>1, <2>2, <2>3 DEF KnownTo, pool, Hit
  <2>4. CASE Forget(scope[w]) /\ info' = [info EXCEPT ![w] = Forgotten(scope[w])]
             /\ pc'[w] \in {"stopActive", "stopWarm"}
    <3>1. CASE s = scope[w]
      <4>1. Hit(active[s]) \/ Hit(warm[s]) => Hit(Forgotten(s)) /\ Forgotten(s).id = s
        BY DEF Forgotten, Hit, PlaceInv, Exclusive, Active, Warm
      <4>2. Hit(Forgotten(s)) /\ Forgotten(s).id = s => Holds(w, s)'
        BY <2>2, <2>4, <3>1 DEF Holds, HandPc, Hit
      <4> QED BY <2>1, <2>2, <4>1, <4>2 DEF KnownTo
    <3>2. CASE s # scope[w]
      BY <2>1, <2>2, <2>4, <3>2 DEF Forget, KnownTo, Hit
    <3> QED BY <3>1, <3>2
  <2> QED BY <1>8, <2>3, <2>4 DEF Drop, Goto
<1>9. ASSUME Dropped(w) PROVE StillKnown(w, s)
  <2>1. Stop(info[w]) /\ info[w] \in Info \cup {NoInfo} /\ UNCHANGED pool
    BY <1>9 DEF Dropped
  <2>2. StopKnown(info[w], s)
    BY <2>1, StopKeeps
  <2>3. Holds(w, s) => info[w].id = s /\ Hit(info[w])
    BY DEF Holds
  <2> QED BY <2>1, <2>2, <2>3 DEF StopKnown, KnownTo, pool, Hit, PlaceInv, Active, Warm
<1>10. ASSUME Touch(w) PROVE StillKnown(w, s)
  BY <1>10 DEF Touch, Finish, Goto, Miss, Vanish, KnownTo, Holds, HandPc, Hit, pool, workers, used
<1>11. ASSUME Reclaim(w) PROVE StillKnown(w, s)
  <2>1. ~Holds(w, s) /\ UNCHANGED running
    BY <1>11 DEF Reclaim, Holds, HandPc
  <2>2. CASE s # scope[w]
    BY <1>11, <2>1, <2>2 DEF Reclaim, Track, KnownTo, Hit, pool
  <2>3. CASE s = scope[w] /\ Warm(s) /\ Track(s, warm[s])
    <3>1. ~Active(s)
      BY <2>3 DEF Exclusive
    <3>2. active'[s] = warm[s] /\ (s \in lost => s \in lost' \/ Hit(warm[s]))
      BY <2>3 DEF Track
    <3> QED BY <2>1, <3>1, <3>2 DEF KnownTo, Hit, Active
  <2>4. CASE UNCHANGED <<pool, lost>>
    BY <2>1, <2>4 DEF KnownTo, Hit, pool
  <2> QED BY <1>11, <2>2, <2>3, <2>4 DEF Reclaim, pool
<1>12. ASSUME Discover(w) PROVE StillKnown(w, s)
  BY <1>12 DEF Discover, Goto, Return, Vanish, KnownTo, Holds, HandPc, Hit, pool, workers, used
<1>13. ASSUME Evict(w) PROVE StillKnown(w, s)
  <2>1. ~Holds(w, s) /\ UNCHANGED <<running, lost, active>>
    BY <1>13 DEF Evict, Holds, HandPc, used
  <2>2. CASE warm'[s] = warm[s]
    BY <2>1, <2>2 DEF KnownTo, Hit
  <2>3. CASE warm'[s] # warm[s]
    <3>1. info'[w] = warm[s] /\ pc'[w] = "evicting"
      BY <1>13, <2>3 DEF Evict, Goto
    <3>2. Hit(warm[s]) => Holds(w, s)'
      BY <2>1, <3>1 DEF Holds, HandPc, Hit, PlaceInv, Warm
    <3> QED BY <2>1, <3>2 DEF KnownTo, Hit
  <2> QED BY <2>2, <2>3
<1>14. ASSUME Evicted(w) PROVE StillKnown(w, s)
  <2>1. Stop(info[w]) /\ info[w] \in Info \cup {NoInfo} /\ UNCHANGED pool
    BY <1>14 DEF Evicted
  <2>2. StopKnown(info[w], s)
    BY <2>1, StopKeeps
  <2>3. Holds(w, s) => info[w].id = s /\ Hit(info[w])
    BY DEF Holds
  <2> QED BY <2>1, <2>2, <2>3 DEF StopKnown, KnownTo, pool, Hit, PlaceInv, Active, Warm
<1>15. ASSUME Create(w) PROVE StillKnown(w, s)
  <2>1. ~Holds(w, s) /\ UNCHANGED <<pool, lost>>
    BY <1>15 DEF Create, Holds, HandPc, used
  <2>2. CASE running'[s] = running[s]
    BY <2>1, <2>2 DEF KnownTo, Hit, PlaceInv, Active, Warm, pool
  <2>3. CASE running'[s] # running[s]
    <3>1. /\ s = scope[w] /\ running'[s] = NewObject /\ pc'[w] = "ready"
          /\ info'[w].obj = NewObject /\ info'[w].id = s
      BY <1>15, <2>3 DEF Create, Goto
    <3>2. NewObject # 0
      BY <1>15, NewObjectIsNew DEF Create
    <3>3. Holds(w, s)'
      BY <3>1, <3>2 DEF Holds, HandPc, Hit, NoInfo
    <3> QED BY <3>3 DEF KnownTo
  <2> QED BY <2>2, <2>3
<1>16. ASSUME CreateFails(w) PROVE StillKnown(w, s)
  BY <1>16 DEF CreateFails, Finish, Goto, KnownTo, Holds, HandPc, Hit, pool, workers, used
<1>17. ASSUME CreatedForNobody(w) PROVE StillKnown(w, s)
  <2>1. UNCHANGED <<running, pool>> /\ lost \subseteq lost'
    BY <1>17 DEF CreatedForNobody
  <2>2. Holds(w, s) => s \in lost'
    BY <1>17 DEF CreatedForNobody, Holds, HandInv
  <2> QED BY <2>1, <2>2 DEF KnownTo, Hit, pool
<1>18. ASSUME Register(w) PROVE StillKnown(w, s)
  <2>1. Attached(w) /\ pc[w] \in Past /\ UNCHANGED <<running, warm>>
    BY <1>18 DEF Register, LockOf, Attached, Past
  <2>2. Absent(scope[w])
    BY <2>1 DEF ClearOf
  <2>3. CASE s # scope[w]
    <3>1. ~Holds(w, s)
      BY <1>18, <2>3 DEF Register, HandInv, Holds
    <3> QED BY <1>18, <2>1, <2>3, <3>1 DEF Register, Track, KnownTo, Hit
  <2>4. CASE s = scope[w]
    <3>1. active'[s] = info[w] /\ (s \in lost => s \in lost' \/ Hit(info[w]))
      BY <1>18, <2>4 DEF Register, Track
    <3>2. ~Hit(active[s]) /\ ~Hit(warm[s])
      BY <2>2, <2>4 DEF Absent, Active, Warm, Hit
    <3>3. Hit(info[w]) => Hit(active[s])'
      BY <2>1, <3>1 DEF Hit
    <3>4. ~KnownTo(w, s) \/ KnownTo(w, s)'
      BY <3>1, <3>2, <3>3 DEF KnownTo, Holds
    <3> QED BY <2>1, <3>4
  <2> QED BY <2>3, <2>4
<1>19. ASSUME NotReady(w) PROVE StillKnown(w, s)
  <2>1. UNCHANGED <<running, pool, lost, info>> /\ pc'[w] = "unready"
    BY <1>19 DEF NotReady, Goto, used
  <2> QED BY <2>1 DEF KnownTo, Holds, HandPc, Hit, pool
<1>20. ASSUME Unready(w) PROVE StillKnown(w, s)
  <2>1. Stop(info[w]) /\ info[w] \in Info \cup {NoInfo} /\ UNCHANGED pool
    BY <1>20 DEF Unready
  <2>2. StopKnown(info[w], s)
    BY <2>1, StopKeeps
  <2>3. Holds(w, s) => info[w].id = s /\ Hit(info[w])
    BY DEF Holds
  <2> QED BY <2>1, <2>2, <2>3 DEF StopKnown, KnownTo, pool, Hit, PlaceInv, Active, Warm
<1>21. ASSUME Release(w) PROVE StillKnown(w, s)
  <2>1. ~Holds(w, s) /\ UNCHANGED <<running, lost>>
    BY <1>21 DEF Release, Holds, HandPc, used
  <2>2. Hit(active[s]) => active'[s] = active[s] \/ warm'[s] = active[s]
    BY <1>21 DEF Release, Park, Exclusive, Active, Warm, Hit
  <2>3. Hit(warm[s]) => warm'[s] = warm[s]
    BY <1>21 DEF Release, Park, Warm, Hit
  <2> QED BY <2>1, <2>2, <2>3 DEF KnownTo, Hit
<1>22. ASSUME AskAny(w) PROVE StillKnown(w, s)
  BY <1>22 DEF AskAny, Ask, MayCall, Goto, KnownTo, Holds, HandPc, Hit, pool, workers, used
<1> QED
  BY <1>1, <1>2, <1>3, <1>4, <1>5, <1>6, <1>7, <1>8, <1>9, <1>10, <1>11, <1>12, <1>13, <1>14, <1>15, <1>16, <1>17, <1>18, <1>19, <1>20, <1>21, <1>22
     DEF WorkerStep, Acquire

\* A container starts in create() alone, a cancelled one only returns, and a
\* container that is lost stays so until it stops or is tracked.
RunsOn(w) ==
    /\ Create(w) \/ \A s \in Scope : running'[s] \in {0, running[s]}
    /\ pc[w] = "ready" /\ w \in gone => CreatedForNobody(w)
    /\ \/ Reclaim(w) \/ Register(w)
       \/ \A s \in Scope : s \in lost /\ running'[s] # 0 => s \in lost'

LEMMA RunsOnStep ==
  ASSUME TypeOK, NEW w \in Worker, WorkerStep(w)
  PROVE  RunsOn(w)
<1> WorkerType /\ BackType
  BY TypeParts
<1>0. \A i \in Info \cup {NoInfo}, s \in Scope : Stop(i) => StopKnown(i, s)
  BY StopKeeps
<1> USE DEF RunsOn
<1>1. ASSUME Get(w) PROVE RunsOn(w)
  BY <1>1 DEF Get, MayCall, Goto, used, pool, workers, WorkerType, BackType
<1>2. ASSUME Lock(w) PROVE RunsOn(w)
  BY <1>2 DEF Lock, Goto, used, pool, workers, WorkerType, BackType
<1>3. ASSUME ReleaseCancelled(w) PROVE RunsOn(w)
  BY <1>3 DEF ReleaseCancelled, Finish, Goto, used, pool, workers, WorkerType, BackType
<1>4. ASSUME Cancel(w) PROVE RunsOn(w)
  BY <1>4 DEF Cancel, Fault, Goto, used, pool, workers, WorkerType, BackType
<1>5. ASSUME Reuse(w) PROVE RunsOn(w)
  BY <1>5 DEF Reuse, Goto, Miss, Vanish, used, pool, workers, WorkerType, BackType
<1>6. ASSUME LookWarm(w) PROVE RunsOn(w)
  BY <1>6 DEF LookWarm, Goto, Miss, Vanish, used, pool, workers, WorkerType, BackType
<1>7. ASSUME Check(w) PROVE RunsOn(w)
  BY <1>7 DEF Check, Goto, used, pool, workers, WorkerType, BackType
<1>8. ASSUME Drop(w) PROVE RunsOn(w)
  BY <1>8 DEF Drop, Removable, Forget, Forgotten, Goto, Miss, Vanish, used, pool, workers, WorkerType, BackType
<1>9. ASSUME Dropped(w) PROVE RunsOn(w)
  <2>1. Stop(info[w]) /\ info[w] \in Info \cup {NoInfo}
    BY <1>9 DEF Dropped, WorkerType
  <2> QED BY <1>0, <1>9, <2>1 DEF Dropped, StopKnown
<1>10. ASSUME Touch(w) PROVE RunsOn(w)
  BY <1>10 DEF Touch, Finish, Goto, Miss, Vanish, used, pool, workers, WorkerType, BackType
<1>11. ASSUME Reclaim(w) PROVE RunsOn(w)
  BY <1>11 DEF Reclaim, Track, Finish, Goto, Miss, Vanish, used, pool, workers, WorkerType, BackType
<1>12. ASSUME Discover(w) PROVE RunsOn(w)
  BY <1>12 DEF Discover, Goto, Return, Vanish, used, pool, workers, WorkerType, BackType
<1>13. ASSUME Evict(w) PROVE RunsOn(w)
  BY <1>13 DEF Evict, Goto, Return, Vanish, used, pool, workers, WorkerType, BackType
<1>14. ASSUME Evicted(w) PROVE RunsOn(w)
  <2>1. Stop(info[w]) /\ info[w] \in Info \cup {NoInfo}
    BY <1>14 DEF Evicted, WorkerType
  <2> QED BY <1>0, <1>14, <2>1 DEF Evicted, StopKnown
<1>15. ASSUME Create(w) PROVE RunsOn(w)
  BY <1>15 DEF Create, Goto, used, pool, workers, WorkerType, BackType
<1>16. ASSUME CreateFails(w) PROVE RunsOn(w)
  BY <1>16 DEF CreateFails, Finish, Goto, used, pool, workers, WorkerType, BackType
<1>17. ASSUME CreatedForNobody(w) PROVE RunsOn(w)
  BY <1>17 DEF CreatedForNobody, Vanish, Goto, used, pool, workers, WorkerType, BackType
<1>18. ASSUME Register(w) PROVE RunsOn(w)
  BY <1>18 DEF Register, Track, Finish, Goto, used, pool, workers, WorkerType, BackType
<1>19. ASSUME NotReady(w) PROVE RunsOn(w)
  BY <1>19 DEF NotReady, Goto, used, pool, workers, WorkerType, BackType
<1>20. ASSUME Unready(w) PROVE RunsOn(w)
  <2>1. Stop(info[w]) /\ info[w] \in Info \cup {NoInfo}
    BY <1>20 DEF Unready, WorkerType
  <2> QED BY <1>0, <1>20, <2>1 DEF Unready, StopKnown
<1>21. ASSUME Release(w) PROVE RunsOn(w)
  BY <1>21 DEF Release, Park, Goto, used, pool, workers, WorkerType, BackType
<1>22. ASSUME AskAny(w) PROVE RunsOn(w)
  BY <1>22 DEF AskAny, Ask, MayCall, Goto, used, pool, workers, WorkerType, BackType
<1> QED
  BY <1>1, <1>2, <1>3, <1>4, <1>5, <1>6, <1>7, <1>8, <1>9, <1>10, <1>11, <1>12, <1>13, <1>14, <1>15, <1>16, <1>17, <1>18, <1>19, <1>20, <1>21, <1>22
     DEF WorkerStep, Acquire

\* Its own step takes a worker to a drop only if it finds the container dead.
LEMMA OwnDrop ==
  ASSUME TypeOK, NEW w \in Worker, WorkerStep(w), DropInv(w)
  PROVE  DropInv(w)'
<1> WorkerType /\ MapType
  BY TypeParts
<1> USE DEF WorkerType
<1>1. ASSUME Get(w) PROVE DropInv(w)'
  BY <1>1 DEF Get, MayCall, Goto, DropInv, workers, used
<1>2. ASSUME Lock(w) PROVE DropInv(w)'
  BY <1>2 DEF Lock, Goto, DropInv, workers, used
<1>3. ASSUME ReleaseCancelled(w) PROVE DropInv(w)'
  BY <1>3 DEF ReleaseCancelled, Finish, Goto, DropInv, workers, used
<1>4. ASSUME Cancel(w) PROVE DropInv(w)'
  <2>1. UNCHANGED <<running, pool, scope, info, lost>> /\ pc'[w] \in {pc[w], "abandoned"}
    BY <1>4 DEF Cancel, Goto
  <2>2. Unclaimed(scope[w]) => Unclaimed(scope[w])'
    <3>1. gone \subseteq gone' /\ \A g \in gone : pc'[g] = pc[g]
      BY <1>4 DEF Cancel, Goto, Locked
    <3> QED BY <2>1, <3>1 DEF Unclaimed, Hit
  <2> QED BY <2>1, <2>2 DEF DropInv, pool
<1>5. ASSUME Reuse(w) PROVE DropInv(w)'
  BY <1>5 DEF Reuse, Goto, Miss, Vanish, DropInv, workers, used
<1>6. ASSUME LookWarm(w) PROVE DropInv(w)'
  BY <1>6 DEF LookWarm, Goto, Miss, Vanish, DropInv, workers, used
<1>7. ASSUME Check(w) PROVE DropInv(w)'
  <2>1. ASSUME pc'[w] \in {"dropActive", "dropWarm"} PROVE running[scope[w]] = 0
    BY <1>7, <2>1 DEF Check, Goto, FoundDead
  <2> QED BY <1>7, <2>1 DEF Check, DropInv
<1>8. ASSUME Drop(w) PROVE DropInv(w)'
  BY <1>8 DEF Drop, Removable, Forget, Forgotten, Goto, Miss, Vanish, DropInv, workers, used
<1>9. ASSUME Dropped(w) PROVE DropInv(w)'
  BY <1>9 DEF Dropped, Stop, Miss, Vanish, Goto, DropInv, workers, used
<1>10. ASSUME Touch(w) PROVE DropInv(w)'
  BY <1>10 DEF Touch, Finish, Goto, Miss, Vanish, DropInv, workers, used
<1>11. ASSUME Reclaim(w) PROVE DropInv(w)'
  BY <1>11 DEF Reclaim, Track, Finish, Goto, Miss, Vanish, DropInv, workers, used
<1>12. ASSUME Discover(w) PROVE DropInv(w)'
  BY <1>12 DEF Discover, Goto, Return, Vanish, DropInv, workers, used
<1>13. ASSUME Evict(w) PROVE DropInv(w)'
  BY <1>13 DEF Evict, Goto, Return, Vanish, DropInv, workers, used
<1>14. ASSUME Evicted(w) PROVE DropInv(w)'
  BY <1>14 DEF Evicted, Stop, Goto, Vanish, DropInv, workers, used
<1>15. ASSUME Create(w) PROVE DropInv(w)'
  BY <1>15 DEF Create, Goto, DropInv, workers, used
<1>16. ASSUME CreateFails(w) PROVE DropInv(w)'
  BY <1>16 DEF CreateFails, Finish, Goto, DropInv, workers, used
<1>17. ASSUME CreatedForNobody(w) PROVE DropInv(w)'
  BY <1>17 DEF CreatedForNobody, Vanish, Goto, DropInv, workers, used
<1>18. ASSUME Register(w) PROVE DropInv(w)'
  BY <1>18 DEF Register, Track, Finish, Goto, DropInv, workers, used
<1>19. ASSUME NotReady(w) PROVE DropInv(w)'
  BY <1>19 DEF NotReady, Goto, DropInv, workers, used
<1>20. ASSUME Unready(w) PROVE DropInv(w)'
  BY <1>20 DEF Unready, Stop, Finish, Goto, DropInv, workers, used
<1>21. ASSUME Release(w) PROVE DropInv(w)'
  BY <1>21 DEF Release, Park, Goto, DropInv, workers, used
<1>22. ASSUME AskAny(w) PROVE DropInv(w)'
  BY <1>22 DEF AskAny, Ask, MayCall, Goto, DropInv, workers, used
<1> QED
  BY <1>1, <1>2, <1>3, <1>4, <1>5, <1>6, <1>7, <1>8, <1>9, <1>10, <1>11, <1>12, <1>13, <1>14, <1>15, <1>16, <1>17, <1>18, <1>19, <1>20, <1>21, <1>22
     DEF WorkerStep, Acquire

LEMMA OtherDrop ==
  ASSUME TypeOK, TypeOK', LockInv, LostInv, Clear, faults' <= 1,
         \A y \in Worker : HandInv(y), NEW w \in Worker, WorkerStep(w),
         NEW x \in Worker \ {w}, DropInv(x)
  PROVE  DropInv(x)'
<1> WorkerType /\ MapType /\ BackType /\ LockOf(w) /\ ClearOf(w)
  BY TypeParts DEF LockInv, Clear
<1>0. faults \in Nat /\ faults' \in Nat /\ faults <= 1
  BY BackTypeStep, TypeParts, TypePartsNext DEF BackType
<1>1. \A y \in Worker \ {w} : Same(y)
  BY AloneStep DEF Alone
<1>2. scope[w] \in Scope /\ scope[x] \in Scope
  BY DEF WorkerType
<1> SUFFICES ASSUME pc'[x] \in {"dropActive", "dropWarm"},
                    info'[x] \in {active'[scope'[x]], warm'[scope'[x]]},
                    running'[scope'[x]] # 0
             PROVE  Unclaimed(scope[x])'
  BY DEF DropInv
<1> PICK s \in Scope : s = scope[x]
  BY <1>2
<1>3. pc[x] \in {"dropActive", "dropWarm"} /\ info[x] \in {active'[s], warm'[s]} /\ scope'[x] = s
  BY <1>1 DEF Same
<1>4. info[x] # NoInfo
  BY <1>3 DEF HandInv, Looked
<1>5. info[x] \in {active[s], warm[s]}
  <2>1. CASE Still(s)
    BY <1>3, <1>4, <2>1 DEF Still
  <2>2. CASE Promotes(s)
    BY <1>3, <1>4, <2>2 DEF Promotes
  <2>3. CASE Register(w) /\ s = scope[w]
    <3>1. active'[s] = info[w] /\ warm' = warm
      BY <2>3 DEF Register, Track, WorkerType, MapType
    <3>2. info[w] # info[x]
      BY <2>3 DEF Register, HandInv
    <3> QED BY <1>3, <3>1, <3>2
  <2>4. Still(s) \/ Promotes(s) \/ (Register(w) /\ s = scope[w])
    BY StillSteps, PromotingStep, RegisteringStep DEF WorkerStep, Acquire, StillStep
  <2> QED BY <2>1, <2>2, <2>3, <2>4
<1>6. ~Absent(s)
  BY <1>4, <1>5 DEF Absent, Active, Warm
<1>7. Attached(w) /\ pc[w] \in Past => scope[w] # s
  BY <1>6 DEF ClearOf
<1>8. running[s] = 0 \/ Unclaimed(s)
  BY <1>3, <1>5 DEF DropInv
<1>9. ASSUME running'[s] # running[s] PROVE Unclaimed(s)'
  <2>1. Create(w) /\ s = scope[w] /\ running'[s] = NewObject
    <3>1. Create(w)
      BY <1>3, <1>9, RunsOnStep DEF RunsOn
    <3> QED BY <1>9, <3>1 DEF Create, BackType
  <2>2. w \in gone
    BY <1>7, <2>1 DEF Create, Attached, Past
  <2>3. w \in gone' /\ pc'[w] = "ready" /\ scope'[w] = s
    BY <2>1, <2>2 DEF Create, Goto, WorkerType
  <2>4. info'[w].obj = NewObject /\ info'[w].id = s
    BY <2>1 DEF Create, WorkerType
  <2>5. NewObject # 0
    BY <2>1, NewObjectIsNew DEF Create
  <2>6. Hit(info[w])'
    BY <2>1, <2>4, <2>5 DEF Hit, NoInfo
  <2> QED BY <2>3, <2>6 DEF Unclaimed
<1>10. ASSUME running'[s] = running[s], s \in lost PROVE s \in lost'
  <2>1. gone = {}
    BY <1>0, <1>10 DEF LostInv
  <2>2. CASE Register(w)
    <3>1. scope[w] # s
      BY <1>7, <2>1, <2>2 DEF Register, Attached, Past
    <3> QED BY <1>10, <2>2, <3>1 DEF Register, Track
  <2>3. CASE Reclaim(w)
    <3>1. Attached(w) /\ Attached(x)
      BY <1>3, <2>1, <2>3 DEF Reclaim, Attached
    <3>2. scope[w] # s
      BY <3>1, OneHolder
    <3> QED BY <1>10, <2>3, <3>2 DEF Reclaim, Track
  <2>4. CASE ~Register(w) /\ ~Reclaim(w)
    BY <1>3, <1>10, <2>4, RunsOnStep DEF RunsOn
  <2> QED BY <2>2, <2>3, <2>4
<1>11. ASSUME running'[s] = running[s], NEW g \in gone, pc[g] = "ready", scope[g] = s, Hit(info[g])
       PROVE  Unclaimed(s)'
  <2>0. g \in Worker
    BY DEF WorkerType
  <2>1. CASE g = w
    <3>1. CreatedForNobody(w)
      BY <1>11, <2>1, RunsOnStep DEF RunsOn
    <3> QED BY <1>11, <2>1, <3>1 DEF CreatedForNobody, Unclaimed
  <2>2. CASE g # w
    <3>1. g \in gone' /\ pc'[g] = "ready" /\ scope'[g] = s /\ info'[g] = info[g]
      BY <1>1, <1>11, <2>0, <2>2 DEF Same
    <3>2. info[g].id = s
      BY <1>11, <2>0 DEF HandInv
    <3>3. Hit(info[g])'
      BY <1>11, <3>1, <3>2 DEF Hit
    <3> QED BY <3>1, <3>3 DEF Unclaimed
  <2> QED BY <2>1, <2>2
<1>12. ASSUME running'[s] = running[s] PROVE Unclaimed(s)'
  <2>1. Unclaimed(s)
    BY <1>3, <1>8, <1>12
  <2>2. CASE s \in lost
    BY <1>10, <1>12, <2>2 DEF Unclaimed
  <2>3. CASE \E g \in gone : pc[g] = "ready" /\ scope[g] = s /\ Hit(info[g])
    BY <1>11, <1>12, <2>3
  <2> QED BY <2>1, <2>2, <2>3 DEF Unclaimed
<1>13. Unclaimed(s)'
  BY <1>9, <1>12
<1> QED BY <1>3, <1>13 DEF Unclaimed

LEMMA StopWorker ==
  ASSUME TypeOK, StopInv, NEW w \in Worker, WorkerStep(w)
  PROVE  StopInv'
BY SideStep DEF StopInv

\* A worker's step keeps the invariant.
LEMMA ContainerWorker ==
  ASSUME PoolInv, PoolInv', ContainerInv, NEW w \in Worker, WorkerStep(w)
  PROVE  ContainerInv'
<1> TypeOK /\ TypeOK' /\ LockInv /\ ClearInv /\ PlaceInv /\ StopInv /\ LostInv /\ (\A y \in Worker : HandInv(y))
  BY DEF PoolInv, ContainerInv
<1>1. faults \in Nat /\ faults' \in Nat /\ faults <= faults'
  BY BackTypeStep, TypeParts, TypePartsNext DEF BackType
<1>2. PlaceInv' /\ StopInv' /\ LostInv'
  BY PlaceStep, StopWorker, LostWorker
<1>3. ASSUME NEW x \in Worker PROVE HandInv(x)'
  <2>1. CASE x = w
    BY <2>1, OwnHand
  <2>2. CASE x # w
    BY <2>2, OtherHand
  <2> QED BY <2>1, <2>2
<1>4. ASSUME faults' <= 1 PROVE (\A s \in Scope : Known(s)') /\ (\A x \in Worker : DropInv(x)')
  <2>1. Clear /\ (\A s \in Scope : Known(s)) /\ (\A x \in Worker : DropInv(x))
    BY <1>1, <1>4 DEF ClearInv, ContainerInv
  <2>2. ASSUME NEW s \in Scope PROVE Known(s)'
    <3>1. StillKnown(w, s)
      BY <2>1, KnownStep
    <3> QED BY <2>1, <3>1, AloneStep, SideStep, KnownFrom DEF Alone
  <2>3. ASSUME NEW x \in Worker PROVE DropInv(x)'
    <3>1. CASE x = w
      BY <2>1, <3>1, OwnDrop
    <3>2. CASE x # w
      BY <1>4, <2>1, <3>2, OtherDrop
    <3> QED BY <3>1, <3>2
  <2> QED BY <2>2, <2>3
<1> QED BY <1>2, <1>3, <1>4 DEF ContainerInv

\* The other threads: what they collect was collected and stopped before.
LEMMA OtherStop ==
  ASSUME TypeOK, StopInv, OtherStep
  PROVE  StopInv'
<1> SideType
  BY TypeParts
<1> USE DEF StopInv, SideType
<1>1. ASSUME NEW s \in Scope, Age(s) PROVE StopInv'
  BY <1>1 DEF Age
<1>2. ASSUME NEW s \in Scope, Die(s) PROVE StopInv'
  BY <1>2 DEF Die, Fault
<1>3. ASSUME NEW s \in Scope, Verify(s) PROVE StopInv'
  BY <1>3 DEF Verify
<1>4. ASSUME NEW s \in Scope, DestroyOnShutdown(s) PROVE StopInv'
  BY <1>4 DEF DestroyOnShutdown, Forget, Destroyed, Forgotten
<1>5. ASSUME Mark PROVE StopInv'
  BY <1>5 DEF Mark, Quiet
<1>6. ASSUME DestroyIdle PROVE StopInv'
  BY <1>6 DEF DestroyIdle, Forget, Destroyed, Forgotten
<1>7. ASSUME Reap PROVE StopInv'
  BY <1>7 DEF Reap, Expired
<1>8. ASSUME Swept PROVE StopInv'
  BY <1>8 DEF Swept, Quiet
<1>9. ASSUME Shutdown PROVE StopInv'
  BY <1>9 DEF Shutdown, Fault
<1>10. ASSUME NEW i \in sweep.stop, StopIdle(i) PROVE StopInv'
  BY <1>10 DEF StopIdle, Stop
<1>11. ASSUME NEW i \in shut.stop \cup shut.rest, StopOnShutdown(i) PROVE StopInv'
  BY <1>11 DEF StopOnShutdown, Stop
<1> QED
  BY <1>1, <1>2, <1>3, <1>4, <1>5, <1>6, <1>7, <1>8, <1>9, <1>10, <1>11 DEF OtherStep

\* ... a container is lost by a stop that fails, and shutdown() takes a fault ...
OnlyByFault == (lost' \subseteq lost /\ shut'.at = shut.at) \/ Fault

LEMMA OtherLost ==
  ASSUME TypeOK, OtherStep
  PROVE  OnlyByFault
<1> SideType
  BY TypeParts
<1> USE DEF used, OnlyByFault, SideType
<1>1. ASSUME NEW s \in Scope, Age(s) PROVE OnlyByFault
  BY <1>1 DEF Age
<1>2. ASSUME NEW s \in Scope, Die(s) PROVE OnlyByFault
  BY <1>2 DEF Die, Fault
<1>3. ASSUME NEW s \in Scope, Verify(s) PROVE OnlyByFault
  BY <1>3 DEF Verify
<1>4. ASSUME NEW s \in Scope, DestroyOnShutdown(s) PROVE OnlyByFault
  BY <1>4 DEF DestroyOnShutdown, Forget, Destroyed, Forgotten
<1>5. ASSUME Mark PROVE OnlyByFault
  BY <1>5 DEF Mark, Quiet
<1>6. ASSUME DestroyIdle PROVE OnlyByFault
  BY <1>6 DEF DestroyIdle, Forget, Destroyed, Forgotten
<1>7. ASSUME Reap PROVE OnlyByFault
  BY <1>7 DEF Reap, Expired
<1>8. ASSUME Swept PROVE OnlyByFault
  BY <1>8 DEF Swept, Quiet
<1>9. ASSUME Shutdown PROVE OnlyByFault
  BY <1>9 DEF Shutdown, Fault
<1>10. ASSUME NEW i \in sweep.stop, StopIdle(i) PROVE OnlyByFault
  BY <1>10 DEF StopIdle, Stop
<1>11. ASSUME NEW i \in shut.stop \cup shut.rest, StopOnShutdown(i) PROVE OnlyByFault
  BY <1>11 DEF StopOnShutdown, Stop
<1> QED
  BY <1>1, <1>2, <1>3, <1>4, <1>5, <1>6, <1>7, <1>8, <1>9, <1>10, <1>11 DEF OtherStep

\* ... and what one takes out of the maps is listed for its stop.
Listed(s) == \E i \in sweep.stop \cup shut.stop \cup shut.rest : i.id = s /\ Hit(i)
Tracked(s) == Hit(active[s]) \/ Hit(warm[s]) \/ Listed(s)

StillTracked(s) ==
    running'[s] # 0 => /\ running'[s] = running[s]
                       /\ s \in lost => s \in lost'
                       /\ Tracked(s) => Tracked(s)' \/ s \in lost'

LEMMA StopTracked ==
  ASSUME TypeOK, PlaceInv, NEW i \in Info, Stop(i), NEW t \in Scope, UNCHANGED pool,
         (sweep.stop \cup shut.stop \cup shut.rest) \ {i}
         \subseteq (sweep.stop \cup shut.stop \cup shut.rest)'
  PROVE  StillTracked(t)
<1> StopKnown(i, t)
  BY StopKeeps
<1> SUFFICES ASSUME running'[t] # 0, Tracked(t), t \notin lost' PROVE Tracked(t)'
  BY DEF StillTracked, StopKnown
<1>1. running'[t] = running[t] /\ ~(Hit(i) /\ i.id = t)
  BY DEF StopKnown
<1>2. CASE Hit(active[t]) \/ Hit(warm[t])
  BY <1>1, <1>2 DEF Tracked, Hit, pool, PlaceInv, Active, Warm
<1>3. CASE Listed(t)
  <2>1. PICK j \in sweep.stop \cup shut.stop \cup shut.rest : j.id = t /\ Hit(j)
    BY <1>3 DEF Listed
  <2>2. j \in (sweep.stop \cup shut.stop \cup shut.rest)'
    BY <1>1, <2>1
  <2>3. Hit(j)'
    BY <1>1, <2>1 DEF Hit
  <2> QED BY <2>1, <2>2, <2>3 DEF Tracked, Listed
<1> QED BY <1>2, <1>3 DEF Tracked

\* What destroy() takes from the maps of s it stops.
LEMMA ForgetTracked ==
  ASSUME TypeOK, PlaceInv, NEW s \in Scope, Exclusive(s), Forget(s), UNCHANGED <<running, lost>>,
         sweep.stop \cup shut.stop \cup shut.rest \cup Destroyed(s)
         \subseteq (sweep.stop \cup shut.stop \cup shut.rest)',
         NEW t \in Scope
  PROVE  StillTracked(t)
<1> MapType
  BY TypeParts
<1> SUFFICES ASSUME Tracked(t) PROVE Tracked(t)'
  BY DEF StillTracked
<1>1. Listed(t) => Listed(t)'
  BY DEF Listed, Hit
<1>2. CASE t = s /\ (Hit(active[t]) \/ Hit(warm[t]))
  <2>1. Hit(Forgotten(s)) /\ Forgotten(s).id = s
    BY <1>2 DEF Forgotten, Hit, PlaceInv, Exclusive, Active, Warm
  <2>2. Forgotten(s) \in Destroyed(s)
    BY <2>1 DEF Destroyed, Hit
  <2>3. Forgotten(s) \in (sweep.stop \cup shut.stop \cup shut.rest)'
    BY <2>2
  <2>4. \E i \in (sweep.stop \cup shut.stop \cup shut.rest)' : i.id = t /\ Hit(i)'
    BY <1>2, <2>1, <2>3 DEF Hit
  <2> QED BY <2>4 DEF Tracked, Listed
<1>3. CASE t # s
  BY <1>1, <1>3 DEF Forget, MapType, Tracked, Hit
<1> QED BY <1>1, <1>2, <1>3 DEF Tracked

\* Warm entries that are taken out are stopped.
LEMMA CollectTracked ==
  ASSUME TypeOK, PlaceInv, UNCHANGED <<running, active, lost>>, NEW t \in Scope,
         sweep.stop \cup shut.stop \cup shut.rest \subseteq (sweep.stop \cup shut.stop \cup shut.rest)',
         warm'[t] = warm[t] \/ (Warm(t) => warm[t] \in (sweep.stop \cup shut.stop \cup shut.rest)')
  PROVE  StillTracked(t)
<1> SUFFICES ASSUME Tracked(t) PROVE Tracked(t)'
  BY DEF StillTracked
<1>1. Listed(t) => Listed(t)'
  BY DEF Listed, Hit
<1>2. CASE Hit(warm[t]) /\ warm'[t] # warm[t]
  <2>1. warm[t] \in (sweep.stop \cup shut.stop \cup shut.rest)' /\ warm[t].id = t
    BY <1>2 DEF Warm, Hit, PlaceInv
  <2>2. \E i \in (sweep.stop \cup shut.stop \cup shut.rest)' : i.id = t /\ Hit(i)'
    BY <1>2, <2>1 DEF Hit
  <2> QED BY <2>2 DEF Tracked, Listed
<1> QED BY <1>1, <1>2 DEF Tracked, Hit

LEMMA OtherTracked ==
  ASSUME TypeOK, SweepInv, Clear, PlaceInv, StopInv, OtherStep, NEW t \in Scope
  PROVE  StillTracked(t)
<1> MapType /\ BackType /\ SideType /\ \A s \in Scope : Exclusive(s)
  BY TypeParts DEF Clear
<1> USE DEF StillTracked
<1>1. ASSUME NEW s \in Scope, Age(s) PROVE StillTracked(t)
  <2>1. UNCHANGED <<running, active, warm, lost>> /\ sweep'.stop = sweep.stop /\ shut' = shut
    BY <1>1 DEF Age, pool, StopInv, SideType, Quiet
  <2> QED BY <2>1 DEF Tracked, Listed, Hit
<1>2. ASSUME NEW s \in Scope, Die(s) PROVE StillTracked(t)
  <2>1. /\ running'[t] # 0 => running'[t] = running[t] /\ (t \in lost => t \in lost')
        /\ UNCHANGED <<pool, sweep, shut>>
    BY <1>2 DEF Die, BackType
  <2>2. running'[t] = running[t] /\ Listed(t) => Listed(t)'
    BY <2>1 DEF Listed, Hit
  <2>3. running'[t] = running[t] /\ (Hit(active[t]) \/ Hit(warm[t])) => Hit(active[t])' \/ Hit(warm[t])'
    BY <2>1 DEF Hit, pool, PlaceInv, Active, Warm
  <2> QED BY <2>1, <2>2, <2>3 DEF Tracked
<1>3. ASSUME NEW s \in Scope, Verify(s) PROVE StillTracked(t)
  <2>1. UNCHANGED <<running, active, warm, lost>> /\ sweep'.stop = sweep.stop /\ shut' = shut
    BY <1>3 DEF Verify, pool, StopInv, SideType, Quiet
  <2> QED BY <2>1 DEF Tracked, Listed, Hit
<1>4. ASSUME NEW s \in Scope, DestroyOnShutdown(s) PROVE StillTracked(t)
  <2>1. Forget(s) /\ UNCHANGED <<running, lost>> /\ s \in Scope
    BY <1>4 DEF DestroyOnShutdown, SweepInv
  <2>2. sweep.stop \cup shut.stop \cup shut.rest \cup Destroyed(s) \subseteq (sweep.stop \cup shut.stop \cup shut.rest)'
    BY <1>4 DEF DestroyOnShutdown, StopInv, SideType
  <2> QED BY <2>1, <2>2, ForgetTracked
<1>5. ASSUME Mark PROVE StillTracked(t)
  <2>1. UNCHANGED <<running, active, warm, lost>> /\ sweep'.stop = sweep.stop /\ shut' = shut
    BY <1>5 DEF Mark, pool, StopInv, SideType, Quiet
  <2> QED BY <2>1 DEF Tracked, Listed, Hit
<1>6. ASSUME DestroyIdle PROVE StillTracked(t)
  <2>1. Forget(sweep.now) /\ UNCHANGED <<running, lost>> /\ sweep.now \in Scope
    BY <1>6 DEF DestroyIdle, SweepInv
  <2>2. sweep.stop \cup shut.stop \cup shut.rest \cup Destroyed(sweep.now) \subseteq (sweep.stop \cup shut.stop \cup shut.rest)'
    BY <1>6 DEF DestroyIdle, StopInv, SideType
  <2> QED BY <2>1, <2>2, ForgetTracked
<1>7. ASSUME Reap PROVE StillTracked(t)
  <2>1. UNCHANGED <<running, active, lost>>
    BY <1>7 DEF Reap
  <2>2. sweep.stop \cup shut.stop \cup shut.rest \subseteq (sweep.stop \cup shut.stop \cup shut.rest)'
    BY <1>7 DEF Reap, StopInv, SideType
  <2>3. warm'[t] = warm[t] \/ (Warm(t) => warm[t] \in (sweep.stop \cup shut.stop \cup shut.rest)')
    BY <1>7 DEF Reap, SideType, Expired
  <2> QED BY <2>1, <2>2, <2>3, CollectTracked
<1>8. ASSUME Swept PROVE StillTracked(t)
  <2>1. UNCHANGED <<running, active, warm, lost>> /\ sweep'.stop = sweep.stop /\ shut' = shut
    BY <1>8 DEF Swept, pool, StopInv, SideType, Quiet
  <2> QED BY <2>1 DEF Tracked, Listed, Hit
<1>9. ASSUME Shutdown PROVE StillTracked(t)
  <2>1. UNCHANGED <<running, active, lost>>
    BY <1>9 DEF Shutdown
  <2>2. sweep.stop \cup shut.stop \cup shut.rest \subseteq (sweep.stop \cup shut.stop \cup shut.rest)'
    BY <1>9 DEF Shutdown, StopInv, SideType
  <2>3. warm'[t] = warm[t] \/ (Warm(t) => warm[t] \in (sweep.stop \cup shut.stop \cup shut.rest)')
    BY <1>9 DEF Shutdown, SideType, Expired
  <2> QED BY <2>1, <2>2, <2>3, CollectTracked
<1>10. ASSUME NEW i \in sweep.stop, StopIdle(i) PROVE StillTracked(t)
  <2>1. i \in Info /\ Stop(i) /\ UNCHANGED pool
    BY <1>10 DEF StopIdle, SideType
  <2>2. (sweep.stop \cup shut.stop \cup shut.rest) \ {i} \subseteq (sweep.stop \cup shut.stop \cup shut.rest)'
    BY <1>10 DEF StopIdle, SideType
  <2> QED BY <2>1, <2>2, StopTracked
<1>11. ASSUME NEW i \in shut.stop \cup shut.rest, StopOnShutdown(i) PROVE StillTracked(t)
  <2>1. i \in Info /\ Stop(i) /\ UNCHANGED pool
    BY <1>11 DEF StopOnShutdown, SideType
  <2>2. (sweep.stop \cup shut.stop \cup shut.rest) \ {i} \subseteq (sweep.stop \cup shut.stop \cup shut.rest)'
    BY <1>11 DEF StopOnShutdown, SideType
  <2> QED BY <2>1, <2>2, StopTracked
<1> QED
  BY <1>1, <1>2, <1>3, <1>4, <1>5, <1>6, <1>7, <1>8, <1>9, <1>10, <1>11 DEF OtherStep

\* So the other threads keep the invariant.
LEMMA ContainerOther ==
  ASSUME PoolInv, PoolInv', ContainerInv, OtherStep
  PROVE  ContainerInv'
<1> TypeOK /\ TypeOK' /\ SweepInv /\ LockInv /\ ClearInv /\ PlaceInv /\ StopInv /\ LostInv
    /\ (\A y \in Worker : HandInv(y))
  BY DEF PoolInv, ContainerInv
<1> WorkerType /\ MapType
  BY TypeParts
<1>0. UNCHANGED workers /\ \A s \in Scope : Still(s)
  BY OtherMaps
<1>1. faults \in Nat /\ faults' \in Nat /\ faults <= faults'
  BY OtherBack, TypeParts, TypePartsNext DEF BackType
<1>2. PlaceInv'
  BY <1>0 DEF PlaceInv, Still, Active, Warm
<1>3. StopInv'
  BY OtherStop
<1>4. LostInv'
  <2>1. CASE lost' \subseteq lost /\ shut'.at = shut.at
    BY <1>0, <1>1, <2>1 DEF LostInv, workers
  <2>2. CASE Fault
    BY <1>0, <1>1, <2>2 DEF LostInv, LockInv, Fault, workers
  <2> QED BY <2>1, <2>2, OtherLost DEF OnlyByFault
<1>5. ASSUME NEW x \in Worker PROVE HandInv(x)'
  <2>1. HandInv(x)
    OBVIOUS
  <2>2. ASSUME NEW s \in Scope, pc[x] \in {"found", "ready"}
        PROVE  active'[s] # info[x] /\ warm'[s] # info[x]
    BY <1>0, <2>2 DEF HandInv, Still
  <2> QED BY <1>0, <2>1, <2>2 DEF HandInv, workers
<1>6. ASSUME faults' <= 1 PROVE (\A s \in Scope : Known(s)') /\ (\A x \in Worker : DropInv(x)')
  <2>1. Clear /\ (\A s \in Scope : Known(s)) /\ (\A x \in Worker : DropInv(x))
    BY <1>1, <1>6 DEF ClearInv, ContainerInv
  <2>2. ASSUME NEW s \in Scope PROVE StillTracked(s)
    BY <2>1, OtherTracked
  <2>3. ASSUME NEW s \in Scope PROVE Known(s)'
    <3>1. SUFFICES ASSUME running'[s] # 0 PROVE Tracked(s)' \/ s \in lost' \/ \E x \in Worker : Holds(x, s)'
      BY <1>0 DEF Known, Tracked, Listed, InHand, Holds, HandPc, workers
    <3>2. running'[s] = running[s]
      BY <2>2, <3>1 DEF StillTracked
    <3>3. Tracked(s) \/ s \in lost \/ \E x \in Worker : Holds(x, s)
      BY <2>1, <3>1, <3>2 DEF Known, Tracked, Listed, InHand, Holds, HandPc
    <3>4. ASSUME NEW x \in Worker, Holds(x, s) PROVE Holds(x, s)'
      BY <1>0, <3>2, <3>4 DEF Holds, Hit, workers
    <3> QED BY <2>2, <3>1, <3>3, <3>4 DEF StillTracked
  <2>4. ASSUME NEW x \in Worker PROVE DropInv(x)'
    <3>0. UNCHANGED <<pc, scope, info, gone>>
      BY <1>0 DEF workers
    <3> PICK s \in Scope : s = scope[x]
      BY DEF WorkerType
    <3>1. SUFFICES ASSUME pc[x] \in {"dropActive", "dropWarm"}, info[x] \in {active'[s], warm'[s]},
                          running'[s] # 0
                   PROVE  Unclaimed(s)'
      BY <3>0 DEF DropInv, Unclaimed
    <3>2. info[x] \in {active[s], warm[s]}
      BY <1>0, <3>1 DEF HandInv, Looked, Still
    <3>3. running'[s] = running[s] /\ (s \in lost => s \in lost')
      BY <2>2, <3>1 DEF StillTracked
    <3>4. Unclaimed(s)
      BY <2>1, <3>1, <3>2, <3>3 DEF DropInv
    <3>5. ASSUME NEW g \in gone, pc[g] = "ready", scope[g] = s, Hit(info[g]) PROVE Hit(info[g])'
      <4>1. info[g].id = s
        BY <3>5 DEF HandInv, WorkerType
      <4> QED BY <3>0, <3>3, <3>5, <4>1 DEF Hit
    <3> QED BY <3>0, <3>3, <3>4, <3>5 DEF Unclaimed
  <2> QED BY <2>3, <2>4
<1> QED BY <1>2, <1>3, <1>4, <1>5, <1>6 DEF ContainerInv

LEMMA ContainerRestart ==
  ASSUME PoolInv, LostInv, Restart
  PROVE  ContainerInv'
<1> WorkerType /\ BackType /\ SideType
  BY TypeParts DEF PoolInv
<1> PICK listing \in Listings : Adopt(listing)
  BY DEF Restart
<1>1. /\ active' = [s \in Scope |-> NoInfo]
      /\ warm' = [s \in Scope |-> IF s \in listing THEN [obj |-> running[s], id |-> s, named |-> TRUE]
                                  ELSE NoInfo]
      /\ running' = running /\ lost' = Running \ listing
      /\ \A x \in Worker : pc'[x] = "idle"
      /\ sweep' = Quiet /\ shut' = Up
      /\ gone' = {}
  BY DEF Restart, Adopt
<1>2. PlaceInv'
  BY <1>1 DEF PlaceInv, Active, Warm
<1>3. StopInv' /\ LostInv'
  <2>1. faults' # 0
    BY DEF Restart, Fault, LostInv, BackType, used
  <2> QED BY <1>1, <2>1 DEF StopInv, LostInv, Quiet, Up
<1>4. \A x \in Worker : HandInv(x)' /\ DropInv(x)'
  BY <1>1 DEF HandInv, DropInv, Looked
<1>5. ASSUME NEW s \in Scope PROVE Known(s)'
  BY <1>1, SandboxAssumption DEF Known, Hit, NoInfo, BackType, Running
<1> QED BY <1>2, <1>3, <1>4, <1>5 DEF ContainerInv

LEMMA ContainerInit == Init => ContainerInv
<1> SUFFICES ASSUME Init PROVE ContainerInv
  OBVIOUS
<1>1. PlaceInv /\ StopInv /\ LostInv
  BY DEF Init, PlaceInv, StopInv, LostInv, Quiet, Up, Active, Warm
<1>2. \A x \in Worker : HandInv(x) /\ DropInv(x)
  BY DEF Init, HandInv, DropInv, Looked
<1>3. \A s \in Scope : Known(s)
  BY DEF Init, Known
<1> QED BY <1>1, <1>2, <1>3 DEF ContainerInv

LEMMA ContainerNext == PoolInv /\ PoolInv' /\ ContainerInv /\ [Next]_vars => ContainerInv'
<1> SUFFICES ASSUME PoolInv, PoolInv', ContainerInv, [Next]_vars PROVE ContainerInv'
  OBVIOUS
<1>1. CASE \E w \in Worker : WorkerStep(w)
  BY <1>1, ContainerWorker
<1>2. CASE OtherStep
  BY <1>2, ContainerOther
<1>3. CASE Restart
  BY <1>3, ContainerRestart DEF ContainerInv
<1>4. CASE UNCHANGED vars
  BY <1>4 DEF vars, ContainerInv, PlaceInv, StopInv, LostInv, HandInv, DropInv, Known, InHand,
              Unclaimed, Hit, Active, Warm
<1> QED BY <1>1, <1>2, <1>3, <1>4 DEF Next, WorkerStep, AskAny, OtherStep, Sweep, GoDown

LEMMA ContainerInvariant == Spec => []ContainerInv
<1>1. PoolInv /\ ContainerInv /\ [Next]_vars /\ PoolInv' => ContainerInv'
  BY ContainerNext
<1> QED BY <1>1, ContainerInit, PoolInvariant, PTL DEF Spec

\* With any number of workers, scopes and calls, one fault leaks no container:
\* wherever an acquisition is cancelled, whatever dies and whichever stop
\* fails, a running container is tracked, in the hands of somebody who stops
\* or registers it, or lost by that very fault; after the end of the process, by
\* a start whose listing missed it.  The argument rests on a sandbox
\* not being active and warm at once, which holds up to one fault; the run goes
\* beyond it on a small instance.
THEOREM NothingLeaks == Spec => [](faults <= 1 => NoLeakedContainer)
<1>1. ContainerInv => (faults <= 1 => NoLeakedContainer)
  BY DEF ContainerInv, NoLeakedContainer, Known
<1> QED BY <1>1, ContainerInvariant, PTL

\* Only the removal of the entry that was checked leads from a failed check to
\* a stop.
LEMMA DropRemoves ==
  ASSUME TypeOK, NEW w \in Worker, WorkerStep(w),
         pc[w] \in {"dropActive", "dropWarm"}, pc'[w] \in {"stopActive", "stopWarm"}
  PROVE  Removable(scope[w], info[w])
<1> WorkerType
  BY TypeParts
<1> USE DEF WorkerType
<1>1. ASSUME Get(w) PROVE Removable(scope[w], info[w])
  BY <1>1 DEF Get, MayCall, Goto, workers
<1>2. ASSUME Lock(w) PROVE Removable(scope[w], info[w])
  BY <1>2 DEF Lock, Goto, workers
<1>3. ASSUME ReleaseCancelled(w) PROVE Removable(scope[w], info[w])
  BY <1>3 DEF ReleaseCancelled, Finish, Goto, workers
<1>4. ASSUME Cancel(w) PROVE Removable(scope[w], info[w])
  BY <1>4 DEF Cancel, Fault, Goto, workers
<1>5. ASSUME Reuse(w) PROVE Removable(scope[w], info[w])
  BY <1>5 DEF Reuse, Goto, Miss, Vanish, workers
<1>6. ASSUME LookWarm(w) PROVE Removable(scope[w], info[w])
  BY <1>6 DEF LookWarm, Goto, Miss, Vanish, workers
<1>7. ASSUME Check(w) PROVE Removable(scope[w], info[w])
  BY <1>7 DEF Check, Goto, workers
<1>8. ASSUME Drop(w) PROVE Removable(scope[w], info[w])
  BY <1>8 DEF Drop, Goto, Miss, Vanish, workers
<1>9. ASSUME Dropped(w) PROVE Removable(scope[w], info[w])
  BY <1>9 DEF Dropped, Stop, Miss, Vanish, Goto, workers
<1>10. ASSUME Touch(w) PROVE Removable(scope[w], info[w])
  BY <1>10 DEF Touch, Finish, Goto, Miss, Vanish, workers
<1>11. ASSUME Reclaim(w) PROVE Removable(scope[w], info[w])
  BY <1>11 DEF Reclaim, Track, Finish, Goto, Miss, Vanish, workers
<1>12. ASSUME Discover(w) PROVE Removable(scope[w], info[w])
  BY <1>12 DEF Discover, Goto, Return, Vanish, workers
<1>13. ASSUME Evict(w) PROVE Removable(scope[w], info[w])
  BY <1>13 DEF Evict, Goto, Return, Vanish, workers
<1>14. ASSUME Evicted(w) PROVE Removable(scope[w], info[w])
  BY <1>14 DEF Evicted, Stop, Goto, Vanish, workers
<1>15. ASSUME Create(w) PROVE Removable(scope[w], info[w])
  BY <1>15 DEF Create, Goto, workers
<1>16. ASSUME CreateFails(w) PROVE Removable(scope[w], info[w])
  BY <1>16 DEF CreateFails, Finish, Goto, workers
<1>17. ASSUME CreatedForNobody(w) PROVE Removable(scope[w], info[w])
  BY <1>17 DEF CreatedForNobody, Vanish, Goto, workers
<1>18. ASSUME Register(w) PROVE Removable(scope[w], info[w])
  BY <1>18 DEF Register, Track, Finish, Goto, workers
<1>19. ASSUME NotReady(w) PROVE Removable(scope[w], info[w])
  BY <1>19 DEF NotReady, Goto, workers
<1>20. ASSUME Unready(w) PROVE Removable(scope[w], info[w])
  BY <1>20 DEF Unready, Stop, Finish, Goto, workers
<1>21. ASSUME Release(w) PROVE Removable(scope[w], info[w])
  BY <1>21 DEF Release, Park, Goto, workers
<1>22. ASSUME AskAny(w) PROVE Removable(scope[w], info[w])
  BY <1>22 DEF AskAny, Ask, MayCall, Goto, workers
<1> QED
  BY <1>1, <1>2, <1>3, <1>4, <1>5, <1>6, <1>7, <1>8, <1>9, <1>10, <1>11, <1>12, <1>13, <1>14, <1>15, <1>16, <1>17, <1>18, <1>19, <1>20, <1>21, <1>22
     DEF WorkerStep, Acquire

\* A health check runs without the lock, and its answer may be late: the entry
\* that is dropped for it has no running container behind it (or one that is
\* lost, or was created for a cancelled call),
\* for every number of workers, scopes and calls.
THEOREM HealthCheckSparesTheLiving == Spec => DropsOnlyDead
<1> DEFINE Spared(w) == /\ pc[w] \in {"dropActive", "dropWarm"} /\ pc'[w] \in {"stopActive", "stopWarm"}
                        => running[scope[w]] = 0 \/ Unclaimed(scope[w])
<1>1. PoolInv /\ ContainerInv /\ [Next]_vars => [faults <= 1 => \A w \in Worker : Spared(w)]_vars
  <2> SUFFICES ASSUME PoolInv, ContainerInv, [Next]_vars, faults <= 1, NEW x \in Worker,
                      pc[x] \in {"dropActive", "dropWarm"}, pc'[x] \in {"stopActive", "stopWarm"}
               PROVE  running[scope[x]] = 0 \/ Unclaimed(scope[x])
    OBVIOUS
  <2> TypeOK /\ LockInv /\ DropInv(x)
    BY DEF PoolInv, ContainerInv
  <2>1. CASE WorkerStep(x)
    BY <2>1, DropRemoves DEF DropInv, Removable
  <2>2. ASSUME NEW w \in Worker, WorkerStep(w), w # x PROVE FALSE
    BY <2>2, AloneStep DEF Alone, Same
  <2>3. CASE OtherStep
    BY <2>3, OtherMaps DEF workers
  <2>4. CASE Restart
    BY <2>4 DEF Restart
  <2>5. CASE UNCHANGED vars
    BY <2>5 DEF vars
  <2> QED BY <2>1, <2>2, <2>3, <2>4, <2>5 DEF Next, WorkerStep, AskAny, OtherStep, Sweep, GoDown
<1> QED BY <1>1, PoolInvariant, ContainerInvariant, PTL DEF Spec, DropsOnlyDead
=============================================================================
