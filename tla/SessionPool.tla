---------------------------- MODULE SessionPool ----------------------------
(***************************************************************************)
(* MCPSessionPool (mcp/session_pool.py): persistent MCP sessions, each     *)
(* owned by a task that enters, serves and exits it on one event loop.     *)
(*                                                                         *)
(* A call is a get_session, or one of close_scope, close_server and        *)
(* close_all.  It runs on the gateway's loop, or - a tool called by the    *)
(* synchronous wrapper (tools/sync.py) - on a loop of its own that         *)
(* asyncio.run ends with the tool.  The owner task a get_session creates   *)
(* carries the name of that call.  A step is what runs between two awaits; *)
(* what is done under _lock is one step.  An initialize() may never        *)
(* answer.                                                                 *)
(*                                                                         *)
(* Left out: loops that neither run nor are closed ("not expected in       *)
(* practice"), and the pool object that reset_session_pool abandons.       *)
(***************************************************************************)
EXTENDS Naturals, Sequences, FiniteSets

CONSTANTS
    Call,
    OwnLoop,       \* the calls made through the synchronous wrapper
    Key,           \* pairs of a server and a scope
    MaxSessions,   \* MAX_SESSIONS
    MaxUpsets      \* cancelled calls, and calls of close_all_sync

ASSUME SessionAssumption ==
    /\ MaxSessions \in Nat \ {0}
    /\ MaxUpsets \in Nat
    /\ OwnLoop \subseteq Call
    /\ IsFiniteSet(Call) /\ IsFiniteSet(Key)

VARIABLES
    entries,    \* _entries: the owners, in LRU order
    inflight,   \* _inflight: per key, the owner of the creation, or Nobody
    loop,       \* per call, its loop: the gateway's, or how far its own is
    pc,         \* per call, what it waits for
    key,        \* per call, its key
    evicted,    \* per call, what phase 2 has yet to shut down
    join,       \* per call, the creation it joined
    remote,     \* per call, its _shutdown on another loop
    owner,      \* per call, where the owner task it created is
    ready,      \* ... and that task's future
    closeEvt,   \* owners whose close event is set
    cancelReq,  \* owners whose task is cancelled
    posted,     \* closings put on other loops that nobody waits for
    upsets

registry == <<entries, inflight>>
calls == <<loop, pc, key, evicted, join, remote>>
owners == <<owner, ready, closeEvt, cancelReq>>
vars == <<entries, inflight, loop, pc, key, evicted, join, remote, owner, ready,
          closeEvt, cancelReq, posted, upsets>>

Nobody == "nobody"

ASSUME NobodyAssumption == Nobody \notin Call

Pc == {"idle", "evicting", "awaitOwner", "awaitRemote", "joining", "waiting",
       "unwinding", "closing", "returned", "raised"}
Live == {"created", "starting", "open", "closing"}

\* An owner to shut down: cancelled too, and waited for even on another loop?
Item == [o : Call, cancel : BOOLEAN, wait : BOOLEAN]

Ended(o) == owner[o] \in {"ended", "neverRan"}
Over(w) == pc[w] \in {"returned", "raised"}

\* Calls of the gateway share a loop; every other has its own.
SameLoop(w, o) == w = o \/ {w, o} \cap OwnLoop = {}
Running(o) == loop[o] \in {"gateway", "running"}

Init ==
    /\ entries = <<>>
    /\ inflight = [k \in Key |-> Nobody]
    /\ loop = [w \in Call |-> IF w \in OwnLoop THEN "running" ELSE "gateway"]
    /\ pc = [w \in Call |-> "idle"]
    /\ key \in [Call -> Key]
    /\ evicted = [w \in Call |-> <<>>]
    /\ join = [w \in Call |-> Nobody]
    /\ remote = [w \in Call |-> "none"]
    /\ owner = [w \in Call |-> "none"]
    /\ ready = [w \in Call |-> "pending"]
    /\ closeEvt = {} /\ cancelReq = {}
    /\ posted = {}
    /\ upsets = 0

Upset == upsets < MaxUpsets /\ upsets' = upsets + 1

Goto(w, p) == pc' = [pc EXCEPT ![w] = p]

-----------------------------------------------------------------------------
(* get_session, phase 1. *)

\* The registered owners of the keys ks, in LRU order.
EntriesOf(ks) ==
    LET kept[n \in 0..Len(entries)] ==
            IF n = 0 THEN <<>>
            ELSE IF key[entries[n]] \in ks THEN Append(kept[n - 1], entries[n]) ELSE kept[n - 1]
    IN  kept[Len(entries)]

\* The registered session of k, in a sequence of no or one owner.
Entry(k) == EntriesOf({k})
Without(k) == EntriesOf(Key \ {k})

\* The oldest entries, so many that MAX_SESSIONS - 1 stay.
Surplus(s) == IF Len(s) >= MaxSessions THEN Len(s) - MaxSessions + 1 ELSE 0

\* Mutation: what leaves the registry is not closed.
EvictionsLeft(s) == <<>>

\* An initialized session is signalled.
Evictions(s) == [i \in 1..Len(s) |-> [o |-> s[i], cancel |-> FALSE, wait |-> FALSE]]

\* A registered session of the same loop.
Reuse(w) ==
    LET k == key[w] IN
    /\ pc[w] = "idle"
    /\ \E o \in Call : /\ Entry(k) = <<o>> /\ SameLoop(w, o)
                       /\ entries' = Append(Without(k), o)
    /\ Goto(w, "returned")
    /\ UNCHANGED <<inflight, loop, key, evicted, join, remote, owners, posted, upsets>>

\* A creation in flight on the same loop.
Joinable(w) == inflight[key[w]] # Nobody /\ SameLoop(w, inflight[key[w]])

\* The owner of a creation may be blocked inside initialize(): it is cancelled.
StaleCreation(o) == [o |-> o, cancel |-> TRUE, wait |-> TRUE]

\* No such session: evict a stale entry and a stale creation of the key, join
\* a creation or start one, and make room.
Enter(w) ==
    LET k == key[w]
        rest == Without(k)
        n == Surplus(rest)
        stale == inflight[k] # Nobody /\ ~SameLoop(w, inflight[k])
    IN
    /\ pc[w] = "idle"
    /\ \A o \in Call : Entry(k) = <<o>> => ~SameLoop(w, o)
    /\ entries' = SubSeq(rest, n + 1, Len(rest))
    /\ evicted' = [evicted EXCEPT ![w] =
                     Evictions(Entry(k))
                     \o (IF stale THEN <<StaleCreation(inflight[k])>> ELSE <<>>)
                     \o Evictions(SubSeq(rest, 1, n))]
    /\ Goto(w, IF evicted'[w] # <<>> THEN "evicting" ELSE IF Joinable(w) THEN "joining" ELSE "waiting")
    /\ \/ /\ Joinable(w)
          /\ join' = [join EXCEPT ![w] = inflight[k]]
          /\ UNCHANGED <<inflight, owner>>
       \/ /\ ~Joinable(w)
          /\ inflight' = [inflight EXCEPT ![k] = w]
          /\ owner' = [owner EXCEPT ![w] = "created"]
          /\ UNCHANGED join
    /\ UNCHANGED <<loop, key, remote, ready, closeEvt, cancelReq, posted, upsets>>

-----------------------------------------------------------------------------
(* close_scope, close_server, close_all: the entries and creations of the    *)
(* keys ks are shut down one after another, like the evicted ones.           *)

\* Mutation: a creation in flight is closed like an entry.
CancelNothing(o) == FALSE

\* What a creation needs, and an initialized session does not.
Cancelled(o) == o \in {inflight[k] : k \in Key}

Creations(ks) == {inflight[k] : k \in ks} \ {Nobody}

\* All owners of ks as a sequence, the entries first.
Registered(ks) ==
    LET creations == Creations(ks)
        order == CHOOSE f \in [1..Cardinality(creations) -> creations] :
                     \A o \in creations : \E i \in DOMAIN f : f[i] = o
    IN  EntriesOf(ks) \o order

PopAll(ks) ==
    /\ entries' = EntriesOf(Key \ ks)
    /\ inflight' = [k \in Key |-> IF k \in ks THEN Nobody ELSE inflight[k]]

Close(w, ks) ==
    /\ pc[w] = "idle" /\ w \notin OwnLoop /\ Registered(ks) # <<>>
    /\ PopAll(ks)
    /\ evicted' = [evicted EXCEPT ![w] =
                     [i \in DOMAIN Registered(ks) |->
                        LET o == Registered(ks)[i] IN [o |-> o, cancel |-> Cancelled(o), wait |-> TRUE]]]
    /\ Goto(w, "evicting")
    /\ UNCHANGED <<loop, key, join, remote, owners, posted, upsets>>

\* close_all_sync, on the gateway's loop or on a thread without a loop: its own
\* loop's owners are told at once, the others through their loop.  It waits for
\* those, but no longer than SESSION_CLOSE_TIMEOUT.
CloseAllSync(onGateway) ==
    LET all == {Registered(Key)[i] : i \in DOMAIN Registered(Key)}
        here == IF onGateway THEN all \ OwnLoop ELSE {}
    IN
    /\ all # {} /\ Upset
    /\ PopAll(Key)
    /\ closeEvt' = closeEvt \cup here
    /\ cancelReq' = cancelReq \cup {o \in here : Cancelled(o)}
    /\ posted' = posted \cup {[o |-> o, cancel |-> Cancelled(o), wait |-> FALSE] :
                                o \in {x \in all \ here : loop[x] # "closed"}}
    /\ UNCHANGED <<calls, owner, ready>>

-----------------------------------------------------------------------------
(* Phase 2 of get_session, and the loops of the close operations. *)

First(w) == Head(evicted[w])

\* The rest; after the last one a close returns, a joiner and a creator wait.
GoOn(w) ==
    /\ evicted' = [evicted EXCEPT ![w] = Tail(@)]
    /\ Goto(w, IF Len(evicted[w]) > 1 THEN "evicting"
               ELSE IF join[w] # Nobody THEN "joining"
               ELSE IF owner[w] # "none" THEN "waiting" ELSE "returned")

\* The owner is told by a task of its loop.
Tell(x) ==
    /\ closeEvt' = closeEvt \cup {x.o}
    /\ cancelReq' = IF x.cancel THEN cancelReq \cup {x.o} ELSE cancelReq

\* The next one: of a closed loop (nothing to do), of this loop (tell it and
\* await it), of another one (a signal, or a _shutdown over there).
ShutDownNext(w) ==
    /\ pc[w] = "evicting"
    /\ LET x == First(w) IN
       \/ loop[x.o] = "closed" /\ GoOn(w) /\ UNCHANGED <<remote, closeEvt, cancelReq, posted>>
       \/ /\ SameLoop(w, x.o) /\ loop[x.o] # "closed"
          /\ Tell(x) /\ Goto(w, "awaitOwner") /\ UNCHANGED <<evicted, remote, posted>>
       \/ /\ ~SameLoop(w, x.o) /\ loop[x.o] # "closed"
          /\ \/ ~x.wait /\ posted' = posted \cup {x} /\ GoOn(w) /\ UNCHANGED remote
             \/ /\ x.wait /\ remote' = [remote EXCEPT ![w] = "sent"]
                /\ Goto(w, "awaitRemote") /\ UNCHANGED <<evicted, posted>>
          /\ UNCHANGED <<closeEvt, cancelReq>>
    /\ UNCHANGED <<registry, loop, key, join, owner, ready, upsets>>

\* The owner has ended; how does not matter.
OwnerAwaited(w) ==
    /\ \/ pc[w] = "awaitOwner"
       \/ pc[w] = "awaitRemote" /\ remote[w] = "taken"
    /\ Ended(First(w).o)
    /\ GoOn(w)
    /\ remote' = [remote EXCEPT ![w] = "none"]
    /\ UNCHANGED <<registry, loop, key, join, owners, posted, upsets>>

\* A loop runs what was put on it, after the first step of the tasks it had;
\* what comes when it is being closed may never run, nor what its caller,
\* cancelled, took back.
Taken(x) == (Running(x.o) /\ owner[x.o] # "created") \/ loop[x.o] = "closing"
Dropped(x) == loop[x.o] \in {"closing", "closed"}

RemoteShutdown(w) ==
    /\ remote[w] = "sent"
    /\ \/ Taken(First(w)) /\ Tell(First(w)) /\ remote' = [remote EXCEPT ![w] = "taken"]
       \/ /\ Dropped(First(w)) \/ pc[w] = "raised"
          /\ remote' = [remote EXCEPT ![w] = "dropped"]
          /\ UNCHANGED <<closeEvt, cancelReq>>
    /\ UNCHANGED <<registry, loop, pc, key, evicted, join, owner, ready, posted, upsets>>

Posted(x) ==
    /\ x \in posted
    /\ \/ Taken(x) /\ Tell(x)
       \/ Dropped(x) /\ UNCHANGED <<closeEvt, cancelReq>>
    /\ posted' = posted \ {x}
    /\ UNCHANGED <<registry, calls, owner, ready, upsets>>

-----------------------------------------------------------------------------
(* Phases 2b, 3 and 4. *)

\* The creation that was joined succeeded or failed.
Joined(w) ==
    /\ pc[w] = "joining" /\ ready[join[w]] # "pending"
    /\ Goto(w, IF ready[join[w]] = "set" THEN "returned" ELSE "raised")
    /\ UNCHANGED <<registry, loop, key, evicted, join, remote, owners, posted, upsets>>

\* Mutation: the session is registered whatever became of the creation.
StillOursAlways(w) == TRUE

\* The in-flight record is still this call's.
StillOurs(w) == inflight[key[w]] = w

\* Phase 4: register the session, or tear it down if it was closed meanwhile.
Promote(w) ==
    /\ pc[w] = "waiting" /\ ready[w] = "set"
    /\ \/ /\ StillOurs(w)
          /\ inflight' = [inflight EXCEPT ![key[w]] = Nobody]
          /\ entries' = Append(entries, w)
          /\ Goto(w, "returned")
          /\ UNCHANGED closeEvt
       \/ ~StillOurs(w) /\ closeEvt' = closeEvt \cup {w} /\ Goto(w, "closing") /\ UNCHANGED registry
    /\ UNCHANGED <<loop, key, evicted, join, remote, owner, ready, cancelReq, posted, upsets>>

\* Forget the creation, if the record is still this call's, and raise.
GiveUp(w) ==
    /\ inflight' = IF inflight[key[w]] = w THEN [inflight EXCEPT ![key[w]] = Nobody] ELSE inflight
    /\ Goto(w, "raised")

\* The owner failed by itself, or was told.
Unwinding(w) == pc[w] = "unwinding" \/ (pc[w] = "waiting" /\ ready[w] = "failed")

\* It has ended.
Unwound(w) ==
    /\ pc[w] = "closing" \/ Unwinding(w)
    /\ Ended(w)
    /\ GiveUp(w)
    /\ UNCHANGED <<entries, loop, key, evicted, join, remote, owners, posted, upsets>>

\* A call of the gateway is cancelled.  A creator takes its owner along, and
\* no longer waits for one that is unwinding; who awaits an owner cancels that
\* one and goes on itself; a joiner leaves; and who awaits another loop raises
\* and leaves its list and its own creation behind.
Cancel(w) ==
    /\ w \notin OwnLoop
    /\ Upset
    /\ \/ /\ pc[w] = "waiting" /\ ready[w] # "failed" /\ owner[w] # "created"
          /\ closeEvt' = closeEvt \cup {w} /\ cancelReq' = cancelReq \cup {w}
          /\ Goto(w, "unwinding") /\ UNCHANGED inflight
       \/ Unwinding(w) /\ GiveUp(w) /\ UNCHANGED <<closeEvt, cancelReq>>
       \/ /\ pc[w] = "joining"
          /\ Goto(w, "raised") /\ UNCHANGED <<inflight, closeEvt, cancelReq>>
       \/ /\ pc[w] = "awaitRemote"
          /\ cancelReq' = IF remote[w] = "taken" THEN cancelReq \cup {First(w).o} ELSE cancelReq
          /\ Goto(w, "raised") /\ UNCHANGED <<inflight, closeEvt>>
       \/ /\ pc[w] \in {"awaitOwner", "closing"}
          /\ cancelReq' = cancelReq \cup {IF pc[w] = "closing" THEN w ELSE First(w).o}
          /\ UNCHANGED <<inflight, closeEvt, pc>>
    /\ UNCHANGED <<entries, loop, key, evicted, join, remote, owner, ready, posted>>

-----------------------------------------------------------------------------
(* The owner task. *)

\* Its first step; a task that is cancelled before it never runs.
Start(o) ==
    /\ owner[o] = "created"
    /\ owner' = [owner EXCEPT ![o] = IF o \in cancelReq THEN "neverRan" ELSE "starting"]
    /\ UNCHANGED <<registry, calls, ready, closeEvt, cancelReq, posted, upsets>>

\* initialize() answers.
Initialize(o) ==
    /\ owner[o] = "starting" /\ o \notin cancelReq
    /\ owner' = [owner EXCEPT ![o] = "open"]
    /\ ready' = [ready EXCEPT ![o] = "set"]
    /\ UNCHANGED <<registry, calls, closeEvt, cancelReq, posted, upsets>>

\* It cannot connect, or initialize() fails; then __aexit__ follows.
InitializeFails(o) ==
    /\ owner[o] = "starting" /\ o \notin cancelReq
    /\ owner' = [owner EXCEPT ![o] = "closing"]
    /\ ready' = [ready EXCEPT ![o] = "failed"]
    /\ UNCHANGED <<registry, calls, closeEvt, cancelReq, posted, upsets>>

\* Whoever waits for the creation is told that it failed.
FailIfPending(o) == ready' = [ready EXCEPT ![o] = IF @ = "pending" THEN "failed" ELSE @]

\* The close event, or the cancellation, reaches it.
ToldToClose(o) ==
    /\ \/ owner[o] = "open" /\ o \in closeEvt \cup cancelReq
       \/ owner[o] = "starting" /\ o \in cancelReq
    /\ owner' = [owner EXCEPT ![o] = "closing"]
    /\ FailIfPending(o)
    /\ UNCHANGED <<registry, calls, closeEvt, cancelReq, posted, upsets>>

\* __aexit__ returns.
Exit(o) ==
    /\ owner[o] = "closing"
    /\ owner' = [owner EXCEPT ![o] = "ended"]
    /\ UNCHANGED <<registry, calls, ready, closeEvt, cancelReq, posted, upsets>>

\* asyncio.run after the tool: every task of the loop is cancelled and waited for.
EndLoop(w) ==
    /\ loop[w] = "running" /\ Over(w)
    /\ loop' = [loop EXCEPT ![w] = "closing"]
    /\ cancelReq' = IF owner[w] \in Live THEN cancelReq \cup {w} ELSE cancelReq
    /\ UNCHANGED <<registry, pc, key, evicted, join, remote, owner, ready, closeEvt, posted, upsets>>

CloseLoop(w) ==
    /\ loop[w] = "closing" /\ owner[w] \notin Live
    /\ loop' = [loop EXCEPT ![w] = "closed"]
    /\ UNCHANGED <<registry, pc, key, evicted, join, remote, owners, posted, upsets>>

-----------------------------------------------------------------------------
Proceed(w) ==
    \/ ShutDownNext(w) \/ OwnerAwaited(w) \/ RemoteShutdown(w)
    \/ Joined(w) \/ Promote(w) \/ Unwound(w)
    \/ EndLoop(w) \/ CloseLoop(w)

Serve(o) == Start(o) \/ ToldToClose(o) \/ Exit(o)

Next ==
    \/ \E w \in Call : Reuse(w) \/ Enter(w) \/ Cancel(w) \/ Proceed(w)
    \/ \E w \in Call, ks \in SUBSET Key : Close(w, ks)
    \/ \E here \in BOOLEAN : CloseAllSync(here)
    \/ \E x \in posted : Posted(x)
    \/ \E o \in Call : Serve(o) \/ Initialize(o) \/ InitializeFails(o)

Spec == Init /\ [][Next]_vars

\* Loops run their tasks and __aexit__ returns; initialize() may never answer.
Fairness ==
    /\ \A w \in Call : WF_vars(Proceed(w)) /\ WF_vars(Serve(w))
    /\ WF_vars(\E x \in posted : Posted(x))

FairSpec == Spec /\ Fairness

-----------------------------------------------------------------------------
(* Properties. *)

TypeOK ==
    /\ entries \in Seq(Call)
    /\ inflight \in [Key -> Call \cup {Nobody}]
    /\ loop \in [Call -> {"gateway", "running", "closing", "closed"}]
    /\ pc \in [Call -> Pc]
    /\ key \in [Call -> Key]
    /\ evicted \in [Call -> Seq(Item)]
    /\ join \in [Call -> Call \cup {Nobody}]
    /\ remote \in [Call -> {"none", "sent", "taken", "dropped"}]
    /\ owner \in [Call -> {"none", "ended", "neverRan"} \cup Live]
    /\ ready \in [Call -> {"pending", "set", "failed"}]
    /\ closeEvt \subseteq Call /\ cancelReq \subseteq Call
    /\ posted \subseteq Item
    /\ upsets \in 0..MaxUpsets

IsEntry(o) == \E i \in DOMAIN entries : entries[i] = o
Told(o) == o \in closeEvt \cup cancelReq

\* A session a call may be handed from the registry is open and nobody told it
\* to close: what is closed leaves the registry first, and a creation that was
\* closed meanwhile never enters it.
RegisteredIsLive == \A o \in Call : IsEntry(o) /\ Running(o) => owner[o] = "open" /\ ~Told(o)

\* Concurrent calls share a creation: a key has an entry or a creation in
\* flight, never two of them.
OnePerKey ==
    \A k \in Key : Cardinality({o \in Call : IsEntry(o) /\ key[o] = k} \cup ({inflight[k]} \ {Nobody})) <= 1

\* The registry hands out open sessions, one per key.
RegistryOK == TypeOK /\ RegisteredIsLive /\ OnePerKey

\* What call w has yet to shut down.
Lists(w) == {evicted[w][i].o : i \in DOMAIN evicted[w]}

\* Somebody knows o, or it was told to close.
Known(o) == IsEntry(o) \/ inflight[key[o]] = o \/ Told(o) \/ \E x \in posted : x.o = o

\* No session is leaked: an owner that does not end by itself, on a loop that
\* runs, is in the registry, was told to close or will be by its loop - or it
\* is on the list of a call that has not returned.  (A call that raises with a
\* list was cancelled while it waited for another loop.)
NoOrphanSession ==
    \A o \in Call : owner[o] \in Live \ {"closing"} /\ Running(o) =>
        Known(o) \/ \E w \in Call : pc[w] # "returned" /\ o \in Lists(w)

\* "Close every managed session": a session that was handed out and taken out of
\* the registry is shut down by the call that took it.
NothingLeftBehind ==
    \A o \in Call : owner[o] = "open" /\ pc[o] = "returned" /\ Running(o) =>
        Known(o) \/ \E w \in Call : (~Over(w) \/ remote[w] = "sent") /\ o \in Lists(w)

\* Whoever is told to close ends, also if its initialize() never answers.
ClosedSessionsEnd == \A o \in Call : Told(o) ~> owner[o] \notin Live

\* The initialize() a call waits for may never answer; an owner that was
\* cancelled before its first step never will.
Unanswered(w) ==
    \E o \in {w, join[w]} \cap Call : ready[o] = "pending" /\ owner[o] \in {"starting", "neverRan"}

\* A call waits for ever only for an initialize() that never answers - or for
\* an owner that was cancelled before it ran, or a loop that was closed before
\* it ran the _shutdown it was given.
CallsEnd ==
    \A w \in Call : []<>(Over(w) \/ pc[w] = "idle" \/ Unanswered(w) \/ remote[w] = "dropped")

\* Sessions that are closed, and calls, come to an end.
SessionsAndCallsEnd == ClosedSessionsEnd /\ CallsEnd

\* A creation that is closed ends its call: "A concurrent close_* / close_all may
\* have removed it while we were initializing; in that case [...] surface the
\* cancellation."
ClosingEndsCreation == \A w \in Call : pc[w] = "waiting" /\ Told(w) ~> Over(w)
=============================================================================
