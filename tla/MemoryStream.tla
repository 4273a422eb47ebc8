---------------------------- MODULE MemoryStream ----------------------------
(***************************************************************************)
(* The in-process stream bridge for one run (stream_bridge/memory.py), the *)
(* run as its only producer, and its readers: the SSE responses of         *)
(* services.py and the clients that resume with Last-Event-ID.             *)
(*                                                                         *)
(* A section under the stream's condition never suspends while it holds    *)
(* the lock except in wait(), so each of them is one step.  The event with *)
(* sequence number e is the number e; the buffer holds start .. published-1.*)
(* After the delayed cleanup a subscription finds no entry and creates a   *)
(* second _RunStream, which nobody publishes to or ends: "fresh".          *)
(***************************************************************************)
EXTENDS StreamReaders

CONSTANT END   \* END_SENTINEL

ASSUME MemoryStreamAssumption ==
    /\ MaxSize \in Nat \ {0}
    /\ MaxEvents \in Nat
    /\ MaxConnects \in Nat
    /\ END \notin Int

VARIABLES
    start,   \* start_offset of the run's stream
    ended,   \* ended of the run's stream
    entry,   \* what _streams holds for the run
    stream,  \* per client, the _RunStream its subscription reads
    wire     \* per client, the frames sent and not yet received

producer == <<published, start, ended, entry>>
vars == <<published, start, ended, entry, pc, stream, next, wire,
          last, got, done, connects>>

Entry == {"absent", "first", "fresh"}
\* "closing": the generator returned after END, which is still on the wire.
ResponsePc == {"idle", "reading", "waiting", "closing"}

\* The retained events of the stream c reads are Bottom(c) .. Top(c)-1.
Bottom(c) == IF stream[c] = "first" THEN start ELSE 0
Top(c) == IF stream[c] = "first" THEN published ELSE 0

\* Where a subscription that fell behind the buffer resumes.
Cursor(c) == IF next[c] < Bottom(c) THEN Bottom(c) ELSE next[c]

Drained(c) == Cursor(c) >= Top(c)

\* start_offset once one more event was appended and the overflow deleted.
Trimmed == IF published + 1 - start > MaxSize THEN published + 1 - MaxSize ELSE start

\* Mutation: resume at the event the client has already received.
ResumeAtLast(b, t, id) == IF id >= b /\ id < t THEN id ELSE b

\* Mutation: an id that is not retained resumes with the live events.
ResumeLive(b, t, id) == IF id >= b /\ id < t THEN id + 1 ELSE t

\* _resolve_start_offset in a buffer b .. t-1: past the event named by
\* Last-Event-ID when that is retained, else the earliest retained event.
ResolveStart(b, t, id) == IF id >= b /\ id < t THEN id + 1 ELSE b

\* Mutation: nobody is woken.
NotifyNobody == pc

\* notify_all on the condition of the run's stream.
NotifyAll ==
    [c \in Client |-> IF pc[c] = "waiting" /\ stream[c] = "first" THEN "reading" ELSE pc[c]]

\* _get_or_create_stream: the entry found or created before and after cleanup.
Created == IF entry # "absent" THEN entry ELSE IF ended THEN "fresh" ELSE "first"

Init ==
    /\ published = 0
    /\ start = 0
    /\ ended = FALSE
    /\ entry = "absent"
    /\ pc = [c \in Client |-> "idle"]
    /\ stream = [c \in Client |-> "absent"]
    /\ next = [c \in Client |-> 0]
    /\ wire = [c \in Client |-> <<>>]
    /\ last = [c \in Client |-> -1]
    /\ got = [c \in Client |-> <<>>]
    /\ done = [c \in Client |-> FALSE]
    /\ connects = [c \in Client |-> 0]

-----------------------------------------------------------------------------
(* The producer: the run's worker. *)

Publish ==
    /\ ~ended
    /\ published < MaxEvents
    /\ entry' = Created
    /\ published' = published + 1
    /\ start' = Trimmed
    /\ pc' = NotifyAll
    /\ UNCHANGED <<ended, stream, next, wire, client>>

\* Mutation: the end is recorded and the subscribers sleep on.
PublishEndSilent ==
    /\ ~ended
    /\ entry' = Created
    /\ ended' = TRUE
    /\ pc' = NotifyNobody
    /\ UNCHANGED <<published, start, stream, next, wire, client>>

PublishEnd ==
    /\ ~ended
    /\ entry' = Created
    /\ ended' = TRUE
    /\ pc' = NotifyAll
    /\ UNCHANGED <<published, start, stream, next, wire, client>>

\* Mutation: subscriptions look the entry up again and find a new stream.
CleanupUnderReaders ==
    /\ ended
    /\ entry = "first"
    /\ entry' = "fresh"
    /\ stream' = [c \in Client |-> IF stream[c] = "first" THEN "fresh" ELSE stream[c]]
    /\ UNCHANGED <<published, start, ended, pc, next, wire, client>>

\* The task the worker leaves behind, 60 seconds after publish_end.  It pops
\* the dictionary's entry; a subscription keeps the object it reads.
Cleanup ==
    /\ ended
    /\ entry = "first"
    /\ entry' = "absent"
    /\ UNCHANGED <<published, start, ended, pc, stream, next, wire, client>>

-----------------------------------------------------------------------------
(* The readers. *)

\* A response starts and its subscription resolves where to read, in the
\* session of the id the client resumes with or in a new one (id = -1, what
\* a malformed id amounts to as well).
Connect(c, id) ==
    /\ pc[c] = "idle"
    /\ connects[c] < MaxConnects
    /\ id = -1 \/ (id = last[c] /\ ~done[c])
    /\ entry' = Created
    /\ stream' = [stream EXCEPT ![c] = Created]
    /\ next' = [next EXCEPT ![c] =
                  IF Created = "first" THEN ResolveStart(start, published, id) ELSE 0]
    /\ pc' = [pc EXCEPT ![c] = "reading"]
    /\ last' = [last EXCEPT ![c] = id]
    /\ got' = [got EXCEPT ![c] = IF id = -1 THEN <<>> ELSE @]
    /\ done' = [done EXCEPT ![c] = FALSE]
    /\ connects' = [connects EXCEPT ![c] = @ + 1]
    /\ UNCHANGED <<published, start, ended, wire>>

SendEvent(c) ==
    /\ pc[c] = "reading"
    /\ ~Drained(c)
    /\ wire' = [wire EXCEPT ![c] = Append(@, Cursor(c))]
    /\ next' = [next EXCEPT ![c] = Cursor(c) + 1]
    /\ UNCHANGED <<producer, pc, stream, client>>

SendEnd(c) ==
    /\ pc[c] = "reading"
    /\ Drained(c)
    /\ stream[c] = "first" /\ ended
    /\ wire' = [wire EXCEPT ![c] = Append(@, END)]
    /\ pc' = [pc EXCEPT ![c] = "closing"]
    /\ UNCHANGED <<producer, stream, next, client>>

Wait(c) ==
    /\ pc[c] = "reading"
    /\ Drained(c)
    /\ ~(stream[c] = "first" /\ ended)
    /\ next' = [next EXCEPT ![c] = Cursor(c)]
    /\ pc' = [pc EXCEPT ![c] = "waiting"]
    /\ UNCHANGED <<producer, stream, wire, client>>

\* wait_for times out.  The record's stream cannot be probed on this bridge
\* (_terminal_record_stream_missing is FALSE), so the loop goes on.
Heartbeat(c) ==
    /\ pc[c] = "waiting"
    /\ pc' = [pc EXCEPT ![c] = "reading"]
    /\ UNCHANGED <<producer, stream, next, wire, client>>

\* The client reads a frame.  END carries no id, and the client leaves.
ReceiveEvent(c) ==
    /\ wire[c] # <<>> /\ Head(wire[c]) # END
    /\ wire' = [wire EXCEPT ![c] = Tail(@)]
    /\ last' = [last EXCEPT ![c] = Head(wire[c])]
    /\ got' = [got EXCEPT ![c] = Append(@, Head(wire[c]))]
    /\ UNCHANGED <<producer, pc, stream, next, done, connects>>

ReceiveEnd(c) ==
    /\ wire[c] # <<>> /\ Head(wire[c]) = END
    /\ wire' = [wire EXCEPT ![c] = <<>>]
    /\ pc' = [pc EXCEPT ![c] = "idle"]
    /\ stream' = [stream EXCEPT ![c] = "absent"]
    /\ done' = [done EXCEPT ![c] = TRUE]
    /\ UNCHANGED <<producer, next, last, got, connects>>

\* The connection breaks and what was on the wire is lost.
Disconnect(c) ==
    /\ pc[c] # "idle"
    /\ pc' = [pc EXCEPT ![c] = "idle"]
    /\ stream' = [stream EXCEPT ![c] = "absent"]
    /\ wire' = [wire EXCEPT ![c] = <<>>]
    /\ UNCHANGED <<producer, next, client>>

Serve(c) == SendEvent(c) \/ SendEnd(c) \/ Wait(c)
Receive(c) == ReceiveEvent(c) \/ ReceiveEnd(c)

Next ==
    \/ Publish \/ PublishEnd \/ Cleanup
    \/ \E c \in Client :
        \/ \E id \in Event \cup {-1} : Connect(c, id)
        \/ Serve(c) \/ Heartbeat(c) \/ Receive(c) \/ Disconnect(c)

Spec == Init /\ [][Next]_vars

\* The worker reaches publish_end (RunLifecycle, StartedRunEndsStream), a
\* response whose task is ready runs, wait_for times out, and an open
\* connection delivers.
FairSpec ==
    /\ Spec
    /\ WF_vars(PublishEnd)
    /\ \A c \in Client : WF_vars(Serve(c)) /\ WF_vars(Heartbeat(c)) /\ WF_vars(Receive(c))

-----------------------------------------------------------------------------
\* The types, and the buffer never holds more than queue_maxsize events.
TypeOK ==
    /\ published \in 0 .. MaxEvents
    /\ start \in 0 .. published /\ published - start <= MaxSize
    /\ ended \in BOOLEAN
    /\ entry \in Entry
    /\ pc \in [Client -> ResponsePc]
    /\ stream \in [Client -> Entry]
    /\ next \in [Client -> 0 .. MaxEvents]
    /\ wire \in [Client -> Seq(Event \cup {END})]
    /\ last \in [Client -> Event \cup {-1}]
    /\ got \in [Client -> Seq(Event)]
    /\ done \in [Client -> BOOLEAN]
    /\ connects \in [Client -> 0 .. MaxConnects]

\* A subscription sleeps only while its stream has nothing to read: publish
\* and publish_end wake it (notify_all), so no event waits for a heartbeat.
NoLostWakeup ==
    \A c \in Client : pc[c] = "waiting" /\ stream[c] = "first" => next[c] = published /\ ~ended

\* Across reconnects, a client has received every event up to its last one,
\* except some that had already left the newest queue_maxsize.
OnlyOldEventsMissed ==
    \A c \in Client : \A e \in 0 .. last[c] : e \notin Range(got[c]) => e < published - MaxSize

\* The bounded buffer costs the readers old events only.
RetentionOK == TypeOK /\ OnlyOldEventsMissed

\* The promise of the bridge, seen by the clients.
Promise == INSTANCE EventStream
    WITH LateEvents <- FALSE, floor <- start, position <- [c \in Client |-> last[c] + 1]

\* Order, no duplicates, no gap but by eviction, and END after everything:
\* subscribe with its Last-Event-ID resolution implements EventStream.
ImplementsEventStream == Promise!Spec

\* A client connected before the cleanup is told the end, unless its
\* connection breaks: the delayed cleanup takes nothing from it.
AttachedClientFinishes ==
    \A c \in Client : (stream[c] = "first") ~> (pc[c] = "idle")

-----------------------------------------------------------------------------
\* base.py: "Yields END_SENTINEL once the producer calls publish_end".
EndReachesEveryClient ==
    \A c \in Client : (ended /\ pc[c] # "idle") ~> (pc[c] = "idle")
=============================================================================
