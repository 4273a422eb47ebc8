---------------------------- MODULE RedisStream ----------------------------
(***************************************************************************)
(* The Redis stream bridge for one run (stream_bridge/redis.py), the       *)
(* worker that publishes the run, the gateway that dies under it and the   *)
(* restart that recovers it (deps.py), and the readers: sse_consumer with  *)
(* its terminal-record probe, in the gateway of the run or in another one. *)
(*                                                                         *)
(* Redis entries are numbered in the order of their XADDs: the data events *)
(* 0 .. published-1 and, after them, the end markers.  The run's key holds *)
(* the entries floor .. Total-1 and exists while that is not empty.  An    *)
(* XADD is atomic on the server; what the caller sees of it may be an      *)
(* error, whether or not it was applied.                                   *)
(***************************************************************************)
EXTENDS StreamReaders

CONSTANTS
    Count,        \* _XREAD_COUNT
    MaxRetries,   \* _MAX_SUBSCRIBE_RETRIES
    HasTTL        \* stream_ttl_seconds is set

ASSUME RedisStreamAssumption ==
    /\ MaxSize \in Nat \ {0}
    /\ Count \in Nat \ {0}
    /\ MaxRetries \in Nat
    /\ HasTTL \in BOOLEAN
    /\ MaxEvents \in Nat
    /\ MaxConnects \in Nat

VARIABLES
    ends,       \* end markers added
    floor,      \* the oldest entry the key holds
    born,       \* the entry that created the key the last time
    status,     \* the run's status in the memory of its gateway
    row,        \* the run's status in the store
    worker,     \* where the run's worker is
    record,     \* per client, the record its response watches
    upto,       \* per client, the end of the batch its last XREAD returned
    errors      \* per client, consecutive_errors

server == <<published, ends, floor, born>>
run == <<status, row, worker>>
response == <<pc, record, next, upto, errors>>
redisVars == <<published, ends, floor, born, status, row, worker, pc, record, next,
               upto, errors, last, got, done, connects>>

Status == {"active", "terminal"}

\* "settling": a last event may follow the terminal status.  "ended": the
\* cleanup is scheduled.  "over": nothing will touch the key but its TTL.
WorkerPc == {"publishing", "settling", "ending", "ended", "over", "dead"}

\* "live" is the in-memory record; another gateway, or a restarted one,
\* answers with a store_only copy of the row as it was.
Record == {"none", "live"} \cup Status

\* "probing": before the subscription and after each heartbeat.
\* "failing": the retries are used up and the response is breaking off.
RedisPc == {"idle", "probing", "reading", "failing"}

Total == published + ends
StreamExists == floor < Total

\* Mutation: the stream is cut one entry short.
KeyTrimmedShort(n) == IF Total + 2 - floor > n THEN Total + 2 - n ELSE floor

\* The stream's floor after one more XADD with MAXLEN n, approximate=False.
KeyTrimmed(n) == IF Total + 1 - floor > n THEN Total + 1 - n ELSE floor

\* _xadd_retained; with an absent key it creates one.
XAdd(n) ==
    /\ floor' = KeyTrimmed(n)
    /\ born' = IF StreamExists THEN born ELSE Total

\* Mutation: a missing stream is enough for the probe.
SeesTerminalAnyway(c) == pc[c] # "idle"

\* The probe reads the record it was given, and a store_only one never changes.
SeesTerminal(c) == IF record[c] = "live" THEN status = "terminal" ELSE record[c] = "terminal"

RedisInit ==
    /\ published = 0 /\ ends = 0 /\ floor = 0 /\ born = 0
    /\ status = "active" /\ row = "active" /\ worker = "publishing"
    /\ pc = [c \in Client |-> "idle"]
    /\ record = [c \in Client |-> "none"]
    /\ next = [c \in Client |-> 0]
    /\ upto = [c \in Client |-> 0]
    /\ errors = [c \in Client |-> 0]
    /\ last = [c \in Client |-> -1]
    /\ got = [c \in Client |-> <<>>]
    /\ done = [c \in Client |-> FALSE]
    /\ connects = [c \in Client |-> 0]

-----------------------------------------------------------------------------
(* The producing gateway. *)

AddEvent ==
    /\ published < MaxEvents
    /\ XAdd(MaxSize)
    /\ published' = published + 1
    /\ UNCHANGED ends

RedisPublish ==
    /\ worker = "publishing"
    /\ AddEvent
    /\ UNCHANGED <<run, response, client>>

\* The run reaches a terminal status, and the store learns it or not.  A
\* cancellation sets the status under a publish already under way, and a
\* failure is followed by the "error" event: one more event may come.  A run
\* cancelled before its first step leaves no worker behind.
Settle ==
    /\ worker = "publishing"
    /\ status' = "terminal"
    /\ row' \in {row, "terminal"}
    /\ \/ worker' \in {"settling", "ending"}
       \/ Total = 0 /\ worker' = "over"
    /\ UNCHANGED <<server, response, client>>

\* The last event, whose XADD may also fail.
PublishLast ==
    /\ worker = "settling"
    /\ AddEvent \/ UNCHANGED server
    /\ worker' = "ending"
    /\ UNCHANGED <<status, row, response, client>>

\* publish_end, by the worker or by the recovery.  When it raises nobody
\* schedules the cleanup; the marker may be there nevertheless.
RedisPublishEnd ==
    /\ worker = "ending"
    /\ \/ /\ ends' = ends + 1
          /\ XAdd(MaxSize + 1)
          /\ worker' \in {"ended", "over"}
          /\ UNCHANGED published
       \/ /\ worker' = "over"
          /\ UNCHANGED server
    /\ UNCHANGED <<status, row, response, client>>

\* The delayed DELETE, which may fail.
RedisCleanup ==
    /\ worker = "ended"
    /\ floor' \in {floor, Total}
    /\ worker' = "over"
    /\ UNCHANGED <<published, ends, born, status, row, response, client>>

\* stream_ttl_seconds after the last XADD.
Expire ==
    /\ HasTTL /\ StreamExists
    /\ floor' = Total
    /\ UNCHANGED <<published, ends, born, run, response, client>>

\* The gateway dies with the responses it serves; its status is never read again.
Crash ==
    /\ worker # "dead"
    /\ worker' = "dead"
    /\ pc' = [c \in Client |-> IF record[c] = "live" THEN "idle" ELSE pc[c]]
    /\ record' = [c \in Client |-> IF record[c] = "live" THEN "none" ELSE record[c]]
    /\ UNCHANGED <<server, status, row, next, upto, errors, client>>

\* The restart: an active row is orphaned, and _publish_recovered_run_stream_end
\* ends its stream unless a probe, which may fail, says that there is none.
Recover ==
    /\ worker = "dead"
    /\ row = "active"
    /\ row' = "terminal"
    /\ worker' \in IF StreamExists THEN {"ending"} ELSE {"ending", "over"}
    /\ UNCHANGED <<server, status, response, client>>

-----------------------------------------------------------------------------
(* The readers. *)

\* A response starts, in the session of the id the client resumes with or in
\* a new one.  A malformed id replays the whole stream: id = -1 as well.
RedisConnect(c, id, rec) ==
    /\ pc[c] = "idle" /\ connects[c] < MaxConnects
    /\ id = -1 \/ (id = last[c] /\ ~done[c])
    /\ rec = row \/ (rec = "live" /\ worker # "dead")
    /\ pc' = [pc EXCEPT ![c] = "probing"]
    /\ record' = [record EXCEPT ![c] = rec]
    /\ next' = [next EXCEPT ![c] = id + 1]
    /\ upto' = [upto EXCEPT ![c] = id + 1]
    /\ errors' = [errors EXCEPT ![c] = 0]
    /\ last' = [last EXCEPT ![c] = id]
    /\ got' = [got EXCEPT ![c] = IF id = -1 THEN <<>> ELSE @]
    /\ done' = [done EXCEPT ![c] = FALSE]
    /\ connects' = [connects EXCEPT ![c] = @ + 1]
    /\ UNCHANGED <<server, run>>

Leave(c) ==
    /\ pc' = [pc EXCEPT ![c] = "idle"]
    /\ record' = [record EXCEPT ![c] = "none"]

\* Mutation: the gateway trusts its own worker to end the stream.
ProbeEndsStored(c) ==
    /\ pc[c] = "probing" /\ record[c] # "live"
    /\ SeesTerminal(c) /\ ~StreamExists
    /\ Leave(c)
    /\ done' = [done EXCEPT ![c] = TRUE]
    /\ UNCHANGED <<server, run, next, upto, errors, last, got, connects>>

\* The end without an end marker: the run is over and its stream is gone.
ProbeEnds(c) ==
    /\ pc[c] = "probing"
    /\ SeesTerminal(c) /\ ~StreamExists
    /\ Leave(c)
    /\ done' = [done EXCEPT ![c] = TRUE]
    /\ UNCHANGED <<server, run, next, upto, errors, last, got, connects>>

\* The run goes on, its stream is there, or EXISTS failed.
ProbePasses(c) ==
    /\ pc[c] = "probing"
    /\ pc' = [pc EXCEPT ![c] = "reading"]
    /\ UNCHANGED <<server, run, record, next, upto, errors, client>>

BatchDone(c) == next[c] = upto[c]

\* XREAD returns up to Count entries after the last one; what was trimmed is
\* skipped.  Without entries it blocks until the heartbeat.
XRead(c) ==
    LET first == IF next[c] < floor THEN floor ELSE next[c] IN
    /\ pc[c] = "reading" /\ BatchDone(c)
    /\ errors' = [errors EXCEPT ![c] = 0]
    /\ \/ /\ first < Total
          /\ next' = [next EXCEPT ![c] = first]
          /\ upto' = [upto EXCEPT ![c] = IF first + Count < Total THEN first + Count ELSE Total]
          /\ UNCHANGED pc
       \/ /\ first >= Total
          /\ pc' = [pc EXCEPT ![c] = "probing"]
          /\ UNCHANGED <<next, upto>>
    /\ UNCHANGED <<server, run, record, client>>

\* A transient RedisError is retried after a backoff, up to MaxRetries in a row.
XReadFails(c) ==
    /\ pc[c] = "reading" /\ BatchDone(c)
    /\ IF errors[c] < MaxRetries
       THEN /\ errors' = [errors EXCEPT ![c] = @ + 1]
            /\ UNCHANGED pc
       ELSE /\ pc' = [pc EXCEPT ![c] = "failing"]
            /\ UNCHANGED errors
    /\ UNCHANGED <<server, run, record, next, upto, client>>

\* The next entry of the batch reaches the client: a data event ...
DeliverEvent(c) ==
    /\ pc[c] = "reading" /\ ~BatchDone(c) /\ next[c] < published
    /\ next' = [next EXCEPT ![c] = @ + 1]
    /\ last' = [last EXCEPT ![c] = next[c]]
    /\ got' = [got EXCEPT ![c] = Append(@, next[c])]
    /\ UNCHANGED <<server, run, pc, record, upto, errors, done, connects>>

\* ... or the end marker, which carries no id.
DeliverEnd(c) ==
    /\ pc[c] = "reading" /\ ~BatchDone(c) /\ next[c] >= published
    /\ Leave(c)
    /\ done' = [done EXCEPT ![c] = TRUE]
    /\ UNCHANGED <<server, run, next, upto, errors, last, got, connects>>

\* The connection is gone, with whatever part of the batch was on it.
RedisDisconnect(c) ==
    /\ pc[c] # "idle"
    /\ Leave(c)
    /\ UNCHANGED <<server, run, next, upto, errors, client>>

RedisServe(c) ==
    \/ ProbeEnds(c)
    \/ ProbePasses(c)
    \/ XRead(c) \/ DeliverEvent(c) \/ DeliverEnd(c)

RedisNext ==
    \/ RedisPublish \/ Settle \/ PublishLast \/ RedisPublishEnd \/ RedisCleanup
    \/ Expire \/ Crash \/ Recover
    \/ \E c \in Client :
        \/ \E id \in Event \cup {-1}, rec \in Record : RedisConnect(c, id, rec)
        \/ RedisServe(c) \/ XReadFails(c) \/ RedisDisconnect(c)

RedisSpec == RedisInit /\ [][RedisNext]_redisVars

\* A response whose task is ready runs, a broken one is closed, and a key that
\* nobody extends expires.  XREAD and EXISTS do not fail for ever: of the
\* probes that could see the stream missing, one does.
RedisFairSpec ==
    /\ RedisSpec
    /\ WF_redisVars(Expire)
    /\ \A c \in Client : 
        /\ WF_redisVars(RedisServe(c)) /\ SF_redisVars(ProbeEnds(c))
        /\ WF_redisVars(pc[c] = "failing" /\ RedisDisconnect(c))

-----------------------------------------------------------------------------
\* The types; the key holds at most queue_maxsize events and one end marker
\* more, and a batch lies within what was added.
RedisTypeOK ==
    /\ published \in 0 .. MaxEvents /\ ends \in 0 .. 2
    /\ floor \in 0 .. Total /\ Total - floor <= MaxSize + 1
    /\ born \in 0 .. Total
    /\ status \in Status /\ row \in Status /\ worker \in WorkerPc
    /\ pc \in [Client -> RedisPc]
    /\ record \in [Client -> Record]
    /\ next \in [Client -> 0 .. Total] /\ upto \in [Client -> 0 .. Total]
    /\ \A c \in Client : next[c] <= upto[c]
    /\ errors \in [Client -> 0 .. MaxRetries]
    /\ last \in [Client -> Event \cup {-1}]
    /\ got \in [Client -> Seq(Event)]
    /\ done \in [Client -> BOOLEAN]
    /\ connects \in [Client -> 0 .. MaxConnects]

\* A client that received a later event missed one only because it had left
\* the newest queue_maxsize, or because the whole key had gone before the
\* entry it now starts with.  A second end marker, which a recovery adds when
\* the store missed the terminal status, costs one event.
OnlyOldEntriesMissed ==
    \A c \in Client : \A e \in 0 .. last[c] :
        e \notin Range(got[c]) => e < born \/ e < Total - MaxSize - (IF ends > 0 THEN 1 ELSE 0)

\* The bounded key costs the readers old events only.
RedisRetentionOK == RedisTypeOK /\ OnlyOldEntriesMissed

\* The promise of the bridge, seen by the clients: whoever settled the run,
\* the owner's record or the recovered row, announced its end.
RedisPromise == INSTANCE EventStream
    WITH LateEvents <- TRUE,
         ended <- status = "terminal" \/ row = "terminal",
         floor <- IF floor < published THEN floor ELSE published,
         position <- [c \in Client |-> last[c] + 1]

\* Order, no duplicates, no gap but by eviction or expiry, across reconnects,
\* gateways, failed reads and recoveries; and the end, from a marker or from
\* the probe, only once the run has settled and everything was delivered.
RedisImplementsEventStream == RedisPromise!Spec

\* A response whose record says that the run is over ends: with the marker,
\* or, when a crash or a failed publish_end left none, once the key expired.
SettledRunReleasesReaders ==
    \A c \in Client : (pc[c] # "idle" /\ SeesTerminal(c)) ~> (pc[c] = "idle")

-----------------------------------------------------------------------------
\* base.py: "Yields END_SENTINEL once the producer calls publish_end".
EndReachesEveryReader ==
    \A c \in Client : (ends > 0 /\ pc[c] # "idle") ~> (pc[c] = "idle")
=============================================================================
