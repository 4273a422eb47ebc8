---------------------------- MODULE EventStream ----------------------------
(***************************************************************************)
(* What a stream bridge promises to the readers of one run, whichever      *)
(* bridge is configured: the events of the run in the order they were      *)
(* published, none of them twice, none skipped unless the bridge no longer *)
(* retained it, and the end of the run after all of them.                  *)
(*                                                                         *)
(* A bridge may tell the end as soon as the run has settled.  Whether a    *)
(* settled run still has something to publish is LateEvents: a client that *)
(* was told the end has then missed what came later.                       *)
(***************************************************************************)
EXTENDS Naturals, Sequences

CONSTANTS
    Client,
    LateEvents  \* a run that announced its end may still publish

VARIABLES
    published,  \* how many events the run has published; they are 0 .. published-1
    floor,      \* the oldest event still retained
    ended,      \* the producer announced the end
    got,        \* per client, the events received since it asked for the whole stream
    position,   \* per client, the next event it has not received or missed
    done        \* per client, it was told the end

vars == <<published, floor, ended, got, position, done>>

Init ==
    /\ published = 0
    /\ floor = 0
    /\ ended = FALSE
    /\ got = [c \in Client |-> <<>>]
    /\ position = [c \in Client |-> 0]
    /\ done = [c \in Client |-> FALSE]

\* The newest event is always retained.
Publish ==
    /\ ~ended \/ LateEvents
    /\ published' = published + 1
    /\ floor' \in floor .. published
    /\ UNCHANGED <<ended, got, position, done>>

\* What is retained may be dropped at any time.
Expire ==
    /\ floor' \in floor .. published
    /\ UNCHANGED <<published, ended, got, position, done>>

Close ==
    /\ ~ended
    /\ ended' = TRUE
    /\ UNCHANGED <<published, floor, got, position, done>>

\* Everything between the client's position and e was evicted.
Evicted(c, e) == \A k \in position[c] .. e - 1 : k < floor

Receive(c) ==
    /\ ~done[c]
    /\ \E e \in position[c] .. published - 1 :
        /\ Evicted(c, e)
        /\ got' = [got EXCEPT ![c] = Append(@, e)]
        /\ position' = [position EXCEPT ![c] = e + 1]
    /\ UNCHANGED <<published, floor, ended, done>>

Finish(c) ==
    /\ ended
    /\ ~done[c]
    /\ Evicted(c, published)
    /\ done' = [done EXCEPT ![c] = TRUE]
    /\ UNCHANGED <<published, floor, ended, got, position>>

\* The client asks for the whole stream again.
Restart(c) ==
    /\ got' = [got EXCEPT ![c] = <<>>]
    /\ position' = [position EXCEPT ![c] = 0]
    /\ done' = [done EXCEPT ![c] = FALSE]
    /\ UNCHANGED <<published, floor, ended>>

Next ==
    \/ Publish
    \/ Expire
    \/ Close
    \/ \E c \in Client : Receive(c) \/ Finish(c) \/ Restart(c)

Spec == Init /\ [][Next]_vars
=============================================================================
