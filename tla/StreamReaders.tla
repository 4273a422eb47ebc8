---------------------------- MODULE StreamReaders ----------------------------
(***************************************************************************)
(* What the models of the two stream bridges have in common: the events of *)
(* one run, the SSE responses that read them, and the clients, which       *)
(* reconnect with the id of the last event they received, or without one.  *)
(***************************************************************************)
EXTENDS Integers, Sequences, Functions

CONSTANTS
    Client,
    MaxSize,      \* queue_maxsize
    MaxEvents,    \* bound: events the run publishes
    MaxConnects   \* bound: connections of one client

VARIABLES
    published,  \* the data events published: 0 .. published-1
    pc,         \* per client, where its response is
    next,       \* per client, the next event of its subscription
    last,       \* per client, the id of the last event it received, or -1
    got,        \* per client, the events received since it connected without an id
    done,       \* per client, it was told the end
    connects    \* per client, how often it connected

client == <<last, got, done, connects>>

Event == 0 .. MaxEvents - 1
=============================================================================
