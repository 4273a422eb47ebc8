-------------------------- MODULE MCChannelManager --------------------------
(* Small instances of ChannelManager: one conversation. *)
EXTENDS ChannelManager

CONSTANTS m1, m2

Messages == {m1, m2}
OneConversation == [m \in Messages |-> CHOOSE c \in Conversation : TRUE]

\* m1 is a chat, m2 is anything; commands come from a chat whose replies are
\* waited for.
OneCommandInit ==
    /\ Init
    /\ kind[m1] = "chat"
    /\ \A c \in Conversation : kind[m2] = "chat" \/ mode[c] = "wait"
OneCommandSpec == OneCommandInit /\ [][Next]_vars /\ Fairness

\* The names of two chats mean nothing.
InOrder == kind[m2] = "chat" /\ inbound = <<>> => inbound' \in {<<>>, <<m1>>}

\* A second failure is one that ends its handler.
SecondFailureEnds == faults = 1 /\ faults' = 2 => answer' # answer
=============================================================================
