---------------------------- MODULE MCSessionPool ----------------------------
(* Small instances of SessionPool. *)
EXTENDS SessionPool, TLC

CONSTANTS c1, c2, c3, k1, k2

Calls == {c1, c2, c3}
OwnLoops == {c3}
Keys == {k1, k2}

\* The keys are alike, and so are the calls of the gateway: the call on a loop
\* of its own settles what the keys are called, and c1 is the first of the others.
InOrder == pc'[c1] = "idle" => pc'[c2] = "idle"
OneNamingInit == Init /\ key[c3] = k1
OneNamingSpec == OneNamingInit /\ [][Next]_vars /\ Fairness
=============================================================================
