---------------------------- MODULE MCClientStore ----------------------------
(* The small instances of ClientStore: up to three things that happen at the   *)
(* host and on the wire without a request of this browser, one request of any  *)
(* kind beside one of them, and a few richer executions.                       *)
EXTENDS ClientStore, FiniteSets

CONSTANTS q1, q2

Of(sources) == [s \in Sources |-> IF s \in sources THEN 1 ELSE 0]
Bounds(size) == {Of(sources) : sources \in {S \in SUBSET Sources : Cardinality(S) <= size}}
Asks(k1, k2) == [q \in {q1, q2} |-> IF q = q1 THEN k1 ELSE k2]

SmallMixes ==
    [kind : {Asks("none", "none")}, bound : Bounds(3)]
    \cup [kind : {Asks(k, "none") : k \in Kinds}, bound : Bounds(1)]
    \cup [kind : {Asks(k, "none") : k \in {"mutate", "state", "remove-agent"}},
           bound : {Of({"foreign", "rejects"})}]
    \cup {[kind |-> Asks("routing", "none"), bound |-> Of({"routing", "drops"})],
           [kind |-> Asks("routing", "routing"), bound |-> Of({})],
           [kind |-> Asks("routing", "remove-agent"), bound |-> Of({})],
           [kind |-> Asks("mutate", "state"), bound |-> Of({})]}

=============================================================================
