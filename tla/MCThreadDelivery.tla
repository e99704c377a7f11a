--------------------------- MODULE MCThreadDelivery ---------------------------
(* The small instances of ThreadDelivery.  Agents that are not in a plan can   *)
(* still be brought in; plans that differ by a renaming are listed once.       *)
EXTENDS ThreadDelivery

CONSTANTS a, b, c

RelayOfThree    == [relay |-> TRUE, assigned |-> <<a, b, c>>, limit |-> 3]
RelayOfTwo      == [relay |-> TRUE, assigned |-> <<a, b>>, limit |-> 4]
ParallelOfTwo   == [relay |-> FALSE, assigned |-> <<a, b>>, limit |-> 3]
SingleAgent     == [relay |-> FALSE, assigned |-> <<a>>, limit |-> 4]

AllPlans      == {RelayOfThree, RelayOfTwo, ParallelOfTwo, SingleAgent}

=============================================================================
