CONSTANTS
  a = a
  b = b
  c = c
  Agents = {a, b, c}
  Named <- NamedNames
  Chosen <- ChosenNames
  Starts <- SmallStarts
SPECIFICATION RoutingSpec
INVARIANTS
    RoutingConsistent
    AssignmentsAreDelivered
    CurrentMemoryIsTrue
PROPERTIES
    LateDecisionsAreDropped
    RoutingSettles
CHECK_DEADLOCK FALSE
