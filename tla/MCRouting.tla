------------------------------ MODULE MCRouting ------------------------------
EXTENDS Routing

CONSTANTS a, b, c

None == [k \in Kinds |-> 0]
Events(f) == [k \in Kinds |-> IF k \in DOMAIN f THEN f[k] ELSE 0]

Plain(id) ==
    [status |-> "resolved", named |-> {a}, as |-> {[id |-> id, agent |-> a]},
     corr |-> {}, deleted |-> FALSE, over |-> 0]
Fixed(id) ==
    [Plain(id) EXCEPT !.as = @ \cup {[id |-> id + 1, agent |-> b]},
                      !.corr = {[id |-> id + 2, from |-> id, to |-> id + 1]}]

Start(msgs, memory, next, done, events) ==
    [msgs |-> msgs, memory |-> memory, fresh |-> next, turns |-> done, left |-> Events(events)]

\* An empty Channel; one with a failed compaction of two corrections.
Fresh(events) == Start(<<>>, EmptyMemory, 1, <<>>, events)
Learned(events) ==
    Start(<<Plain(1), Fixed(2), Fixed(5)>>,
          [EmptyMemory EXCEPT !.status = "failed", !.count = 2], 8, <<1, 2, 3, 5, 6>>, events)

\* The last of two corrections was made, and an earlier message can be corrected.
OneFixed(events) ==
    Start(<<Plain(1), Fixed(2)>>,
          [EmptyMemory EXCEPT !.status = "failed", !.count = 1], 5, <<1, 2, 3>>, events)

ChosenNames == {{a}, {b}, {b, c}}
NamedNames == {{}, {a, b}}

SmallStarts ==
    { Fresh([send |-> 1, reroute |-> 2, reject |-> 1, crash |-> 1]),
      Fresh([send |-> 1, delete |-> 1, change |-> 1, reject |-> 1]),
      Fresh([send |-> 1, retry |-> 1, reject |-> 1, crash |-> 1]),
      Fresh([send |-> 1, edit |-> 1, reroute |-> 1]),
      Learned([reroute |-> 2, delete |-> 1, reject |-> 1]),
      OneFixed([reroute |-> 3, reject |-> 1]),
      Learned([reroute |-> 2, crash |-> 1]),
      Learned([reroute |-> 1, edit |-> 1, crash |-> 1]) }
=============================================================================
