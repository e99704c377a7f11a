------------------------ MODULE MCScheduledMessages ------------------------
(* Small instances of ScheduledMessages: one schedule of each kind.        *)
EXTENDS ScheduledMessages, TLC

CONSTANTS daily, once

Budget(f) == [e \in Events |-> IF e \in DOMAIN f THEN f[e] ELSE 0]
At(o, t) == [object |-> o, text |-> 0, paused |-> FALSE, next |-> t]

Both == (daily :> At(1, 2)) @@ (once :> At(2, 2))
Only == (daily :> At(1, 2)) @@ (once :> Gone)

\* Changes of a schedule while it is on its way.
Changing ==
    [schedule |-> Only,
     left |-> Budget([edit |-> 1, pause |-> 1, resume |-> 1, delete |-> 1, reject |-> 1])]

\* Two schedules due at once, with failures and a death.
Failing ==
    [schedule |-> Both,
     left |-> Budget([fails |-> 1, reject |-> 1, crash |-> 1, retime |-> 1])]

\* A schedule is created beside another.
Creating ==
    [schedule |-> Only,
     left |-> Budget([create |-> 1, crash |-> 1, pause |-> 1, retime |-> 1])]

MCStarts == {Changing, Failing, Creating}

=============================================================================
