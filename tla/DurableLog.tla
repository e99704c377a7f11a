----------------------------- MODULE DurableLog -----------------------------
(***************************************************************************)
(* What the state store promises its callers while files are not damaged:  *)
(* a log from which an acknowledged change never disappears.  One change   *)
(* at a time is written; a change that was written and not acknowledged    *)
(* is in doubt, and stays in the log until the next write drops it or a    *)
(* restart keeps it.                                                       *)
(***************************************************************************)
EXTENDS Naturals

CONSTANT Changes

VARIABLES
    durable,  \* what a restart would load
    told      \* what each caller knows

vars == <<durable, told>>

Acked == {c \in Changes : told[c] = "acked"}

Tell(c, word) == told' = [told EXCEPT ![c] = word]

Init == durable = {} /\ told = [c \in Changes |-> "idle"]

Ask(c) == told[c] = "idle" /\ Tell(c, "queued") /\ UNCHANGED durable

Write(c) == told[c] = "queued" /\ durable' = Acked \cup {c} /\ UNCHANGED told

\* An acknowledgement needs the change to be durable.
Ack(c) ==
    /\ told[c] = "queued" /\ durable = Acked \cup {c}
    /\ Tell(c, "acked")
    /\ UNCHANGED durable

Fail(c) == told[c] = "queued" /\ Tell(c, "failed") /\ UNCHANGED durable

Die ==
    /\ told' = [c \in Changes |->
                  IF told[c] = "queued" THEN "lost" ELSE told[c]]
    /\ UNCHANGED durable

\* A restart decides for the changes in doubt; acknowledged ones are all there.
Restart ==
    /\ Acked \subseteq durable
    /\ told' = [c \in Changes |-> IF c \in durable THEN "acked" ELSE told[c]]
    /\ UNCHANGED durable

Next ==
    \/ \E c \in Changes : Ask(c) \/ Write(c) \/ Ack(c) \/ Fail(c)
    \/ Die \/ Restart

Spec == Init /\ [][Next]_vars

=============================================================================
