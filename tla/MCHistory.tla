----------------------------- MODULE MCHistory -----------------------------
(* Small instances of History: an old message, a send with two files and   *)
(* a reply, an edit of the old message.                                    *)
EXTENDS History, TLC

CONSTANTS old, sent, reply, edited, f0, f1, f2, f3, f4

MCMessages == {old, sent, reply, edited}
MCFiles    == {f0, f1, f2, f3, f4}
MCFilesOf  == (old :> {f0}) @@ (sent :> {f1, f2}) @@ (reply :> {f3}) @@ (edited :> {f4})
MCSource   == (old :> Nothing) @@ (sent :> Nothing) @@ (reply :> sent) @@ (edited :> old)

Budget(f) == [e \in Events |-> IF e \in DOMAIN f THEN f[e] ELSE 0]

\* A send and its reply against retention, with a death or a rejected persist.
Sending ==
    [saved |-> {old},
     left  |-> Budget([send |-> 1, reject |-> 1, storeFails |-> 1, crash |-> 1,
                       preview |-> 1, retain |-> 1, delete |-> 1, cleanFails |-> 1])]

\* Two previews among changes of other conversations.
Previewing ==
    [saved |-> {old},
     left  |-> Budget([send |-> 1, reject |-> 1, other |-> 2, crash |-> 1,
                       preview |-> 2, retain |-> 2])]

\* An edit against the deletion of what it edits.
Editing ==
    [saved |-> {old},
     left  |-> Budget([edit |-> 1, reject |-> 2, storeFails |-> 1, crash |-> 1,
                       delete |-> 2, cleanFails |-> 1, preview |-> 1, retain |-> 1])]

MCStarts == {Sending, Previewing, Editing}

=============================================================================
