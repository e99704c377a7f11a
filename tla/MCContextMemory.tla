-------------------------- MODULE MCContextMemory --------------------------
(* Small instances of ContextMemory.                                       *)
EXTENDS ContextMemory

Budget(f) == [e \in Events |-> IF e \in DOMAIN f THEN f[e] ELSE 0]

\* Messages and replies come while refreshes are under way.
Growing(k) ==
    [scope |-> k, messages |-> 1,
     left |-> Budget([accept |-> 2, reply |-> 1, delete |-> 1, fails |-> 1, crash |-> 1])]

\* People edit and compact beside a reply and its refresh; a persist rejects.
Editing(k) ==
    [scope |-> k, messages |-> 1,
     left |-> Budget([accept |-> 1, reply |-> 1, edit |-> 2, compact |-> 1, reject |-> 1,
                      fails |-> 1])]

\* Messages and evidence go while a compaction reads them.
Taking(k) ==
    [scope |-> k, messages |-> 2,
     left |-> Budget([accept |-> 1, delete |-> 1, evidence |-> 1, edit |-> 1, compact |-> 2])]

\* A message or a deletion is refused while a refresh looks.
Refusing(k) ==
    [scope |-> k, messages |-> 1,
     left |-> Budget([accept |-> 2, delete |-> 1, edit |-> 1, reject |-> 1])]

MCStarts ==
    UNION {{Growing(k), Editing(k), Taking(k), Refusing(k)} : k \in Scopes}

=============================================================================
