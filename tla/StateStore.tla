----------------------------- MODULE StateStore -----------------------------
(***************************************************************************)
(* The host's one durable document.  CommonspaceHostService keeps the      *)
(* workspace in memory (this.state) and in state.json; every change takes  *)
(* the FIFO lock of withStateChange, edits memory, and persists: it copies *)
(* state.json to state.backup.json, renames a temporary file over          *)
(* state.json, and removes the temporary files.  A persist that rejects    *)
(* puts memory back.  At start-up the host recovers from what it finds.    *)
(*                                                                         *)
(* A workspace document is abstracted to the set of changes it contains.   *)
(* The process may die between any two file operations; an unreadable      *)
(* state.json (Damage) is the event automatic recovery exists for.         *)
(***************************************************************************)
EXTENDS Naturals, Sequences

CONSTANTS
    Changes,     \* the changes callers ask for, each once
    MaxCrashes,  \* bound on process deaths
    MaxDamage    \* bound on state.json becoming unreadable

ASSUME ChangesAssumption == Changes # {}

ASSUME BoundAssumption == MaxCrashes \in Nat /\ MaxDamage \in Nat

VARIABLES
    memory,       \* this.state
    previous,     \* previousState, captured by the lock holder
    snapshot,     \* the JSON persist() took when it was called
    queue,        \* stateChangeTail: the holder of the lock, then the waiters
    step,         \* where the persist in progress stands
    outcome,      \* what the caller of each change has been told
    primary,      \* state.json
    backup,       \* state.backup.json
    quarantined,  \* whether state.corrupt.json exists
    host,         \* "down", "booting", "up", or "refused" to start
    crashes,      \* process deaths so far
    damage        \* times state.json became unreadable

lock  == <<memory, previous, snapshot, queue, step>>
disk  == <<primary, backup, quarantined>>
vars  == <<lock, outcome, disk, host, crashes, damage>>

\* A file is absent (ENOENT), rejected by sanitizeLoadedState, or a document.
Missing == [form |-> "missing", changes |-> {}]
Corrupt == [form |-> "corrupt", changes |-> {}]
Document(changes) == [form |-> "valid", changes |-> changes]

Files == {Document(changes) : changes \in SUBSET Changes} \cup {Missing, Corrupt}
Readable(file) == file.form = "valid"

Steps    == {"idle", "discard", "quarantine", "rotate", "replace", "saved", "broken"}
Hosts    == {"down", "booting", "up", "refused"}
Outcomes == {"idle", "queued", "acked", "failed", "lost"}

TypeOK ==
    /\ memory \in SUBSET Changes
    /\ previous \in SUBSET Changes
    /\ snapshot \in SUBSET Changes
    /\ queue \in Seq(Changes)
    /\ step \in Steps
    /\ outcome \in [Changes -> Outcomes]
    /\ primary \in Files
    /\ backup \in Files
    /\ quarantined \in BOOLEAN
    /\ host \in Hosts
    /\ crashes \in 0..MaxCrashes
    /\ damage \in 0..MaxDamage

Told(word) == {c \in Changes : outcome[c] = word}

Init ==
    /\ memory = {} /\ previous = {} /\ snapshot = {}
    /\ queue = <<>> /\ step = "idle"
    /\ outcome = [c \in Changes |-> "idle"]
    /\ primary = Missing /\ backup = Missing /\ quarantined = FALSE
    /\ host = "down"
    /\ crashes = 0 /\ damage = 0

-----------------------------------------------------------------------------
(* The lock: withStateChange and withPersistedStateChange.                 *)

\* A caller queues its change behind stateChangeTail.
Request(c) ==
    /\ host = "up"
    /\ outcome[c] = "idle"
    /\ outcome' = [outcome EXCEPT ![c] = "queued"]
    /\ queue' = Append(queue, c)
    /\ UNCHANGED <<memory, previous, snapshot, step, disk, host, crashes, damage>>

\* Slip: the JSON is taken before the change is applied.
BeginSnapshotFirst ==
    /\ host = "up" /\ step = "idle" /\ queue # <<>>
    /\ previous' = memory
    /\ memory' = memory \cup {Head(queue)}
    /\ snapshot' = memory
    /\ step' = "rotate"
    /\ UNCHANGED <<queue, outcome, disk, host, crashes, damage>>

\* The head of the lock edits memory and calls persist(), which serialises
\* memory before it first awaits.
Begin ==
    /\ host = "up" /\ step = "idle" /\ queue # <<>>
    /\ previous' = memory
    /\ memory' = memory \cup {Head(queue)}
    /\ snapshot' = memory'
    /\ step' = "rotate"
    /\ UNCHANGED <<queue, outcome, disk, host, crashes, damage>>

\* The change itself throws: memory is put back and nothing is written.
Reject ==
    /\ host = "up" /\ step = "idle" /\ queue # <<>>
    /\ outcome' = [outcome EXCEPT ![Head(queue)] = "failed"]
    /\ queue' = Tail(queue)
    /\ UNCHANGED <<memory, previous, snapshot, step, disk, host, crashes, damage>>

-----------------------------------------------------------------------------
(* persist(): three awaited stretches, each of which may reject.           *)

\* Slip: the backup is made once and never refreshed.
RotateOnce ==
    /\ step = "rotate"
    /\ step' = "replace"
    /\ backup' = IF backup = Missing THEN primary ELSE backup
    /\ UNCHANGED <<memory, previous, snapshot, queue, outcome, primary,
                   quarantined, host, crashes, damage>>

\* Slip: the rename is not awaited before the caller is answered.
RotateUnawaited ==
    /\ step = "rotate"
    /\ step' \in {"replace", "saved"}
    /\ backup' = IF primary = Missing THEN backup ELSE primary
    /\ UNCHANGED <<memory, previous, snapshot, queue, outcome, primary,
                   quarantined, host, crashes, damage>>

\* The bytes of state.json become state.backup.json; ENOENT is skipped.
Rotate ==
    /\ step = "rotate"
    /\ step' = "replace"
    /\ backup' = IF primary = Missing THEN backup ELSE primary
    /\ UNCHANGED <<memory, previous, snapshot, queue, outcome, primary,
                   quarantined, host, crashes, damage>>

\* Slip: state.json is written in place.
ReplaceInPlace ==
    /\ step = "replace"
    /\ step' = "saved"
    /\ primary' = [form |-> "partial", changes |-> snapshot]
    /\ UNCHANGED <<memory, previous, snapshot, queue, outcome, backup,
                   quarantined, host, crashes, damage>>

\* The snapshot is renamed over state.json.
Replace ==
    /\ step = "replace"
    /\ step' = "saved"
    /\ primary' = Document(snapshot)
    /\ UNCHANGED <<memory, previous, snapshot, queue, outcome, backup,
                   quarantined, host, crashes, damage>>

\* A read, write or rename rejects; the finally block still runs.
IOError ==
    /\ step \in {"rotate", "replace"}
    /\ step' = "broken"
    /\ UNCHANGED <<memory, previous, snapshot, queue, outcome, disk, host,
                   crashes, damage>>

\* Slip: handing the lock on forgets who else waits.
SavedForgetsWaiters ==
    /\ step = "saved"
    /\ step' = "idle"
    /\ IF host = "booting"
         THEN /\ host' = "up"
              /\ UNCHANGED <<queue, outcome>>
         ELSE /\ outcome' = [outcome EXCEPT ![Head(queue)] = "acked"]
              /\ queue' = <<>>
              /\ UNCHANGED host
    /\ UNCHANGED <<memory, previous, snapshot, disk, crashes, damage>>

\* persist() resolves: the caller is answered and the lock passes on.  The
\* persist of initialize() has no caller; it opens the host.
Saved ==
    /\ step = "saved"
    /\ step' = "idle"
    /\ IF host = "booting"
         THEN /\ host' = "up"
              /\ UNCHANGED <<queue, outcome>>
         ELSE /\ outcome' = [outcome EXCEPT ![Head(queue)] = "acked"]
              /\ queue' = Tail(queue)
              /\ UNCHANGED host
    /\ UNCHANGED <<memory, previous, snapshot, disk, crashes, damage>>

\* Slip: the rejected change stays in memory.
RollbackNothing ==
    /\ step \in {"saved", "broken"}
    /\ step' = "idle"
    /\ IF host = "booting"
         THEN /\ host' = "down"
              /\ UNCHANGED <<queue, outcome>>
         ELSE /\ outcome' = [outcome EXCEPT ![Head(queue)] = "failed"]
              /\ queue' = Tail(queue)
              /\ UNCHANGED host
    /\ UNCHANGED <<memory, previous, snapshot, disk, crashes, damage>>

\* persist() rejects, because of an IOError or because removing the temporary
\* files rejected after state.json was already replaced.  A caller's change is
\* taken out of memory; the persist of initialize() stops the start-up.
Rollback ==
    /\ step \in {"saved", "broken"}
    /\ step' = "idle"
    /\ memory' = previous
    /\ IF host = "booting"
         THEN /\ host' = "down"
              /\ UNCHANGED <<queue, outcome>>
         ELSE /\ outcome' = [outcome EXCEPT ![Head(queue)] = "failed"]
              /\ queue' = Tail(queue)
              /\ UNCHANGED host
    /\ UNCHANGED <<previous, snapshot, disk, crashes, damage>>

-----------------------------------------------------------------------------
(* Death and start-up.                                                     *)

\* Slip: state.json is written in place, and the process dies half-way.
CrashMidWrite ==
    /\ host \in {"booting", "up"}
    /\ crashes < MaxCrashes
    /\ crashes' = crashes + 1
    /\ host' = "down"
    /\ step' = "idle"
    /\ queue' = <<>>
    /\ memory' = {} /\ previous' = {} /\ snapshot' = {}
    /\ outcome' = [c \in Changes |->
                     IF outcome[c] = "queued" THEN "lost" ELSE outcome[c]]
    /\ primary' = IF step = "replace" THEN Corrupt ELSE primary
    /\ UNCHANGED <<backup, quarantined, damage>>

\* The process dies: callers still waiting are never answered.
Crash ==
    /\ host \in {"booting", "up"}
    /\ crashes < MaxCrashes
    /\ crashes' = crashes + 1
    /\ host' = "down"
    /\ step' = "idle"
    /\ queue' = <<>>
    /\ memory' = {} /\ previous' = {} /\ snapshot' = {}
    /\ outcome' = [c \in Changes |->
                     IF outcome[c] = "queued" THEN "lost" ELSE outcome[c]]
    /\ UNCHANGED <<disk, damage>>

\* The environment makes state.json unreadable.
Damage ==
    /\ Readable(primary)
    /\ damage < MaxDamage
    /\ damage' = damage + 1
    /\ primary' = Corrupt
    /\ UNCHANGED <<lock, outcome, backup, quarantined, host, crashes>>

\* Slip: the backup is tried first.
RecoveredBackupFirst ==
    IF Readable(backup) THEN backup.changes
    ELSE IF Readable(primary) THEN primary.changes ELSE {}

\* What restorePersistedState finds, when it finds something to load.
Recovered ==
    IF Readable(primary) THEN primary.changes
    ELSE IF Readable(backup) THEN backup.changes ELSE {}

\* A workspace that was never written starts empty.
Fresh == primary = Missing /\ backup = Missing /\ ~quarantined

Recoverable == Readable(primary) \/ Readable(backup) \/ Fresh

\* A restart settles what was in doubt: a change is in the document or not.
Settle(document) ==
    outcome' = [c \in Changes |->
                  IF c \in document THEN "acked"
                  ELSE IF outcome[c] = "acked" THEN "lost" ELSE outcome[c]]

Restore ==
    /\ host = "down"
    /\ Recoverable
    /\ host' = "booting"
    /\ memory' = Recovered /\ previous' = Recovered /\ snapshot' = Recovered
    /\ step' = IF primary = Corrupt THEN "discard" ELSE "rotate"
    /\ Settle(Recovered)
    /\ UNCHANGED <<queue, disk, crashes, damage>>

\* Nothing readable: start-up throws and leaves the files as they are.
Refuse ==
    /\ host = "down"
    /\ ~Recoverable
    /\ host' = "refused"
    /\ UNCHANGED <<lock, outcome, disk, crashes, damage>>

\* The old state.corrupt.json is removed ...
Discard ==
    /\ step = "discard"
    /\ step' = "quarantine"
    /\ quarantined' = FALSE
    /\ UNCHANGED <<memory, previous, snapshot, queue, outcome, primary, backup,
                   host, crashes, damage>>

\* ... and the unreadable state.json takes its place.
Quarantine ==
    /\ step = "quarantine"
    /\ step' = "rotate"
    /\ quarantined' = TRUE
    /\ primary' = Missing
    /\ UNCHANGED <<memory, previous, snapshot, queue, outcome, backup, host,
                   crashes, damage>>

-----------------------------------------------------------------------------

Persist == Rotate \/ Replace \/ Saved \/ Rollback
Boot    == Restore \/ Refuse \/ Discard \/ Quarantine

Next ==
    \/ \E c \in Changes : Request(c)
    \/ Begin \/ Reject
    \/ Persist \/ IOError
    \/ Crash \/ Damage
    \/ Boot

\* The event loop runs what is ready, and every file operation settles.
Fairness == WF_vars(Begin) /\ WF_vars(Persist) /\ WF_vars(Boot)

Spec == Init /\ [][Next]_vars /\ Fairness

-----------------------------------------------------------------------------
(* Properties.                                                             *)

\* While no file is damaged, a change whose caller was told it succeeded is in
\* what a restart would load, wherever the process dies inside persist().
AckedSurvives == damage = 0 => Told("acked") \subseteq Recovered

\* Damage to state.json costs at most the last acknowledged change, as long as
\* either file still loads: the backup trails the primary by one write.
DamageLosesAtMostOne ==
    Recoverable => \E c \in Changes : Told("acked") \ Recovered \subseteq {c}

\* Process deaths alone never leave files start-up refuses.
CrashNeverRefused == damage = 0 => Recoverable /\ host # "refused"

\* When no change is being saved, memory holds exactly the acknowledged
\* changes: a rollback removes its own change and nobody else's, and a failed
\* change is not served to later readers.
IdleMemoryIsAcked ==
    host = "up" /\ step = "idle" => memory = Told("acked")

\* Then state.json holds everything in memory, and at most one change more: one
\* whose caller was told it failed after the rename had happened.
DiskLeadsByOneFailure ==
    host = "up" /\ step = "idle" /\ Readable(primary)
        => /\ memory \subseteq primary.changes
           /\ \E c \in Changes :
                primary.changes \ memory \subseteq {c} \cap Told("failed")

\* The store seen as a durable log.
Log == INSTANCE DurableLog WITH durable <- Recovered, told <- outcome

\* The store implements the log for as long as no file is damaged: what a
\* restart would load and what callers were told (outcome of withStateChange)
\* move only as DurableLog allows.
ImplementsDurableLog ==
    Log!Init /\ [][damage' = 0 => [Log!Next]_(Log!vars)]_(vars)

\* Every caller is answered, or the process dies.
EveryCallerAnswered ==
    \A c \in Changes : outcome[c] = "queued" ~> outcome[c] # "queued"

\* What holds of the files and of memory in every state, whatever writes are rejected
\* and wherever the process dies.
StoreConsistent ==
    /\ TypeOK
    /\ CrashNeverRefused
    /\ IdleMemoryIsAcked
    /\ DiskLeadsByOneFailure

=============================================================================
