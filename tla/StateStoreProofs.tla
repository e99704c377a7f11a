-------------------------- MODULE StateStoreProofs --------------------------
(***************************************************************************)
(* The state store keeps its promises for any set of changes, any number   *)
(* of process deaths and any number of damaged files; and so does, in the  *)
(* second half, the copy of the state that a browser shows.                *)
(***************************************************************************)
EXTENDS StateStore, ClientStore, TLAPS

-----------------------------------------------------------------------------
(* The inductive invariant.                                                *)

\* Who may hold the lock, and in which life of the process.
ControlInv ==
    /\ host \in {"down", "refused"} => step = "idle"
    /\ host = "booting" => step # "idle"
    /\ host # "up" => queue = <<>>
    /\ host = "up" => step \notin {"discard", "quarantine"}
    /\ host = "up" /\ step # "idle" => queue # <<>>

\* The waiters are distinct and exactly unanswered.
QueueInv ==
    /\ \A i \in 1..Len(queue) : outcome[queue[i]] = "queued"
    /\ \A i, j \in 1..Len(queue) : queue[i] = queue[j] => i = j

\* Memory is what was acknowledged, plus the change being saved.
MemoryInv ==
    /\ host = "booting" =>
         /\ memory = Told("acked")
         /\ previous = Told("acked")
         /\ snapshot = Told("acked")
    /\ host = "up" /\ step = "idle" => memory = Told("acked")
    /\ host = "up" /\ step # "idle" =>
         /\ previous = Told("acked")
         /\ memory = Told("acked") \cup {Head(queue)}
         /\ snapshot = memory

\* state.json holds every acknowledged change.
PrimaryInv ==
    /\ Readable(primary) => Told("acked") \subseteq primary.changes
    /\ step = "saved" => primary \in {Document(snapshot), Corrupt}
    /\ host = "up" => primary # Missing
    /\ primary = Missing => \/ Readable(backup)
                            \/ Fresh /\ Told("acked") = {}

\* state.backup.json is one write behind, and level once it has been rotated.
BackupInv ==
    /\ Readable(backup) =>
         \E c \in Changes : Told("acked") \ backup.changes \subseteq {c}
    /\ Readable(backup) /\ Readable(primary) =>
         \E c \in Changes : primary.changes \ backup.changes \subseteq {c}
    /\ Readable(backup) /\ step \in {"replace", "saved"} =>
         Told("acked") \subseteq backup.changes
    /\ host = "booting" /\ primary = Missing /\ Readable(backup) =>
         backup.changes = Told("acked")
    /\ step \in {"discard", "quarantine"} =>
         Readable(backup) /\ backup.changes = Told("acked")

\* Between saves state.json is ahead by at most one failed change.
LeadInv ==
    host = "up" /\ step # "saved" /\ Readable(primary) =>
        \E c \in Changes :
            primary.changes \ Told("acked") \subseteq {c} \cap Told("failed")

\* Without damage no file is ever unreadable.
UndamagedInv ==
    damage = 0 =>
        /\ primary # Corrupt /\ backup # Corrupt
        /\ step \notin {"discard", "quarantine"}
        /\ primary = Missing => Fresh
        /\ host # "refused"

IInv ==
    /\ TypeOK
    /\ ControlInv
    /\ QueueInv
    /\ MemoryInv
    /\ PrimaryInv
    /\ BackupInv
    /\ LeadInv
    /\ UndamagedInv

-----------------------------------------------------------------------------
(* Facts about the lock and about who has been told what.                  *)

\* The head of a non-empty queue and what its tail consists of.
LEMMA PopFacts ==
  ASSUME IInv, queue # <<>>
  PROVE  /\ Head(queue) \in Changes
         /\ Head(queue) = queue[1]
         /\ 1 \in 1..Len(queue)
         /\ Tail(queue) \in Seq(Changes)
         /\ \A i \in 1..Len(Tail(queue)) :
               i + 1 \in 1..Len(queue) /\ Tail(queue)[i] = queue[i + 1]
BY DEF IInv, TypeOK

\* The caller whose change is being saved has not been answered.
LEMMA HeadUnanswered ==
  ASSUME IInv, queue # <<>>
  PROVE  outcome[Head(queue)] = "queued"
BY DEF IInv, QueueInv

\* Answering the head of the queue leaves the other waiters unanswered.
LEMMA AnswerHead ==
  ASSUME IInv, queue # <<>>, NEW word \in Outcomes,
         outcome' = [outcome EXCEPT ![Head(queue)] = word],
         queue' = Tail(queue)
  PROVE  /\ outcome' \in [Changes -> Outcomes]
         /\ queue' \in Seq(Changes)
         /\ QueueInv'
<1>1. outcome' \in [Changes -> Outcomes] /\ queue' \in Seq(Changes)
    BY DEF IInv, TypeOK
<1>2. \A i \in 1..Len(queue') : queue'[i] \in Changes /\ queue'[i] # Head(queue)
  <2> SUFFICES ASSUME NEW i \in 1..Len(queue')
               PROVE  queue'[i] \in Changes /\ queue'[i] # Head(queue)
    OBVIOUS
  <2>1. queue'[i] = queue[i + 1] /\ i + 1 \in 1..Len(queue) /\ i + 1 # 1
    BY PopFacts, <1>1
  <2> QED BY <1>1 DEF IInv, QueueInv
<1>3. \A i \in 1..Len(queue') : outcome'[queue'[i]] = "queued"
  <2> SUFFICES ASSUME NEW i \in 1..Len(queue')
               PROVE  outcome'[queue'[i]] = "queued"
    OBVIOUS
  <2>1. outcome[queue'[i]] = "queued"
        BY DEF IInv, QueueInv
  <2> QED BY <1>2, <2>1
<1>4. \A i, j \in 1..Len(queue') : queue'[i] = queue'[j] => i = j
  <2> SUFFICES ASSUME NEW i \in 1..Len(queue'), NEW j \in 1..Len(queue'),
                      queue'[i] = queue'[j]
               PROVE  i = j
    OBVIOUS
  <2>1. queue[i + 1] = queue[j + 1]
    BY PopFacts
  <2>2. i + 1 = j + 1
        BY DEF IInv, QueueInv
  <2> QED BY <2>2
<1> QED BY <1>1, <1>3, <1>4 DEF QueueInv

\* Acknowledging the head adds it to the acknowledged changes ...
LEMMA AckHead ==
  ASSUME IInv, queue # <<>>, outcome' = [outcome EXCEPT ![Head(queue)] = "acked"]
  PROVE  /\ Told("acked")' = Told("acked") \cup {Head(queue)}
         /\ Told("failed")' = Told("failed")
BY HeadUnanswered DEF Told, IInv, TypeOK

\* ... and failing it takes nothing from them.
LEMMA FailHead ==
  ASSUME IInv, queue # <<>>, outcome' = [outcome EXCEPT ![Head(queue)] = "failed"]
  PROVE  /\ Told("acked")' = Told("acked")
         /\ Told("failed")' = Told("failed") \cup {Head(queue)}
BY HeadUnanswered DEF Told, IInv, TypeOK

\* A caller joins the lock's queue.
LEMMA RequestPreserves ==
  ASSUME IInv, NEW c \in Changes, Request(c)
  PROVE  IInv'
<1>1. TypeOK'
    BY DEF IInv, TypeOK, Request, disk, Outcomes
<1>2. ControlInv'
    BY DEF IInv, ControlInv, Request
<1>3. QueueInv'
    BY DEF IInv, TypeOK, QueueInv, Request
<1>4. MemoryInv'
    BY DEF IInv, ControlInv, MemoryInv, Request, Told
<1>5. PrimaryInv'
    BY DEF IInv, PrimaryInv, Request, disk, Told
<1>6. BackupInv'
    BY DEF IInv, BackupInv, Request, disk, Told
<1>7. LeadInv'
    BY DEF IInv, LeadInv, Request, disk, Told
<1>8. UndamagedInv'
    BY DEF IInv, UndamagedInv, Request, disk, Fresh
<1> QED BY <1>1, <1>2, <1>3, <1>4, <1>5, <1>6, <1>7, <1>8 DEF IInv

\* The head of the lock edits memory and takes its snapshot.
LEMMA BeginPreserves ==
  ASSUME IInv, Begin
  PROVE  IInv'
<1>1. TypeOK'
    BY DEF IInv, TypeOK, Begin, disk, Steps
<1>2. ControlInv'
    BY DEF ControlInv, Begin
<1>3. QueueInv'
    BY DEF IInv, QueueInv, Begin
<1>4. MemoryInv'
    BY DEF IInv, MemoryInv, Begin, Told
<1>5. PrimaryInv'
    BY DEF IInv, PrimaryInv, Begin, disk, Told
<1>6. BackupInv'
    BY DEF IInv, BackupInv, Begin, disk, Told
<1>7. LeadInv'
    BY DEF IInv, LeadInv, Begin, disk, Told
<1>8. UndamagedInv'
    BY DEF IInv, UndamagedInv, Begin, disk, Fresh
<1> QED BY <1>1, <1>2, <1>3, <1>4, <1>5, <1>6, <1>7, <1>8 DEF IInv

\* A change that throws leaves everything but its caller alone.
LEMMA RejectPreserves ==
  ASSUME IInv, Reject
  PROVE  IInv'
<1>1. TypeOK'
    BY DEF IInv, TypeOK, Reject, disk, Outcomes
<1>2. ControlInv'
    BY DEF ControlInv, Reject
<1>3. QueueInv'
    BY AnswerHead DEF Reject, Outcomes
<1>4. MemoryInv'
    BY FailHead DEF IInv, MemoryInv, Reject
<1>5. PrimaryInv'
    BY DEF IInv, PrimaryInv, Reject, disk, Told
<1>6. BackupInv'
    BY DEF IInv, BackupInv, Reject, disk, Told
<1>7. LeadInv'
    BY FailHead DEF IInv, LeadInv, Reject, disk
<1>8. UndamagedInv'
    BY DEF IInv, UndamagedInv, Reject, disk, Fresh
<1> QED BY <1>1, <1>2, <1>3, <1>4, <1>5, <1>6, <1>7, <1>8 DEF IInv

\* The backup catches up with state.json.
LEMMA RotatePreserves ==
  ASSUME IInv, Rotate
  PROVE  IInv'
<1>1. TypeOK'
    BY DEF IInv, TypeOK, Rotate, Steps
<1>2. ControlInv'
    BY DEF IInv, ControlInv, Rotate
<1>3. QueueInv'
    BY DEF IInv, QueueInv, Rotate
<1>4. MemoryInv'
    BY DEF IInv, MemoryInv, Rotate, Told
<1>5. PrimaryInv'
    BY DEF IInv, ControlInv, PrimaryInv, Rotate, Told, Fresh
<1>6. BackupInv'
    BY ChangesAssumption DEF IInv, TypeOK, ControlInv, PrimaryInv, BackupInv,
     Rotate, Told, Hosts
<1>7. LeadInv'
    BY DEF IInv, LeadInv, Rotate, Told
<1>8. UndamagedInv'
    BY DEF IInv, ControlInv, UndamagedInv, Rotate, Fresh, Missing, Corrupt
<1> QED BY <1>1, <1>2, <1>3, <1>4, <1>5, <1>6, <1>7, <1>8 DEF IInv

\* state.json catches up with memory.
LEMMA ReplacePreserves ==
  ASSUME IInv, Replace
  PROVE  IInv'
<1>1. TypeOK'
    BY DEF IInv, TypeOK, Replace, Steps, Files, Document
<1>2. ControlInv'
    BY DEF IInv, ControlInv, Replace
<1>3. QueueInv'
    BY DEF IInv, QueueInv, Replace
<1>4. MemoryInv'
    BY DEF IInv, MemoryInv, Replace, Told
<1>5. PrimaryInv'
    BY DEF IInv, TypeOK, ControlInv, MemoryInv, PrimaryInv, Replace, Told,
     Document, Missing, Hosts
<1>6. BackupInv'
    BY DEF IInv, TypeOK, ControlInv, MemoryInv, BackupInv, Replace, Told,
     Document, Missing, Hosts
<1>7. LeadInv'
    BY DEF LeadInv, Replace
<1>8. UndamagedInv'
    BY DEF IInv, UndamagedInv, Replace, Document, Missing, Corrupt
<1> QED BY <1>1, <1>2, <1>3, <1>4, <1>5, <1>6, <1>7, <1>8 DEF IInv

\* A rejected file operation changes no file.
LEMMA IOErrorPreserves ==
  ASSUME IInv, IOError
  PROVE  IInv'
<1>1. TypeOK'
    BY DEF IInv, TypeOK, IOError, disk, Steps
<1>2. ControlInv'
    BY DEF IInv, ControlInv, IOError
<1>3. QueueInv'
    BY DEF IInv, QueueInv, IOError
<1>4. MemoryInv'
    BY DEF IInv, MemoryInv, IOError, Told
<1>5. PrimaryInv'
    BY DEF IInv, PrimaryInv, IOError, disk, Told, Fresh
<1>6. BackupInv'
    BY DEF IInv, BackupInv, IOError, disk, Told
<1>7. LeadInv'
    BY DEF IInv, LeadInv, IOError, disk, Told
<1>8. UndamagedInv'
    BY DEF IInv, UndamagedInv, IOError, disk, Fresh
<1> QED BY <1>1, <1>2, <1>3, <1>4, <1>5, <1>6, <1>7, <1>8 DEF IInv

\* The change that was saved is acknowledged.
LEMMA SavedPreserves ==
  ASSUME IInv, Saved
  PROVE  IInv'
<1>1. TypeOK'
    BY AnswerHead DEF IInv, TypeOK, ControlInv, Saved, disk, Steps, Hosts,
     Outcomes
<1>2. ControlInv'
    BY DEF IInv, TypeOK, ControlInv, Saved, Hosts
<1>3. QueueInv'
    BY AnswerHead DEF IInv, TypeOK, ControlInv, QueueInv, Saved, Hosts,
     Outcomes
<1>4. MemoryInv'
    BY DEF IInv, TypeOK, MemoryInv, Saved, Told
<1>5. PrimaryInv'
    BY DEF IInv, TypeOK, ControlInv, MemoryInv, PrimaryInv, Saved, disk, Told,
     Document, Missing, Corrupt, Readable, Hosts
<1>6. BackupInv'
    BY DEF IInv, TypeOK, BackupInv, Saved, disk, Told
<1>7. LeadInv'
    BY AckHead, ChangesAssumption DEF IInv, ControlInv, MemoryInv, PrimaryInv,
     LeadInv, Saved, disk, Told, Document, Corrupt
<1>8. UndamagedInv'
    BY DEF IInv, UndamagedInv, Saved, disk, Fresh
<1> QED BY <1>1, <1>2, <1>3, <1>4, <1>5, <1>6, <1>7, <1>8 DEF IInv

\* A rejected persist takes its own change out of memory.
LEMMA RollbackPreserves ==
  ASSUME IInv, Rollback
  PROVE  IInv'
<1>1. TypeOK'
    BY DEF IInv, TypeOK, ControlInv, Rollback, disk, Steps, Hosts, Outcomes
<1>2. ControlInv'
    BY DEF IInv, TypeOK, ControlInv, Rollback, Hosts
<1>3. QueueInv'
    BY AnswerHead DEF IInv, TypeOK, ControlInv, QueueInv, Rollback, Hosts,
     Outcomes
<1>4. MemoryInv'
    BY FailHead DEF IInv, ControlInv, MemoryInv, Rollback
<1>5. PrimaryInv'
    BY DEF IInv, TypeOK, PrimaryInv, Rollback, disk, Told, Fresh
<1>6. BackupInv'
    BY DEF IInv, TypeOK, BackupInv, Rollback, disk, Told
<1>7. LeadInv'
    BY DEF IInv, TypeOK, ControlInv, QueueInv, MemoryInv, PrimaryInv, LeadInv,
     Rollback, disk, Told, Document, Corrupt
<1>8. UndamagedInv'
    BY DEF IInv, UndamagedInv, Rollback, disk, Fresh
<1> QED BY <1>1, <1>2, <1>3, <1>4, <1>5, <1>6, <1>7, <1>8 DEF IInv

\* A process death empties memory and leaves the files.
LEMMA CrashPreserves ==
  ASSUME IInv, Crash
  PROVE  IInv'
<1>1. TypeOK'
    BY BoundAssumption DEF IInv, TypeOK, Crash, disk, Steps, Hosts, Outcomes
<1>2. ControlInv'
    BY DEF ControlInv, Crash
<1>3. QueueInv'
    BY DEF QueueInv, Crash
<1>4. MemoryInv'
    BY DEF MemoryInv, Crash
<1>5. PrimaryInv'
    BY DEF IInv, PrimaryInv, Crash, disk, Told, Fresh
<1>6. BackupInv'
    BY DEF IInv, BackupInv, Crash, disk, Told
<1>7. LeadInv'
    BY DEF LeadInv, Crash
<1>8. UndamagedInv'
    BY DEF IInv, UndamagedInv, Crash, disk, Fresh
<1> QED BY <1>1, <1>2, <1>3, <1>4, <1>5, <1>6, <1>7, <1>8 DEF IInv

\* Damage is counted, so that the undamaged case is unaffected.
LEMMA DamagePreserves ==
  ASSUME IInv, Damage
  PROVE  IInv'
<1>1. TypeOK'
    BY BoundAssumption DEF IInv, TypeOK, Damage, lock, Files
<1>2. ControlInv'
    BY DEF IInv, ControlInv, Damage, lock
<1>3. QueueInv'
    BY DEF IInv, QueueInv, Damage, lock
<1>4. MemoryInv'
    BY DEF IInv, MemoryInv, Damage, lock, Told
<1>5. PrimaryInv'
    BY DEF PrimaryInv, Damage, Missing, Corrupt, Readable
<1>6. BackupInv'
    BY DEF IInv, BackupInv, Damage, lock, Told, Missing, Corrupt
<1>7. LeadInv'
    BY DEF LeadInv, Damage, Corrupt, Readable
<1>8. UndamagedInv'
    BY DEF IInv, TypeOK, UndamagedInv, Damage
<1> QED BY <1>1, <1>2, <1>3, <1>4, <1>5, <1>6, <1>7, <1>8 DEF IInv

\* Start-up loads the primary, or else the backup.
LEMMA RestorePreserves ==
  ASSUME IInv, Restore
  PROVE  IInv'
<1>1. TypeOK'
    BY DEF IInv, TypeOK, Restore, disk, Files, Document, Missing, Corrupt,
     Steps, Hosts, Outcomes, Recovered, Settle
<1>2. ControlInv'
    BY DEF IInv, ControlInv, Restore
<1>3. QueueInv'
    BY DEF IInv, ControlInv, QueueInv, Restore
<1>4. MemoryInv'
    BY DEF IInv, TypeOK, MemoryInv, Restore, Told, Files, Document, Missing,
     Corrupt, Recovered, Settle
<1>5. PrimaryInv'
    BY DEF IInv, PrimaryInv, Restore, disk, Told, Fresh, Recovered, Settle
<1>6. BackupInv'
    BY DEF IInv, TypeOK, BackupInv, Restore, disk, Told, Files, Document,
     Missing, Corrupt, Readable, Fresh, Recoverable, Recovered, Settle
<1>7. LeadInv'
    BY DEF LeadInv, Restore
<1>8. UndamagedInv'
    BY DEF IInv, UndamagedInv, Restore, disk, Fresh
<1> QED BY <1>1, <1>2, <1>3, <1>4, <1>5, <1>6, <1>7, <1>8 DEF IInv

\* Start-up refuses only what nothing can be loaded from.
LEMMA RefusePreserves ==
  ASSUME IInv, Refuse
  PROVE  IInv'
<1>1. TypeOK'
    BY DEF IInv, TypeOK, Refuse, disk, lock, Hosts
<1>2. ControlInv'
    BY DEF IInv, ControlInv, Refuse, lock
<1>3. QueueInv'
    BY DEF IInv, QueueInv, Refuse, lock
<1>4. MemoryInv'
    BY DEF MemoryInv, Refuse
<1>5. PrimaryInv'
    BY DEF IInv, PrimaryInv, Refuse, disk, lock, Recoverable
<1>6. BackupInv'
    BY DEF IInv, BackupInv, Refuse, disk, lock, Recoverable
<1>7. LeadInv'
    BY DEF LeadInv, Refuse
<1>8. UndamagedInv'
    BY DEF IInv, TypeOK, UndamagedInv, Refuse, Files, Document, Readable,
     Recoverable
<1> QED BY <1>1, <1>2, <1>3, <1>4, <1>5, <1>6, <1>7, <1>8 DEF IInv

\* The old quarantine is removed.
LEMMA DiscardPreserves ==
  ASSUME IInv, Discard
  PROVE  IInv'
<1>1. TypeOK'
    BY DEF IInv, TypeOK, Discard, Steps
<1>2. ControlInv'
    BY DEF IInv, ControlInv, Discard
<1>3. QueueInv'
    BY DEF IInv, QueueInv, Discard
<1>4. MemoryInv'
    BY DEF IInv, MemoryInv, Discard, Told
<1>5. PrimaryInv'
    BY DEF IInv, PrimaryInv, Discard, Told, Fresh
<1>6. BackupInv'
    BY DEF IInv, BackupInv, Discard, Told
<1>7. LeadInv'
    BY DEF IInv, LeadInv, Discard, Told
<1>8. UndamagedInv'
    BY DEF IInv, UndamagedInv, Discard
<1> QED BY <1>1, <1>2, <1>3, <1>4, <1>5, <1>6, <1>7, <1>8 DEF IInv

\* The unreadable primary is set aside, with the backup loaded.
LEMMA QuarantinePreserves ==
  ASSUME IInv, Quarantine
  PROVE  IInv'
<1>1. TypeOK'
    BY DEF IInv, TypeOK, Quarantine, Files, Steps
<1>2. ControlInv'
    BY DEF IInv, ControlInv, Quarantine
<1>3. QueueInv'
    BY DEF IInv, QueueInv, Quarantine
<1>4. MemoryInv'
    BY DEF IInv, MemoryInv, Quarantine, Told
<1>5. PrimaryInv'
    BY DEF IInv, ControlInv, PrimaryInv, BackupInv, Quarantine, Missing,
     Readable
<1>6. BackupInv'
    BY DEF IInv, BackupInv, Quarantine, Told, Missing
<1>7. LeadInv'
    BY DEF LeadInv, Quarantine, Missing, Readable
<1>8. UndamagedInv'
    BY DEF IInv, UndamagedInv, Quarantine
<1> QED BY <1>1, <1>2, <1>3, <1>4, <1>5, <1>6, <1>7, <1>8 DEF IInv

\* The store starts, before its first boot, in the invariant.
LEMMA InitInv == Init => IInv
<1> SUFFICES ASSUME Init PROVE IInv
  OBVIOUS
<1>0. <<>> \in Seq(Changes) /\ 0 \in 0..MaxCrashes /\ 0 \in 0..MaxDamage
  BY BoundAssumption
<1>1. TypeOK
    BY <1>0 DEF Init, TypeOK, Files, Steps, Hosts, Outcomes
<1>2. ControlInv
    BY DEF Init, ControlInv
<1>3. QueueInv
    BY DEF Init, QueueInv
<1>4. MemoryInv
    BY DEF Init, MemoryInv
<1>5. PrimaryInv
    BY DEF Init, PrimaryInv, Told, Fresh
<1>6. BackupInv
    BY ChangesAssumption DEF Init, BackupInv, Told
<1>7. LeadInv
    BY DEF Init, LeadInv
<1>8. UndamagedInv
    BY DEF Init, UndamagedInv, Missing, Corrupt, Fresh
<1> QED BY <1>1, <1>2, <1>3, <1>4, <1>5, <1>6, <1>7, <1>8 DEF IInv

\* A step that changes nothing keeps it.
LEMMA StutterPreserves ==
  ASSUME IInv, UNCHANGED vars
  PROVE  IInv'
BY DEF vars, IInv, TypeOK, ControlInv, QueueInv, MemoryInv, PrimaryInv,
   BackupInv, LeadInv, UndamagedInv, disk, lock, Told, Fresh

-----------------------------------------------------------------------------
(* The theorems.                                                           *)

\* Every step keeps it: one lemma per action.
LEMMA NextPreserves ==
  ASSUME IInv, [Next]_vars
  PROVE  IInv'
BY StutterPreserves, RequestPreserves, BeginPreserves, RejectPreserves,
   RotatePreserves, ReplacePreserves, IOErrorPreserves, SavedPreserves,
   RollbackPreserves, CrashPreserves, DamagePreserves, RestorePreserves,
   RefusePreserves, DiscardPreserves, QuarantinePreserves DEF Next, Persist,
   Boot

\* The inductive invariant holds in every reachable state.
THEOREM Invariance == Spec => []IInv
BY InitInv, NextPreserves, PTL DEF Spec

\* Every variable keeps its type.
THEOREM TypeCorrect == Spec => []TypeOK
<1>1. IInv => TypeOK
    BY DEF IInv
<1> QED BY <1>1, Invariance, PTL

\* Whatever the interleaving of changes and failed writes, memory between saves
\* is exactly what callers were told was saved.
THEOREM IdleMemoryTheorem == Spec => []IdleMemoryIsAcked
<1>1. IInv => IdleMemoryIsAcked
    BY DEF IInv, MemoryInv, IdleMemoryIsAcked
<1> QED BY <1>1, Invariance, PTL

\* No sequence of process deaths loses an acknowledged change.
THEOREM DurabilityTheorem == Spec => []AckedSurvives
<1>1. IInv => AckedSurvives
    BY DEF IInv, TypeOK, PrimaryInv, UndamagedInv, AckedSurvives, Recovered,
     Fresh, Files, Readable, Document
<1> QED BY <1>1, Invariance, PTL

\* No sequence of process deaths leaves a workspace the host refuses to open.
THEOREM StartupTheorem == Spec => []CrashNeverRefused
<1>1. IInv => CrashNeverRefused
    BY DEF IInv, TypeOK, UndamagedInv, CrashNeverRefused, Recoverable, Files,
     Readable, Document
<1> QED BY <1>1, Invariance, PTL

\* A damaged state.json costs at most one acknowledged change while either file
\* can still be read.
THEOREM DamageTheorem == Spec => []DamageLosesAtMostOne
<1>1. IInv => DamageLosesAtMostOne
    BY ChangesAssumption DEF IInv, PrimaryInv, BackupInv,
     DamageLosesAtMostOne, Recoverable, Recovered, Fresh
<1> QED BY <1>1, Invariance, PTL

\* Between saves the file on disk is ahead of memory by at most one change, and
\* the caller of that change was told it failed.
THEOREM LeadTheorem == Spec => []DiskLeadsByOneFailure
<1>1. IInv => DiskLeadsByOneFailure
    BY DEF IInv, MemoryInv, PrimaryInv, LeadInv, DiskLeadsByOneFailure
<1> QED BY <1>1, Invariance, PTL

\* The state store is consistent in every reachable state: its type, the files
\* start-up accepts, memory between saves and the lead of the file on disk.
THEOREM ConsistencyTheorem == Spec => []StoreConsistent
<1>1. TypeOK /\ CrashNeverRefused /\ IdleMemoryIsAcked /\ DiskLeadsByOneFailure
        => StoreConsistent
    BY DEF StoreConsistent
<1> QED
    BY <1>1, TypeCorrect, StartupTheorem, IdleMemoryTheorem, LeadTheorem, PTL

-----------------------------------------------------------------------------
(* The durable log the store implements.                                   *)

\* What start-up restores is what it told of, until a file is damaged.
BootInv == host = "booting" /\ damage = 0 => Recovered = Told("acked")

\* With no file damaged, state.json is readable or both files are missing, and a
\* restart would load state.json: every acknowledged change and nothing unknown.
LEMMA RecoveredFacts ==
  ASSUME IInv, damage = 0
  PROVE  /\ Recovered \in SUBSET Changes
         /\ Told("acked") \subseteq Recovered
         /\ Readable(primary) => Recovered = primary.changes
         /\ primary # Corrupt /\ backup # Corrupt
         /\ primary = Missing => Recovered = {} /\ backup = Missing
         /\ Readable(primary) \/ primary = Missing
<1>1. primary \in Files /\ backup \in Files
  BY DEF IInv, TypeOK
<1>2. primary # Corrupt /\ backup # Corrupt /\ (primary = Missing => Fresh)
  BY DEF IInv, UndamagedInv
<1>3. Readable(primary) \/ primary = Missing
  BY <1>1, <1>2 DEF Files, Readable, Document
<1>4. primary = Missing => Recovered = {} /\ backup = Missing
  BY <1>2 DEF Fresh, Recovered, Readable, Missing
<1>5. Readable(primary) => Recovered = primary.changes /\ primary.changes \in SUBSET Changes
  BY <1>1 DEF Recovered, Files, Document, Missing, Corrupt, Readable
<1>6. Told("acked") \subseteq Recovered
  BY <1>2, <1>3, <1>4, <1>5 DEF IInv, PrimaryInv, Fresh
<1> QED BY <1>2, <1>3, <1>4, <1>5, <1>6

\* What a restart would load depends on the two files only.
LEMMA SameDisk ==
  ASSUME UNCHANGED disk
  PROVE  Recovered' = Recovered
BY DEF disk, Recovered, Readable

\* Copying state.json changes nothing of what a restart would load.
LEMMA RotateKeeps ==
  ASSUME IInv, damage = 0, Rotate
  PROVE  Recovered' = Recovered
BY RecoveredFacts DEF Rotate, Recovered, Readable

\* The rename of the temporary file makes the snapshot what a restart would load.
LEMMA ReplaceWrites ==
  ASSUME Replace
  PROVE  Recovered' = snapshot
BY DEF Replace, Recovered, Readable, Document

\* BootInv is inductive, given the store's invariant.
LEMMA BootStep ==
  ASSUME IInv, BootInv, [Next]_vars
  PROVE  BootInv'
<1> SUFFICES ASSUME host' = "booting", damage' = 0
             PROVE  Recovered' = Told("acked")'
  BY DEF BootInv
<1>1. CASE UNCHANGED vars
  BY <1>1, SameDisk DEF vars, BootInv, Told
<1>2. CASE (\E c \in Changes : Request(c)) \/ Begin \/ Reject \/ Crash \/ Refuse
  BY <1>2 DEF Request, Begin, Reject, Crash, Refuse
<1>3. CASE Rotate
  BY <1>3, RotateKeeps DEF Rotate, BootInv, Told
<1>4. CASE Replace
  BY <1>4, ReplaceWrites DEF Replace, IInv, MemoryInv, Told
<1>5. CASE IOError \/ Saved \/ Rollback
  BY <1>5, SameDisk DEF IOError, Saved, Rollback, BootInv, Told
<1>6. CASE Damage
  BY <1>6 DEF Damage, IInv, TypeOK
<1>7. CASE Restore
  <2>1. Recovered' = Recovered /\ damage = 0
    BY <1>7, SameDisk DEF Restore
  <2>2. Told("acked")' = Recovered
    BY <1>7, <2>1, RecoveredFacts DEF Restore, Settle, Told
  <2> QED BY <2>1, <2>2
<1>8. CASE Discard \/ Quarantine
  BY <1>8 DEF Discard, Quarantine, IInv, UndamagedInv
<1> QED BY <1>1, <1>2, <1>3, <1>4, <1>5, <1>6, <1>7, <1>8 DEF Next, Persist, Boot

\* A step that leaves what a restart would load and what callers were told is none of
\* the log.
LEMMA LogStutters ==
  ASSUME Recovered' = Recovered, outcome' = outcome
  PROVE  [Log!Next]_(Log!vars)
BY DEF Log!vars

\* Every step of the undamaged store is a step of the log or a stutter: Replace is the
\* log's write, Saved its acknowledgement, Reject and Rollback its failure.
LEMMA LogStep ==
  ASSUME IInv, BootInv, [Next]_vars, damage' = 0
  PROVE  [Log!Next]_(Log!vars)
<1>1. damage = 0
  <2>1. CASE Damage
    BY <2>1 DEF Damage, IInv, TypeOK
  <2>2. CASE ~Damage
    BY <2>2
       DEF Next, Persist, Boot, Request, Begin, Reject, Rotate, Replace, Saved, Rollback,
           IOError,
       Crash, Restore, Refuse, Discard, Quarantine, vars
  <2> QED BY <2>1, <2>2
<1>2. Log!Acked = Told("acked")
  BY DEF Log!Acked, Told
<1>3. CASE UNCHANGED vars
  BY <1>3, SameDisk, LogStutters DEF vars
<1>4. CASE Begin \/ IOError \/ Refuse
  BY <1>4, SameDisk, LogStutters DEF Begin, IOError, Refuse
<1>5. ASSUME NEW c \in Changes, Request(c)
      PROVE  Log!Next
  <2>1. Log!Ask(c)
    BY <1>5, SameDisk DEF Request, Log!Ask, Log!Tell
  <2> QED BY <2>1 DEF Log!Next
<1>6. ASSUME queue # <<>>, outcome' = [outcome EXCEPT ![Head(queue)] = "failed"], UNCHANGED disk
      PROVE  Log!Next
  <2>1. Head(queue) \in Changes /\ outcome[Head(queue)] = "queued"
    BY <1>6, PopFacts, HeadUnanswered
  <2>2. Log!Fail(Head(queue))
    BY <1>6, <2>1, SameDisk DEF Log!Fail, Log!Tell
  <2> QED BY <2>1, <2>2 DEF Log!Next
<1>7. CASE Reject
  BY <1>6, <1>7 DEF Reject, disk
<1>8. CASE Rotate
  BY <1>1, <1>8, RotateKeeps, LogStutters DEF Rotate
<1>9. CASE Replace
  <2>1. CASE host = "booting"
    BY <1>1, <1>9, <2>1, ReplaceWrites, LogStutters DEF Replace, BootInv, IInv, MemoryInv
  <2>2. CASE host = "up"
    <3>1. queue # <<>> /\ snapshot = Told("acked") \cup {Head(queue)}
      BY <1>9, <2>2 DEF Replace, IInv, ControlInv, MemoryInv
    <3>2. Log!Write(Head(queue))
      BY <1>2, <1>9, <3>1, ReplaceWrites, HeadUnanswered DEF Replace, Log!Write
    <3> QED BY <3>1, <3>2, PopFacts DEF Log!Next
  <2> QED BY <1>9, <2>1, <2>2 DEF Replace, IInv, TypeOK, ControlInv, Hosts
<1>10. CASE Saved
  <2>1. CASE host = "booting"
    BY <1>10, <2>1, SameDisk, LogStutters DEF Saved
  <2>2. CASE host = "up"
    <3>1. queue # <<>> /\ snapshot = Told("acked") \cup {Head(queue)} /\ primary = Document(snapshot)
      BY <1>1, <1>10, <2>2, RecoveredFacts
         DEF Saved, IInv, ControlInv, MemoryInv, PrimaryInv
    <3>2. Recovered = snapshot
      BY <3>1 DEF Recovered, Readable, Document
    <3>3. Log!Ack(Head(queue))
      BY <1>2, <1>10, <2>2, <3>1, <3>2, SameDisk, HeadUnanswered
         DEF Saved, Log!Ack, Log!Tell
    <3> QED BY <3>1, <3>3, PopFacts DEF Log!Next
  <2> QED BY <1>10, <2>1, <2>2 DEF Saved, IInv, TypeOK, ControlInv, Hosts
<1>11. CASE Rollback
  <2>1. CASE host = "booting"
    BY <1>11, <2>1, SameDisk, LogStutters DEF Rollback
  <2>2. CASE host = "up"
    BY <1>6, <1>11, <2>2 DEF Rollback, IInv, ControlInv
  <2> QED BY <1>11, <2>1, <2>2 DEF Rollback, IInv, TypeOK, ControlInv, Hosts
<1>12. CASE Crash
  <2>1. Log!Die
    BY <1>12, SameDisk DEF Crash, Log!Die
  <2> QED BY <2>1 DEF Log!Next
<1>13. CASE Restore
  <2>1. Told("acked") \subseteq Recovered
    BY <1>1, RecoveredFacts
  <2>2. Log!Restart
    BY <1>2, <1>13, <2>1, SameDisk DEF Restore, Settle, Log!Restart, Told
  <2> QED BY <2>2 DEF Log!Next
<1>14. CASE Discard \/ Quarantine
  BY <1>1, <1>14 DEF Discard, Quarantine, IInv, UndamagedInv
<1>15. CASE Damage
  BY <1>1, <1>15 DEF Damage
<1> QED BY <1>3, <1>4, <1>5, <1>7, <1>8, <1>9, <1>10, <1>11, <1>12, <1>13, <1>14, <1>15
        DEF Next, Persist, Boot

\* Until a file is damaged, what a restart would load and what callers were told move as
\* in a log that loses no acknowledged change: every step of the store is one of the log
\* or none.
THEOREM RefinementTheorem == Spec => ImplementsDurableLog
<1>1. Init => Log!Init /\ BootInv
  BY DEF Init, Log!Init, Recovered, Readable, Missing, BootInv
<1>2. IInv /\ BootInv /\ [Next]_vars => BootInv'
  BY BootStep
<1>3. IInv /\ BootInv /\ [Next]_vars => [damage' = 0 => [Log!Next]_(Log!vars)]_vars
  BY LogStep
<1> QED BY <1>1, <1>2, <1>3, Invariance, PTL DEF Spec, ImplementsDurableLog

-----------------------------------------------------------------------------
(* The browser's copy of the state (ClientStore).  What the host saves is  *)
(* shown by browsers; of ClientStore are all names from here on.           *)

-----------------------------------------------------------------------------
(* The browser's copy: its types.                                          *)

\* An event of the stream.
OnTheWire == [type : {"open", "revision", "activity", "routing-changed"}, value : Int]

\* What bootstrap() may answer.
ServerStates == [rev : 0..docs, doc : 0..docs, routing : Nat, act : 0..2]

\* A request, or the refresh, with what it was answered.
Exchanges == [phase : Phases, gen : Int, body : Boots]

\* A revision on the stream was given out, and activities are at most the two of a run.
StreamTyped ==
    stream # Closed =>
      /\ stream \in Seq(OnTheWire)
      /\ \A i \in 1..Len(stream) :
           /\ stream[i].type = "revision" => stream[i].value \in 0..docs
           /\ stream[i].type = "activity" => stream[i].value \in 0..2

\* A change that is being saved has the newest document, and a revision of its own.
SavingTyped ==
    saving # "no" => server.rev >= 1 /\ server.doc = docs /\ before < docs

\* The activities tell how far the run has come.
RunTyped ==
    /\ run \in {"idle", "working", "ended", "recorded"}
    /\ run = "idle" => server.act = 0
    /\ run = "working" => server.act = 1
    /\ saving = "run" => run = "ended"

\* The host as the browser sees it.
ServerTyped ==
    /\ docs \in Nat
    /\ server \in ServerStates
    /\ saving \in {"no", "foreign", "run"} \cup Requests
    /\ before \in 0..docs /\ undone \subseteq 1..docs
    /\ SavingTyped
    /\ RunTyped

\* What the browser shows and waits for.
ClientTyped ==
    /\ boot \in Boots
    /\ refresh \in Exchanges
    /\ succeeded \in BOOLEAN /\ pendingConfiguration \in BOOLEAN
    /\ pendingRevision \in Versions /\ pendingAct \in None..2
    /\ generation \in Nat

\* The requests of the browser.
RequestsTyped ==
    /\ request \in [Requests -> Exchanges]
    /\ kind \in [Requests -> Kinds]
    /\ wrote \in [Requests -> 0..docs]

\* The values of host, browser, requests and stream.
BrowserTypes == ServerTyped /\ ClientTyped /\ RequestsTyped /\ StreamTyped

-----------------------------------------------------------------------------
(* The order of the states that are shown, on the wire or saved.           *)

\* The states the browser shows or has been answered.
Copies == {NoBoot, boot, refresh.body} \cup {request[q].body : q \in Requests}

\* What a persist that rejects puts back.
FallBack == [server EXCEPT !.rev = @ - 1, !.doc = before]

\* The states that may still be shown: the copies, the host's, and its fall-back.
ServedStates == Copies \cup {server} \cup (IF saving = "no" THEN {} ELSE {FallBack})

\* Of two states the one with the earlier document has no later revision, and an
\* earlier one unless it was undone.
Older(a, b) ==
    /\ a.doc = b.doc => a.rev = b.rev
    /\ a.doc < b.doc => a.rev <= b.rev /\ (a.doc \notin undone => a.rev < b.rev)

\* Revisions order the states as their documents do.
PairsOrdered == \A a, b \in ServedStates : Older(a, b)

\* The revision of the last saved state.
SavedRevision == IF saving = "no" THEN server.rev ELSE server.rev - 1

\* No copy is ahead of the saved state by more than the change under way or undone.
BoundedBySaved ==
    \A a \in Copies :
      /\ a.rev <= SavedRevision + 1
      /\ a.doc \notin undone
           /\ (saving = "no" \/ a.doc # server.doc) => a.rev <= SavedRevision

\* What is saved, or will be put back, was not undone.
SavedStands == server.doc \notin undone /\ before \notin undone

\* The host will not fall behind the document that q wrote.
KeepsWrite(q) == wrote[q] <= (IF saving = "no" THEN server.doc ELSE before)

\* A request being saved is the newest document, one that was saved stays in the host's
\* state, and its answer holds it.
WritesKept ==
    \A q \in Requests :
      /\ saving = q => request[q].phase = "sent" /\ kind[q] \in Changing
           /\ wrote[q] = server.doc
      /\ request[q].phase = "saved" => KeepsWrite(q)
      /\ request[q].phase = "answered"
           /\ kind[q] \in Changing => request[q].body.doc >= wrote[q]

-----------------------------------------------------------------------------
(* The browser's copy: types are kept.                                     *)

\* The state before the first bootstrap is one of the types.
LEMMA BrowserNoBootTyped == docs \in Nat => NoBoot \in Boots
BY DEF NoBoot, Boots, Versions, None

\* So is a request that was not sent.
LEMMA BrowserIdleTyped == docs \in Nat => Idle \in Exchanges
BY BrowserNoBootTyped DEF Idle, Exchanges, Phases, None

\* The host's state is one that can be shown.
LEMMA BrowserHostShown ==
    ASSUME docs \in Nat, server \in ServerStates
    PROVE  server \in Boots
BY DEF ServerStates, Boots, Versions, None

\* Later documents make the types larger.
LEMMA BrowserTypesGrow ==
    ASSUME docs \in Nat, docs' \in Nat, docs' >= docs
    PROVE  /\ Versions \subseteq Versions'
           /\ Boots \subseteq Boots'
           /\ Exchanges \subseteq Exchanges'
<1>1. Versions \subseteq Versions'
  BY DEF Versions, None
<1>2. Boots \subseteq Boots'
  BY <1>1 DEF Boots
<1>3. Exchanges \subseteq Exchanges'
  BY <1>2 DEF Exchanges, Phases
<1> QED BY <1>1, <1>2, <1>3

\* What a step that leaves the browser and the documents alone keeps.
LEMMA BrowserCopiesTyped ==
    ASSUME ClientTyped, docs \in Nat, docs' \in Nat, docs' >= docs, UNCHANGED clientVars
    PROVE  ClientTyped'
<1> Boots \subseteq Boots' /\ Exchanges \subseteq Exchanges' /\ Versions \subseteq Versions'
  BY BrowserTypesGrow
<1> QED
  BY DEF ClientTyped, clientVars, pending

\* Requests that are left alone stay typed when there are more documents.
LEMMA BrowserRequestsGrow ==
    ASSUME RequestsTyped, docs \in Nat, docs' \in Nat, docs' >= docs, UNCHANGED asked
    PROVE  RequestsTyped'
<1>1. Exchanges \subseteq Exchanges' /\ 0..docs \subseteq 0..docs'
  BY BrowserTypesGrow
<1>2. request' \in [Requests -> Exchanges']
  BY <1>1 DEF RequestsTyped, asked
<1> QED
  BY <1>1, <1>2 DEF RequestsTyped, asked

\* So does the stream.
LEMMA BrowserStreamGrows ==
    ASSUME StreamTyped, docs \in Nat, docs' \in Nat, docs' >= docs, UNCHANGED stream
    PROVE  StreamTyped'
BY DEF StreamTyped

\* What is broadcast is typed.
LEMMA BrowserBroadcast ==
    ASSUME StreamTyped, UNCHANGED docs, docs \in Nat,
           NEW events \in Seq(OnTheWire),
           \A i \in 1..Len(events) :
             /\ events[i].type = "revision" => events[i].value \in 0..docs
             /\ events[i].type = "activity" => events[i].value \in 0..2,
           Broadcast(events)
    PROVE  StreamTyped'
<1>1. CASE stream = Closed
  BY <1>1 DEF Broadcast, Live, StreamTyped
<1>2. CASE stream # Closed
  <2>1. stream \in Seq(OnTheWire) /\ stream' = stream \o events
    BY <1>2 DEF Broadcast, Live, StreamTyped
  <2>2. stream' \in Seq(OnTheWire)
    BY <2>1
  <2>3. ASSUME NEW i \in 1..Len(stream')
        PROVE  /\ stream'[i].type = "revision" => stream'[i].value \in 0..docs
               /\ stream'[i].type = "activity" => stream'[i].value \in 0..2
    <3>1. CASE i <= Len(stream)
      <4>1. stream'[i] = stream[i] /\ i \in 1..Len(stream)
        BY <2>1, <2>3, <3>1
      <4> QED BY <4>1, <1>2 DEF StreamTyped
    <3>2. CASE i > Len(stream)
      <4>1. stream'[i] = events[i - Len(stream)] /\ i - Len(stream) \in 1..Len(events)
        BY <2>1, <2>3, <3>2
      <4> QED BY <4>1
    <3> QED BY <3>1, <3>2, <2>1, <2>3
  <2> QED BY <2>2, <2>3 DEF StreamTyped
<1> QED BY <1>1, <1>2

\* Init establishes the types.
LEMMA BrowserInit ==
    ASSUME MixesAssumption, ClientInit
    PROVE  BrowserTypes
<1>1. docs = 0 /\ NoBoot \in Boots /\ Idle \in Exchanges
  BY BrowserNoBootTyped, BrowserIdleTyped DEF ClientInit
<1>2. ServerTyped
  BY <1>1 DEF ClientInit, ServerTyped, ServerStates, SavingTyped, RunTyped
<1>3. ClientTyped
  <2>1. boot \in Boots /\ refresh \in Exchanges
    BY <1>1 DEF ClientInit
  <2>2. pendingRevision \in Versions /\ pendingAct \in None..2
    BY <1>1 DEF ClientInit, Versions, None
  <2> QED
    BY <2>1, <2>2 DEF ClientInit, ClientTyped
<1>4. RequestsTyped
  BY <1>1 DEF ClientInit, RequestsTyped, MixesAssumption
<1>5. StreamTyped
  BY DEF ClientInit, StreamTyped
<1> QED BY <1>2, <1>3, <1>4, <1>5 DEF BrowserTypes

\* A change that begins keeps the types of host and stream.
LEMMA BrowserBeginChange ==
    ASSUME BrowserTypes, MixesAssumption, NEW who \in {"foreign", "run"} \cup Requests,
           BeginChange(who), who = "run" => run = "ended"
    PROVE  /\ ServerTyped' /\ StreamTyped'
           /\ docs' = docs + 1 /\ docs \in Nat /\ docs' \in Nat
<1>1. docs \in Nat /\ docs' = docs + 1 /\ docs' \in Nat
  BY DEF BrowserTypes, ServerTyped, BeginChange
<1>2. StreamTyped'
  BY <1>1, BrowserStreamGrows DEF BrowserTypes, BeginChange
<1>3. server' = [server EXCEPT !.rev = server.rev + 1, !.doc = docs + 1]
        /\ server \in ServerStates
  BY DEF BeginChange, BrowserTypes, ServerTyped
<1>4. server' \in ServerStates'
  <2>1. server \in [rev : 0..docs, doc : 0..docs, routing : Nat, act : 0..2]
    BY <1>3 DEF ServerStates
  <2>2. /\ server.rev + 1 \in 0..docs' /\ docs + 1 \in 0..docs'
        /\ server.routing \in Nat /\ server.act \in 0..2
    BY <1>1, <2>1
  <2>3. server' = [rev |-> server.rev + 1, doc |-> docs + 1, routing |-> server.routing,
                 act |-> server.act]
    BY <1>3, <2>1
  <2> QED
    BY <2>2, <2>3 DEF ServerStates
<1>5. SavingTyped'
  BY <1>1, <1>3 DEF SavingTyped, ServerStates, BeginChange
<1>6. RunTyped'
  BY <1>1, <1>3 DEF RunTyped, ServerStates, BeginChange, BrowserTypes, ServerTyped,
       MixesAssumption
<1>7. before' \in 0..docs' /\ undone' \subseteq 1..docs' /\ saving' = who
  BY <1>1, <1>3 DEF ServerStates, BeginChange, BrowserTypes, ServerTyped
<1> QED BY <1>1, <1>2, <1>4, <1>5, <1>6, <1>7 DEF ServerTyped

\* ForeignChange keeps the types.
LEMMA BrowserForeignChange ==
    ASSUME BrowserTypes, MixesAssumption, ForeignChange
    PROVE  BrowserTypes'
<1>1. ServerTyped' /\ StreamTyped' /\ docs' = docs + 1 /\ docs \in Nat /\ docs' \in Nat
  BY BrowserBeginChange DEF ForeignChange
<1> QED
  BY <1>1, BrowserCopiesTyped, BrowserRequestsGrow DEF BrowserTypes, ForeignChange

\* RunRecords keeps the types.
LEMMA BrowserRunRecords ==
    ASSUME BrowserTypes, MixesAssumption, RunRecords
    PROVE  BrowserTypes'
<1>1. ServerTyped' /\ StreamTyped' /\ docs' = docs + 1 /\ docs \in Nat /\ docs' \in Nat
  BY BrowserBeginChange DEF RunRecords
<1> QED
  BY <1>1, BrowserCopiesTyped, BrowserRequestsGrow DEF BrowserTypes, RunRecords

\* BeginRequest keeps the types.
LEMMA BrowserBeginRequest ==
    ASSUME BrowserTypes, MixesAssumption, NEW q \in Requests, BeginRequest(q)
    PROVE  BrowserTypes'
<1>0. q # "run"
  BY DEF MixesAssumption
<1>1. ServerTyped' /\ StreamTyped' /\ docs' = docs + 1 /\ docs \in Nat /\ docs' \in Nat
  BY <1>0, BrowserBeginChange DEF BeginRequest
<1>2. ClientTyped'
  BY <1>1, BrowserCopiesTyped DEF BrowserTypes, BeginRequest
<1>3. Exchanges \subseteq Exchanges'
  BY <1>1, BrowserTypesGrow
<1>4. request' \in [Requests -> Exchanges']
  BY <1>3 DEF BrowserTypes, RequestsTyped, BeginRequest
<1>5. wrote' \in [Requests -> 0..docs'] /\ kind' \in [Requests -> Kinds]
  BY <1>1 DEF BrowserTypes, RequestsTyped, BeginRequest
<1> QED
  BY <1>1, <1>2, <1>4, <1>5 DEF BrowserTypes, RequestsTyped

\* A step that leaves the documents where they are.
LEMMA BrowserSameDocuments ==
    ASSUME docs \in Nat, UNCHANGED docs
    PROVE  /\ (ClientTyped /\ UNCHANGED clientVars => ClientTyped')
           /\ (RequestsTyped /\ UNCHANGED asked => RequestsTyped')
           /\ (StreamTyped /\ UNCHANGED stream => StreamTyped')
           /\ Boots' = Boots /\ Exchanges' = Exchanges /\ Versions' = Versions
           /\ ServerStates' = ServerStates
<1>1. Boots' = Boots /\ Exchanges' = Exchanges /\ Versions' = Versions
        /\ ServerStates' = ServerStates
  BY DEF Boots, Exchanges, Versions, ServerStates
<1> QED
  BY <1>1, BrowserCopiesTyped, BrowserRequestsGrow, BrowserStreamGrows

\* A step that leaves the host alone keeps its types.
LEMMA BrowserSameHost ==
    ASSUME BrowserTypes, UNCHANGED hostVars
    PROVE  ServerTyped' /\ docs \in Nat /\ UNCHANGED docs
BY DEF BrowserTypes, ServerTyped, SavingTyped, RunTyped, hostVars, ServerStates

\* The two sequences of events that a commit broadcasts.
LEMMA BrowserConcatenation ==
    ASSUME NEW a \in OnTheWire, NEW b \in OnTheWire
    PROVE  /\ <<>> \o <<b>> = <<b>>
           /\ \A i \in 1..Len(<<a>> \o <<b>>) : (<<a>> \o <<b>>)[i] \in {a, b}
<1>1. /\ <<a>> \in Seq(OnTheWire) /\ <<b>> \in Seq(OnTheWire) /\ <<>> \in Seq(OnTheWire)
      /\ Len(<<a>>) = 1 /\ Len(<<b>>) = 1 /\ Len(<<>>) = 0
  OBVIOUS
<1> QED BY <1>1

\* Commit keeps the types.
LEMMA BrowserCommit == ASSUME BrowserTypes, MixesAssumption, Commit PROVE BrowserTypes'
<1>1. docs \in Nat /\ UNCHANGED <<docs, before, undone>> /\ saving # "no" /\ saving' = "no"
  BY DEF BrowserTypes, ServerTyped, Commit
<1> DEFINE removes == saving \in Requests /\ kind[saving] = "remove-agent"
           events == (IF removes THEN <<Event("routing-changed", None)>> ELSE <<>>)
                      \o <<Event("revision", server.rev)>>
<1>2. /\ server' = [server EXCEPT !.routing = IF removes THEN server.routing + 1 ELSE server.routing]
      /\ Broadcast(events)
  BY DEF Commit
<1>3. server \in ServerStates /\ server.rev \in 0..docs /\ server.routing \in Nat
  BY DEF BrowserTypes, ServerTyped, ServerStates
<1>4. server' \in ServerStates /\ server'.act = server.act
  BY <1>2, <1>3 DEF ServerStates
<1>5. ServerTyped'
  <2>1. SavingTyped'
    BY <1>1 DEF SavingTyped
  <2>2. RunTyped'
    BY <1>1, <1>4 DEF RunTyped, Commit, BrowserTypes, ServerTyped
  <2> QED
    BY <1>1, <1>4, <2>1, <2>2, BrowserSameDocuments DEF ServerTyped, BrowserTypes
<1>6. StreamTyped'
  <2>1. /\ Event("routing-changed", None) \in OnTheWire
        /\ Event("revision", server.rev) \in OnTheWire
    BY <1>3 DEF Event, OnTheWire, None
  <2>2. events \in Seq(OnTheWire)
    BY <2>1
  <2>3. \A i \in 1..Len(events) :
           events[i] = Event("routing-changed", None)
             \/ events[i] = Event("revision", server.rev)
    <3>1. CASE removes
      <4>1. events = <<Event("routing-changed", None)>> \o <<Event("revision", server.rev)>>
        BY <3>1
      <4> HIDE DEF events, removes
      <4> QED BY <2>1, <4>1, BrowserConcatenation
    <3>2. CASE ~removes
      <4>1. events = <<Event("revision", server.rev)>>
        BY <2>1, <3>2, BrowserConcatenation
      <4> QED BY <4>1
    <3> QED BY <3>1, <3>2
  <2>4. \A i \in 1..Len(events) :
           /\ events[i].type = "revision" => events[i].value \in 0..docs
           /\ events[i].type = "activity" => events[i].value \in 0..2
    BY <2>3, <1>3 DEF Event
  <2> HIDE DEF events
  <2> QED
    BY <1>1, <1>2, <2>2, <2>4, BrowserBroadcast DEF BrowserTypes
<1>7. RequestsTyped'
  <2>1. \A q \in Requests : request'[q] \in Exchanges
    BY DEF Commit, BrowserTypes, RequestsTyped, Exchanges, Phases
  <2>2. request' \in [Requests -> Exchanges']
    BY <1>1, <2>1, BrowserSameDocuments DEF Commit
  <2> QED
    BY <1>1, <2>2 DEF BrowserTypes, RequestsTyped, Commit
<1> QED
  BY <1>1, <1>5, <1>6, <1>7, BrowserSameDocuments DEF BrowserTypes, Commit

\* RejectChange keeps the types: the revision it takes back was given out.
LEMMA BrowserReject ==
    ASSUME BrowserTypes, MixesAssumption, RejectChange
    PROVE  BrowserTypes'
<1>1. /\ docs \in Nat /\ UNCHANGED <<docs, before, stream>> /\ saving # "no"
           /\ saving' = "no"
      /\ UNCHANGED clientVars
  BY DEF BrowserTypes, ServerTyped, RejectChange
<1>2. /\ server' = [server EXCEPT !.rev = server.rev - 1, !.doc = before]
      /\ undone' = undone \cup {server.doc}
  BY DEF RejectChange
<1>3. server \in ServerStates /\ server.rev >= 1 /\ server.doc = docs /\ before \in 0..docs
        /\ before < docs
  BY <1>1 DEF BrowserTypes, ServerTyped, SavingTyped
<1>4. server' \in ServerStates /\ server'.act = server.act
  <2>1. server \in [rev : 0..docs, doc : 0..docs, routing : Nat, act : 0..2]
    BY <1>3 DEF ServerStates
  <2>2. server' = [rev |-> server.rev - 1, doc |-> before, routing |-> server.routing,
                 act |-> server.act]
    BY <1>2, <2>1
  <2>3. server.rev - 1 \in 0..docs
    BY <1>1, <1>3, <2>1
  <2> QED
    BY <1>3, <2>1, <2>2, <2>3 DEF ServerStates
<1>5. ServerTyped'
  <2>1. SavingTyped'
    BY <1>1 DEF SavingTyped
  <2>2. RunTyped'
    BY <1>1, <1>4 DEF RunTyped, RejectChange, BrowserTypes, ServerTyped
  <2>3. undone' \subseteq 1..docs'
    BY <1>1, <1>2, <1>3 DEF BrowserTypes, ServerTyped
  <2> QED
    BY <1>1, <1>4, <2>1, <2>2, <2>3, BrowserSameDocuments DEF ServerTyped, BrowserTypes
<1>6. RequestsTyped'
  <2>1. \A q \in Requests : request'[q] \in Exchanges
    BY DEF RejectChange, BrowserTypes, RequestsTyped, Exchanges, Phases
  <2>2. request' \in [Requests -> Exchanges']
    BY <1>1, <2>1, BrowserSameDocuments DEF RejectChange
  <2> QED
    BY <1>1, <2>2 DEF BrowserTypes, RequestsTyped, RejectChange
<1> QED
  BY <1>1, <1>5, <1>6, BrowserSameDocuments DEF BrowserTypes

\* The event of a routing change is typed.
LEMMA BrowserRoutingEvent ==
    ASSUME BrowserTypes, Broadcast(<<Event("routing-changed", None)>>), UNCHANGED docs
    PROVE  StreamTyped'
<1> DEFINE e == Event("routing-changed", None)
<1>1. e \in OnTheWire /\ e.type = "routing-changed"
  BY DEF Event, OnTheWire, None
<1> HIDE DEF e
<1>2. <<e>> \in Seq(OnTheWire) /\ \A i \in 1..Len(<<e>>) : <<e>>[i] = e
  BY <1>1
<1>3. Broadcast(<<e>>)
  BY DEF e
<1> QED
  BY <1>1, <1>2, <1>3, BrowserBroadcast DEF BrowserTypes, ServerTyped

\* A routing change keeps the types of the host.
LEMMA BrowserRoutingUp ==
    ASSUME BrowserTypes, server' = [server EXCEPT !.routing = server.routing + 1],
           UNCHANGED <<saving, before, docs, undone, run>>
    PROVE  ServerTyped' /\ server' \in ServerStates
<1>1. server' \in ServerStates /\ server'.act = server.act /\ server'.rev = server.rev
        /\ server'.doc = server.doc
  BY DEF BrowserTypes, ServerTyped, ServerStates
<1> QED
  BY <1>1 DEF BrowserTypes, ServerTyped, ServerStates, SavingTyped, RunTyped

\* RoutingChange keeps the types.
LEMMA BrowserRoutingChange == ASSUME BrowserTypes, RoutingChange PROVE BrowserTypes'
<1>1. docs \in Nat /\ UNCHANGED docs
  BY DEF BrowserTypes, ServerTyped, RoutingChange
<1> QED
  BY <1>1, BrowserRoutingUp, BrowserRoutingEvent, BrowserSameDocuments
     DEF BrowserTypes, RoutingChange

\* A request replaced by a typed one leaves the requests typed.
LEMMA BrowserAskedChanges ==
    ASSUME BrowserTypes, UNCHANGED docs, NEW q \in Requests, NEW r \in Exchanges,
           request' = [request EXCEPT ![q] = r], UNCHANGED <<kind, wrote>>
    PROVE  RequestsTyped'
<1>1. Exchanges' = Exchanges /\ docs' = docs
  BY BrowserSameDocuments DEF BrowserTypes, ServerTyped
<1> QED
  BY <1>1 DEF BrowserTypes, RequestsTyped

\* SaveRouting keeps the types.
LEMMA BrowserSaveRouting ==
    ASSUME BrowserTypes, NEW q \in Requests, SaveRouting(q)
    PROVE  BrowserTypes'
<1>1. docs \in Nat /\ UNCHANGED docs /\ UNCHANGED clientVars
  BY DEF BrowserTypes, ServerTyped, SaveRouting
<1>2. ServerTyped' /\ StreamTyped' /\ server' \in ServerStates
  BY BrowserRoutingUp, BrowserRoutingEvent DEF SaveRouting
<1>3. server' \in Boots
  BY <1>1, <1>2 DEF ServerStates, Boots, Versions, None
<1> DEFINE r == [request[q] EXCEPT !.phase = "answered", !.body = server']
<1>4. r \in Exchanges
  BY <1>3 DEF BrowserTypes, RequestsTyped, Exchanges, Phases
<1>5. request' = [request EXCEPT ![q] = r]
  BY DEF SaveRouting, BrowserTypes, RequestsTyped
<1> HIDE DEF r
<1>6. RequestsTyped'
  BY <1>1, <1>4, <1>5, BrowserAskedChanges DEF SaveRouting
<1> QED
  BY <1>1, <1>2, <1>6, BrowserSameDocuments DEF BrowserTypes

\* RunWorks keeps the types.
LEMMA BrowserRunWorks ==
    ASSUME BrowserTypes, MixesAssumption, RunWorks
    PROVE  BrowserTypes'
<1>1. docs \in Nat /\ UNCHANGED docs
  BY DEF BrowserTypes, ServerTyped, RunWorks
<1>2. /\ server \in ServerStates /\ server' = [server EXCEPT !.act = server.act + 1]
      /\ run = "idle" => server.act = 0
      /\ run = "working" => server.act = 1
      /\ \/ run = "idle" /\ run' = "working"
         \/ run = "working" /\ run' = "ended"
  BY DEF BrowserTypes, ServerTyped, RunTyped, RunWorks
<1>3. /\ server' \in ServerStates /\ server'.act = server.act + 1 /\ server'.act \in 0..2
      /\ server'.rev = server.rev /\ server'.doc = server.doc
  BY <1>2 DEF ServerStates
<1>4. ServerTyped'
  BY <1>1, <1>2, <1>3 DEF BrowserTypes, ServerTyped, ServerStates, SavingTyped, RunTyped,
       RunWorks
<1>5. StreamTyped'
  <2> DEFINE e == Event("activity", server.act + 1)
  <2>1. e \in OnTheWire /\ e.type = "activity" /\ e.value \in 0..2
    BY <1>3 DEF Event, OnTheWire
  <2>2. Broadcast(<<e>>)
    BY DEF RunWorks
  <2> HIDE DEF e
  <2>3. <<e>> \in Seq(OnTheWire) /\ \A i \in 1..Len(<<e>>) : <<e>>[i] = e
    BY <2>1
  <2> QED
    BY <1>1, <2>1, <2>2, <2>3, BrowserBroadcast DEF BrowserTypes
<1> QED
  BY <1>1, <1>4, <1>5, BrowserSameDocuments DEF BrowserTypes, RunWorks

\* Answer keeps the types.
LEMMA BrowserAnswer ==
    ASSUME BrowserTypes, NEW q \in Requests, Answer(q)
    PROVE  BrowserTypes'
<1>1. ServerTyped' /\ docs \in Nat /\ UNCHANGED docs
  BY BrowserSameHost DEF Answer
<1>2. server \in Boots
  BY BrowserHostShown DEF BrowserTypes, ServerTyped
<1> DEFINE r == [request[q] EXCEPT !.phase = "answered", !.body = server]
<1>3. r \in Exchanges
  BY <1>2 DEF BrowserTypes, RequestsTyped, Exchanges, Phases
<1>4. request' = [request EXCEPT ![q] = r]
  BY DEF Answer, BrowserTypes, RequestsTyped
<1> HIDE DEF r
<1>5. RequestsTyped'
  BY <1>1, <1>3, <1>4, BrowserAskedChanges DEF Answer
<1> QED
  BY <1>1, <1>5, BrowserSameDocuments DEF BrowserTypes, Answer

\* AnswerRefresh keeps the types.
LEMMA BrowserAnswerRefresh == ASSUME BrowserTypes, AnswerRefresh PROVE BrowserTypes'
<1>1. ServerTyped' /\ docs \in Nat /\ UNCHANGED docs
  BY BrowserSameHost DEF AnswerRefresh
<1>2. server \in Boots
  BY BrowserHostShown DEF BrowserTypes, ServerTyped
<1>3. refresh' \in Exchanges
  BY <1>2 DEF AnswerRefresh, BrowserTypes, ClientTyped, Exchanges, Phases
<1>4. ClientTyped'
  BY <1>1, <1>3, BrowserSameDocuments DEF BrowserTypes, ClientTyped, AnswerRefresh,
       pending
<1> QED
  BY <1>1, <1>4, BrowserSameDocuments DEF BrowserTypes, AnswerRefresh

\* What is merged is one of the two, with the routing of one of the two.
LEMMA BrowserMerges ==
    ASSUME docs \in Nat, boot \in Boots, NEW candidate \in Boots, NEW gen
    PROVE  /\ mergeBootstrap(candidate, gen) \in Boots
           /\ \/ /\ mergeBootstrap(candidate, gen).doc = candidate.doc
                 /\ mergeBootstrap(candidate, gen).rev = candidate.rev
                 /\ boot = NoBoot \/ candidate.rev >= boot.rev
              \/ /\ mergeBootstrap(candidate, gen).doc = boot.doc
                 /\ mergeBootstrap(candidate, gen).rev = boot.rev
                 /\ candidate.rev < boot.rev
<1>1. CASE boot = NoBoot
  BY <1>1 DEF mergeBootstrap
<1>2. CASE boot # NoBoot
  <2> DEFINE pick == IF candidate.rev < boot.rev THEN boot ELSE candidate
             route == IF gen = generation' THEN candidate.routing ELSE boot.routing
  <2>1. mergeBootstrap(candidate, gen) = [pick EXCEPT !.routing = route]
    BY <1>2 DEF mergeBootstrap
  <2>2. pick \in Boots /\ route \in Nat \cup {None}
    BY DEF Boots
  <2>3. /\ [pick EXCEPT !.routing = route] \in Boots
        /\ [pick EXCEPT !.routing = route].doc = pick.doc
        /\ [pick EXCEPT !.routing = route].rev = pick.rev
    <3> HIDE DEF pick, route
    <3> QED BY <2>2 DEF Boots
  <2>4. candidate.rev \in Int /\ boot.rev \in Int
    BY DEF Boots, Versions, None
  <2> QED BY <2>1, <2>3, <2>4
<1> QED BY <1>1, <1>2

\* refresh() keeps the types, and the body of the refresh in flight.
LEMMA BrowserRefresh ==
    ASSUME BrowserTypes, UNCHANGED docs, NEW wanted \in BOOLEAN, Refresh(wanted),
           generation' \in Nat
    PROVE  /\ refresh' \in Exchanges' /\ pendingConfiguration' \in BOOLEAN
           /\ refresh'.body = refresh.body \/ refresh'.body = NoBoot
<1>1. docs \in Nat /\ Exchanges' = Exchanges /\ NoBoot \in Boots
  BY BrowserSameDocuments, BrowserNoBootTyped DEF BrowserTypes, ServerTyped
<1>2. CASE refresh.phase = "idle"
  <2>1. refresh' = [phase |-> "sent", gen |-> generation', body |-> NoBoot]
    BY <1>2 DEF Refresh
  <2>2. refresh' \in Exchanges
    BY <1>1, <2>1 DEF Exchanges, Phases
  <2> QED BY <1>1, <1>2, <2>1, <2>2 DEF Refresh
<1>3. CASE refresh.phase # "idle"
  BY <1>1, <1>3 DEF Refresh, BrowserTypes, ClientTyped
<1> QED BY <1>2, <1>3

\* The end of a refresh keeps the types and drops its body.
LEMMA BrowserEndRefresh ==
    ASSUME BrowserTypes, UNCHANGED docs, NEW ok \in BOOLEAN, EndRefresh(ok),
           boot' \in Boots'
    PROVE  /\ refresh' \in Exchanges' /\ pendingConfiguration' \in BOOLEAN
           /\ pendingRevision' \in Versions' /\ succeeded' \in BOOLEAN
           /\ refresh'.body = NoBoot
<1>1. docs \in Nat /\ Exchanges' = Exchanges /\ Versions' = Versions /\ NoBoot \in Boots
        /\ Idle \in Exchanges
  BY BrowserSameDocuments, BrowserNoBootTyped, BrowserIdleTyped
     DEF BrowserTypes, ServerTyped
<1>2. pendingRevision' \in Versions'
  BY <1>1 DEF EndRefresh, BrowserTypes, ClientTyped, Versions, None
<1> DEFINE again == ok /\ (pendingRevision' # None \/ pendingConfiguration)
<1>3. CASE again
  <2>1. /\ refresh' = [phase |-> "sent", gen |-> generation, body |-> NoBoot]
        /\ pendingConfiguration' = FALSE
    BY <1>3 DEF EndRefresh
  <2>2. refresh' \in Exchanges
    BY <1>1, <2>1 DEF Exchanges, Phases, BrowserTypes, ClientTyped
  <2> QED BY <1>1, <1>2, <2>1, <2>2 DEF EndRefresh
<1>4. CASE ~again
  <2>1. refresh' = Idle /\ UNCHANGED pendingConfiguration
    BY <1>4 DEF EndRefresh
  <2> QED BY <1>1, <1>2, <2>1 DEF EndRefresh, BrowserTypes, ClientTyped, Idle
<1> QED BY <1>3, <1>4

\* RefreshLands keeps the types and merges what the refresh was answered.
LEMMA BrowserRefreshLands ==
    ASSUME BrowserTypes, RefreshLands
    PROVE  /\ BrowserTypes'
           /\ \E candidate \in Boots :
                /\ candidate.doc = refresh.body.doc /\ candidate.rev = refresh.body.rev
                /\ boot' = mergeBootstrap(candidate, refresh.gen)
           /\ refresh'.body = NoBoot
<1>1. ServerTyped' /\ docs \in Nat /\ UNCHANGED docs
  BY BrowserSameHost DEF RefreshLands
<1> DEFINE body == IF pendingAct = None THEN refresh.body
                   ELSE [refresh.body EXCEPT !.act = pendingAct]
<1>2. refresh.body \in Boots /\ boot \in Boots /\ pendingAct \in None..2
  BY DEF BrowserTypes, ClientTyped, Exchanges
<1>3. body \in Boots /\ body.doc = refresh.body.doc /\ body.rev = refresh.body.rev
  BY <1>2 DEF Boots
<1>4. boot' = mergeBootstrap(body, refresh.gen)
  BY DEF RefreshLands
<1> HIDE DEF body
<1>5. boot' \in Boots /\ Boots' = Boots /\ Versions' = Versions
  BY <1>1, <1>2, <1>3, <1>4, BrowserMerges, BrowserSameDocuments
<1>6. /\ refresh' \in Exchanges' /\ pendingConfiguration' \in BOOLEAN
      /\ pendingRevision' \in Versions' /\ succeeded' \in BOOLEAN
      /\ refresh'.body = NoBoot
  BY <1>1, <1>5, BrowserEndRefresh DEF RefreshLands
<1>7. generation' \in Nat /\ pendingAct' \in None..2
  BY DEF RefreshLands, BrowserTypes, ClientTyped, None
<1>8. ClientTyped'
  BY <1>5, <1>6, <1>7 DEF ClientTyped
<1> QED
  BY <1>1, <1>3, <1>4, <1>6, <1>8, BrowserSameDocuments DEF BrowserTypes, RefreshLands

\* RefreshFails keeps the types.
LEMMA BrowserRefreshFails ==
    ASSUME BrowserTypes, RefreshFails
    PROVE  BrowserTypes' /\ refresh'.body = NoBoot
<1>1. ServerTyped' /\ docs \in Nat /\ UNCHANGED docs
  BY BrowserSameHost DEF RefreshFails
<1>2. boot' \in Boots' /\ generation' \in Nat /\ pendingAct' \in None..2
  BY <1>1, BrowserSameDocuments DEF RefreshFails, BrowserTypes, ClientTyped
<1>3. /\ refresh' \in Exchanges' /\ pendingConfiguration' \in BOOLEAN
      /\ pendingRevision' \in Versions' /\ succeeded' \in BOOLEAN
      /\ refresh'.body = NoBoot
  BY <1>1, <1>2, BrowserEndRefresh DEF RefreshFails
<1>4. ClientTyped'
  BY <1>2, <1>3 DEF ClientTyped
<1> QED
  BY <1>1, <1>3, <1>4, BrowserSameDocuments DEF BrowserTypes, RefreshFails

\* Connect keeps the types: the three events it begins with are typed.
LEMMA BrowserConnect == ASSUME BrowserTypes, Connect PROVE BrowserTypes'
<1>1. ServerTyped' /\ docs \in Nat /\ UNCHANGED docs
  BY BrowserSameHost DEF Connect
<1> DEFINE a == Event("open", None)
           b == Event("revision", server.rev)
           c == Event("activity", server.act)
<1>2. /\ a \in OnTheWire /\ b \in OnTheWire /\ c \in OnTheWire
      /\ a.type = "open" /\ b.type = "revision" /\ b.value \in 0..docs
      /\ c.type = "activity" /\ c.value \in 0..2
  BY DEF Event, OnTheWire, None, BrowserTypes, ServerTyped, ServerStates
<1>3. stream' = <<a, b, c>>
  BY DEF Connect
<1> HIDE DEF a, b, c
<1>4. StreamTyped'
  <2>1. stream' \in Seq(OnTheWire) /\ Len(stream') = 3
    BY <1>2, <1>3
  <2>2. \A i \in 1..Len(stream') : stream'[i] = a \/ stream'[i] = b \/ stream'[i] = c
    BY <1>3, <2>1
  <2> QED
    BY <1>1, <1>2, <2>1, <2>2 DEF StreamTyped
<1> QED
  BY <1>1, <1>4, BrowserSameDocuments DEF BrowserTypes, Connect

\* Drop keeps the types.
LEMMA BrowserDrop == ASSUME BrowserTypes, Drop PROVE BrowserTypes'
<1>1. ServerTyped' /\ docs \in Nat /\ UNCHANGED docs
  BY BrowserSameHost DEF Drop
<1>2. StreamTyped'
  BY DEF Drop, StreamTyped
<1> QED
  BY <1>1, <1>2, BrowserSameDocuments DEF BrowserTypes, Drop

\* An event that is handled leaves the stream.
LEMMA BrowserTail ==
    ASSUME BrowserTypes, UNCHANGED docs, Live, stream # <<>>, stream' = Tail(stream)
    PROVE  /\ StreamTyped'
           /\ Head(stream).type = "revision" => Head(stream).value \in 0..docs
           /\ Head(stream).type = "activity" => Head(stream).value \in 0..2
<1>1. /\ stream \in Seq(OnTheWire) /\ docs' = docs
      /\ \A i \in 1..Len(stream) :
           /\ stream[i].type = "revision" => stream[i].value \in 0..docs
           /\ stream[i].type = "activity" => stream[i].value \in 0..2
  BY DEF BrowserTypes, StreamTyped, Live
<1>2. Head(stream) = stream[1] /\ 1 \in 1..Len(stream)
  BY <1>1
<1>3. stream' \in Seq(OnTheWire) /\ Len(stream') = Len(stream) - 1
  BY <1>1
<1>4. \A i \in 1..Len(stream') : stream'[i] = stream[i + 1] /\ i + 1 \in 1..Len(stream)
  BY <1>1, <1>3
<1>5. StreamTyped'
  BY <1>1, <1>3, <1>4 DEF StreamTyped
<1> QED BY <1>1, <1>2, <1>5

\* ConfigurationEvent keeps the types.
LEMMA BrowserConfigurationEvent ==
    ASSUME BrowserTypes, ConfigurationEvent
    PROVE  BrowserTypes' /\ refresh'.body \in {refresh.body, NoBoot}
<1>1. ServerTyped' /\ docs \in Nat /\ UNCHANGED docs
  BY BrowserSameHost DEF ConfigurationEvent
<1>2. StreamTyped'
  BY <1>1, BrowserTail DEF ConfigurationEvent
<1>3. generation' \in Nat
  BY DEF ConfigurationEvent, BrowserTypes, ClientTyped
<1>4. /\ refresh' \in Exchanges' /\ pendingConfiguration' \in BOOLEAN
      /\ refresh'.body \in {refresh.body, NoBoot}
  BY <1>1, <1>3, BrowserRefresh DEF ConfigurationEvent
<1>5. ClientTyped'
  BY <1>1, <1>3, <1>4, BrowserSameDocuments DEF BrowserTypes, ClientTyped,
       ConfigurationEvent
<1> QED
  BY <1>1, <1>2, <1>4, <1>5, BrowserSameDocuments DEF BrowserTypes, ConfigurationEvent

\* RevisionEvent keeps the types.
LEMMA BrowserRevisionEvent ==
    ASSUME BrowserTypes, RevisionEvent
    PROVE  BrowserTypes' /\ refresh'.body \in {refresh.body, NoBoot}
<1>1. ServerTyped' /\ docs \in Nat /\ UNCHANGED docs
  BY BrowserSameHost DEF RevisionEvent
<1>2. StreamTyped' /\ Head(stream).value \in 0..docs
  BY <1>1, BrowserTail DEF RevisionEvent
<1>3. generation' \in Nat
  BY DEF RevisionEvent, BrowserTypes, ClientTyped
<1>4. /\ refresh' \in Exchanges' /\ pendingConfiguration' \in BOOLEAN
      /\ refresh'.body \in {refresh.body, NoBoot}
  <2>1. CASE Head(stream).value <= boot.rev
    BY <1>1, <2>1, BrowserSameDocuments DEF RevisionEvent, BrowserTypes, ClientTyped
  <2>2. CASE ~(Head(stream).value <= boot.rev)
    BY <1>1, <1>3, <2>2, BrowserRefresh DEF RevisionEvent
  <2> QED BY <2>1, <2>2
<1>5. pendingRevision' \in Versions'
  <2>1. Head(stream).value \in Versions /\ pendingRevision \in Versions
          /\ Versions' = Versions
    BY <1>1, <1>2, BrowserSameDocuments DEF Versions, None, BrowserTypes, ClientTyped
  <2> QED BY <2>1 DEF RevisionEvent
<1>6. ClientTyped'
  BY <1>1, <1>3, <1>4, <1>5, BrowserSameDocuments DEF BrowserTypes, ClientTyped,
       RevisionEvent
<1> QED
  BY <1>1, <1>2, <1>4, <1>6, BrowserSameDocuments DEF BrowserTypes, RevisionEvent

\* ActivityEvent keeps the types, and the state that is shown.
LEMMA BrowserActivityEvent ==
    ASSUME BrowserTypes, ActivityEvent
    PROVE  BrowserTypes' /\ boot'.doc = boot.doc /\ boot'.rev = boot.rev
<1>1. ServerTyped' /\ docs \in Nat /\ UNCHANGED docs
  BY BrowserSameHost DEF ActivityEvent
<1>2. StreamTyped' /\ Head(stream).value \in 0..2
  BY <1>1, BrowserTail DEF ActivityEvent
<1>3. Head(stream).value \in None..2
  BY <1>2 DEF None
<1>4. boot' \in Boots /\ boot'.doc = boot.doc /\ boot'.rev = boot.rev
  BY <1>3 DEF ActivityEvent, BrowserTypes, ClientTyped, Boots
<1>5. ClientTyped'
  BY <1>1, <1>3, <1>4, BrowserSameDocuments DEF BrowserTypes, ClientTyped, ActivityEvent
<1> QED
  BY <1>1, <1>2, <1>4, <1>5, BrowserSameDocuments DEF BrowserTypes, ActivityEvent

\* Send keeps the types.
LEMMA BrowserSend ==
    ASSUME BrowserTypes, NEW q \in Requests, Send(q)
    PROVE  BrowserTypes'
<1>1. ServerTyped' /\ docs \in Nat /\ UNCHANGED docs
  BY BrowserSameHost DEF Send
<1> DEFINE r == [phase |-> "sent", gen |-> generation, body |-> NoBoot]
<1>2. r \in Exchanges
  BY <1>1, BrowserNoBootTyped DEF BrowserTypes, ClientTyped, Exchanges, Phases
<1>3. RequestsTyped'
  BY <1>1, <1>2, BrowserAskedChanges DEF Send
<1> QED
  BY <1>1, <1>3, BrowserSameDocuments DEF BrowserTypes, Send

\* A request that ends keeps what it was answered.
LEMMA BrowserPhase ==
    ASSUME BrowserTypes, UNCHANGED docs, NEW q \in Requests, NEW phase \in Phases,
           request' = [request EXCEPT ![q].phase = phase], UNCHANGED <<kind, wrote>>
    PROVE  RequestsTyped'
<1> DEFINE r == [request[q] EXCEPT !.phase = phase]
<1>1. r \in Exchanges
  BY DEF BrowserTypes, RequestsTyped, Exchanges
<1>2. request' = [request EXCEPT ![q] = r]
  BY DEF BrowserTypes, RequestsTyped
<1> HIDE DEF r
<1> QED BY <1>1, <1>2, BrowserAskedChanges

\* A request that lands leaves everything but the screen typed.
LEMMA BrowserLanding ==
    ASSUME BrowserTypes, NEW q \in Requests, NEW k, Landing(q, k)
    PROVE  /\ ServerTyped' /\ docs \in Nat /\ UNCHANGED docs
           /\ RequestsTyped' /\ StreamTyped'
           /\ request[q].body \in Boots
<1>1. ServerTyped' /\ docs \in Nat /\ UNCHANGED docs
  BY BrowserSameHost DEF Landing
<1>2. RequestsTyped'
  BY <1>1, BrowserPhase DEF Landing, Phases
<1> QED
  BY <1>1, <1>2, BrowserSameDocuments DEF BrowserTypes, Landing, RequestsTyped, Exchanges

\* MutateLands keeps the types and merges its answer.
LEMMA BrowserMutateLands ==
    ASSUME BrowserTypes, NEW q \in Requests, MutateLands(q)
    PROVE  /\ BrowserTypes'
           /\ request[q].body \in Boots /\ UNCHANGED <<refresh, hostVars>>
           /\ \E gen : boot' = mergeBootstrap(request[q].body, gen)
<1>1. PICK k \in {"mutate", "remove-agent"} : Landing(q, k)
  BY DEF MutateLands
<1>2. /\ ServerTyped' /\ docs \in Nat /\ UNCHANGED docs
      /\ RequestsTyped' /\ StreamTyped'
      /\ request[q].body \in Boots
  BY <1>1, BrowserLanding
<1>3. PICK gen : boot' = mergeBootstrap(request[q].body, gen)
  BY DEF MutateLands
<1>4. boot' \in Boots'
  BY <1>2, <1>3, BrowserMerges, BrowserSameDocuments DEF BrowserTypes, ClientTyped
<1>5. generation' \in Nat
  BY DEF MutateLands, BrowserTypes, ClientTyped
<1>6. ClientTyped'
  BY <1>2, <1>4, <1>5, BrowserSameDocuments DEF BrowserTypes, ClientTyped, MutateLands,
       pending
<1> QED
  BY <1>1, <1>2, <1>3, <1>6 DEF BrowserTypes, MutateLands, Landing

\* StateLands keeps the types, and merges its answer into a bootstrap that is shown.
LEMMA BrowserStateLands ==
    ASSUME BrowserTypes, NEW q \in Requests, StateLands(q)
    PROVE  /\ BrowserTypes'
           /\ request[q].body \in Boots /\ UNCHANGED hostVars
           /\ refresh'.body \in {refresh.body, NoBoot}
           /\ \/ boot = NoBoot /\ boot' = boot
              \/ \E candidate \in Boots, gen \in Int :
                   /\ boot # NoBoot
                   /\ candidate.doc = request[q].body.doc
                        /\ candidate.rev = request[q].body.rev
                   /\ boot' = mergeBootstrap(candidate, gen)
<1>1. Landing(q, "state")
  BY DEF StateLands
<1>2. /\ ServerTyped' /\ docs \in Nat /\ UNCHANGED docs
      /\ RequestsTyped' /\ StreamTyped'
      /\ request[q].body \in Boots
  BY <1>1, BrowserLanding
<1>3. generation' \in Nat /\ pendingRevision' \in Versions'
  BY <1>2, BrowserSameDocuments DEF StateLands, BrowserTypes, ClientTyped
<1>4. UNCHANGED hostVars
  BY <1>1 DEF Landing
<1>5. CASE boot = NoBoot
  <2>1. /\ refresh' \in Exchanges' /\ pendingConfiguration' \in BOOLEAN
        /\ refresh'.body \in {refresh.body, NoBoot}
    BY <1>2, <1>3, <1>5, BrowserRefresh DEF StateLands
  <2>2. ClientTyped'
    BY <1>2, <1>3, <1>5, <2>1, BrowserSameDocuments DEF BrowserTypes, ClientTyped,
         StateLands
  <2> QED
    BY <1>2, <1>4, <1>5, <2>1, <2>2 DEF BrowserTypes, StateLands
<1>6. CASE boot # NoBoot
  <2> DEFINE candidate == [boot EXCEPT !.rev = request[q].body.rev, !.doc = request[q].body.doc]
  <2>1. /\ candidate \in Boots
        /\ candidate.doc = request[q].body.doc /\ candidate.rev = request[q].body.rev
    BY <1>2 DEF BrowserTypes, ClientTyped, Boots
  <2>2. /\ boot' = mergeBootstrap(candidate, None)
             /\ UNCHANGED <<refresh, pendingConfiguration>>
        /\ None \in Int
    BY <1>6 DEF StateLands, None
  <2> HIDE DEF candidate
  <2>3. boot' \in Boots'
    BY <1>2, <2>1, <2>2, BrowserMerges, BrowserSameDocuments DEF BrowserTypes, ClientTyped
  <2>4. ClientTyped'
    BY <1>2, <1>3, <2>2, <2>3, BrowserSameDocuments DEF BrowserTypes, ClientTyped,
         StateLands
  <2> QED
    BY <1>2, <1>4, <1>6, <2>1, <2>2, <2>4 DEF BrowserTypes
<1> QED BY <1>5, <1>6

\* VoidLands keeps the types.
LEMMA BrowserVoidLands ==
    ASSUME BrowserTypes, NEW q \in Requests, VoidLands(q)
    PROVE  BrowserTypes' /\ UNCHANGED hostVars /\ refresh'.body \in {refresh.body, NoBoot}
<1>1. Landing(q, "void")
  BY DEF VoidLands
<1>2. /\ ServerTyped' /\ docs \in Nat /\ UNCHANGED docs
      /\ RequestsTyped' /\ StreamTyped'
  BY <1>1, BrowserLanding
<1>3. generation' \in Nat
  BY DEF VoidLands, BrowserTypes, ClientTyped
<1>4. /\ refresh' \in Exchanges' /\ pendingConfiguration' \in BOOLEAN
      /\ refresh'.body \in {refresh.body, NoBoot}
  BY <1>2, <1>3, BrowserRefresh DEF VoidLands
<1>5. ClientTyped'
  BY <1>2, <1>3, <1>4, BrowserSameDocuments DEF BrowserTypes, ClientTyped, VoidLands
<1> QED
  BY <1>1, <1>2, <1>4, <1>5 DEF BrowserTypes, Landing

\* RoutingLands keeps the types, and the state that is shown.
LEMMA BrowserRoutingLands ==
    ASSUME BrowserTypes, NEW q \in Requests, RoutingLands(q)
    PROVE  /\ BrowserTypes' /\ UNCHANGED hostVars
                /\ refresh'.body \in {refresh.body, NoBoot}
           /\ boot'.doc = boot.doc /\ boot'.rev = boot.rev
<1>1. Landing(q, "routing")
  BY DEF RoutingLands
<1>2. /\ ServerTyped' /\ docs \in Nat /\ UNCHANGED docs
      /\ RequestsTyped' /\ StreamTyped' /\ request[q].body \in Boots
  BY <1>1, BrowserLanding
<1>3. generation' \in Nat
  BY DEF RoutingLands, BrowserTypes, ClientTyped
<1>4. /\ refresh' \in Exchanges' /\ pendingConfiguration' \in BOOLEAN
      /\ refresh'.body \in {refresh.body, NoBoot}
  BY <1>2, <1>3, BrowserRefresh DEF RoutingLands
<1>5. boot' \in Boots /\ boot'.doc = boot.doc /\ boot'.rev = boot.rev
  BY <1>2 DEF RoutingLands, BrowserTypes, ClientTyped, Boots
<1>6. ClientTyped'
  BY <1>2, <1>3, <1>4, <1>5, BrowserSameDocuments DEF BrowserTypes, ClientTyped,
       RoutingLands
<1> QED
  BY <1>1, <1>2, <1>4, <1>5, <1>6 DEF BrowserTypes, Landing

\* RequestFails keeps the types.
LEMMA BrowserRequestFails ==
    ASSUME BrowserTypes, NEW q \in Requests, RequestFails(q)
    PROVE  BrowserTypes'
<1>1. ServerTyped' /\ docs \in Nat /\ UNCHANGED docs
  BY BrowserSameHost DEF RequestFails
<1>2. RequestsTyped'
  BY <1>1, BrowserPhase DEF RequestFails, Phases
<1> QED
  BY <1>1, <1>2, BrowserSameDocuments DEF BrowserTypes, RequestFails

\* So does a step of the others.
LEMMA BrowserStutters == ASSUME BrowserTypes, UNCHANGED storeVars PROVE BrowserTypes'
<1>1. ServerTyped' /\ docs \in Nat /\ UNCHANGED docs
  BY BrowserSameHost DEF storeVars
<1> QED
  BY <1>1, BrowserSameDocuments DEF BrowserTypes, storeVars

\* Every step keeps the types.
LEMMA BrowserTyped ==
    MixesAssumption /\ BrowserTypes /\ [ClientNext]_storeVars => BrowserTypes'
<1> SUFFICES ASSUME MixesAssumption, BrowserTypes, [ClientNext]_storeVars
             PROVE  BrowserTypes'
  OBVIOUS
<1>1. CASE HostStep
  BY <1>1, BrowserRunRecords, BrowserCommit, BrowserRunWorks, BrowserAnswerRefresh,
       BrowserBeginRequest,
     BrowserSaveRouting, BrowserAnswer DEF HostStep
<1>2. CASE ClientStep
  BY <1>2, BrowserRefreshLands, BrowserConnect, BrowserConfigurationEvent,
       BrowserRevisionEvent,
     BrowserActivityEvent, BrowserMutateLands, BrowserStateLands, BrowserVoidLands,
          BrowserRoutingLands
     DEF ClientStep, Lands
<1>3. CASE ForeignChange \/ RoutingChange \/ RejectChange \/ RefreshFails \/ Drop
  BY <1>3, BrowserForeignChange, BrowserRoutingChange, BrowserReject,
       BrowserRefreshFails, BrowserDrop
<1>4. ASSUME NEW q \in Requests, Send(q) \/ RequestFails(q) PROVE BrowserTypes'
  BY <1>4, BrowserSend, BrowserRequestFails
<1>5. CASE UNCHANGED storeVars
  BY <1>5, BrowserStutters
<1> QED BY <1>1, <1>2, <1>3, <1>4, <1>5 DEF ClientNext

\* The types of this module imply those of ClientTypeOK.
LEMMA BrowserTypeOKHolds == ASSUME BrowserTypes PROVE ClientTypeOK
<1>1. server \in Boots
  BY BrowserHostShown DEF BrowserTypes, ServerTyped
<1> QED
  BY <1>1 DEF BrowserTypes, ServerTyped, RunTyped, ClientTyped, RequestsTyped, Exchanges,
       ClientTypeOK

\* The host's state, the screen, the requests and what is pending have their types, for
\* any requests and any mix: in particular no revision overtakes the documents given out.
THEOREM BrowserTypesTheorem == ASSUME MixesAssumption PROVE ClientSpec => []ClientTypeOK
<1>1. ClientInit => BrowserTypes
  BY BrowserInit
<1>2. BrowserTypes /\ [ClientNext]_storeVars => BrowserTypes'
  BY BrowserTyped
<1>3. BrowserTypes => ClientTypeOK
  BY BrowserTypeOKHolds
<1> QED BY <1>1, <1>2, <1>3, PTL DEF ClientSpec

\* The part of the invariant that is about the order of states.
StatesOrdered == PairsOrdered /\ BoundedBySaved /\ SavedStands

\* The same state, with other routing or activities perhaps.
Twins(a, b) == a.rev = b.rev /\ a.doc = b.doc

-----------------------------------------------------------------------------
(* The browser's copy: the order is kept, and the screen moves forward.    *)

\* The revisions and documents of the copies are numbers, none beyond the last document.
LEMMA BrowserCopiesInt ==
    ASSUME BrowserTypes
    PROVE  /\ Copies \subseteq Boots
           /\ \A a \in Boots : a.rev \in Int /\ a.doc \in Int /\ a.doc <= docs
                /\ a.rev >= -1
           /\ server.rev \in Int /\ server.doc \in Int /\ before \in Int /\ docs \in Int
           /\ server \in Boots
           /\ server.doc <= docs /\ before <= docs
<1>1. docs \in Nat /\ server \in Boots /\ NoBoot \in Boots
  BY BrowserHostShown, BrowserNoBootTyped DEF BrowserTypes, ServerTyped
<1>2. Copies \subseteq Boots
  BY <1>1 DEF Copies, BrowserTypes, ClientTyped, RequestsTyped, Exchanges
<1>3. \A a \in Boots : a.rev \in Int /\ a.doc \in Int /\ a.doc <= docs /\ a.rev >= -1
  BY <1>1 DEF Boots, Versions, None
<1> QED
  BY <1>1, <1>2, <1>3 DEF BrowserTypes, ServerTyped, ServerStates

\* The fall-back in terms of the host's state.
LEMMA BrowserBase ==
    ASSUME BrowserTypes
    PROVE  FallBack.rev = server.rev - 1 /\ FallBack.doc = before
BY DEF FallBack, BrowserTypes, ServerTyped, ServerStates

\* A step that shows or sends only states that were there keeps their order.
LEMMA BrowserSameOrder ==
    ASSUME BrowserTypes, BrowserTypes', StatesOrdered,
           UNCHANGED <<saving, before, docs, undone>>,
           server'.rev = server.rev, server'.doc = server.doc,
           \A a \in Copies' : \E b \in Copies \cup {server} : Twins(a, b)
    PROVE  StatesOrdered'
<1>1. /\ FallBack.rev = server.rev - 1 /\ FallBack.doc = before
      /\ FallBack'.rev = server'.rev - 1 /\ FallBack'.doc = before'
  <2>1. FallBack.rev = server.rev - 1 /\ FallBack.doc = before
    BY BrowserBase
  <2>2. (FallBack.rev = server.rev - 1 /\ FallBack.doc = before)'
    <3>1. server' \in ServerStates'
      BY DEF BrowserTypes, ServerTyped
    <3> QED BY <3>1 DEF FallBack, ServerStates
  <2> QED BY <2>1, <2>2
<1>2. \A a \in ServedStates' : \E b \in ServedStates : Twins(a, b)
  BY <1>1 DEF ServedStates, Twins
<1>3. PairsOrdered'
  BY <1>2 DEF StatesOrdered, PairsOrdered, Older, Twins
<1>4. BoundedBySaved'
  <2> SUFFICES ASSUME NEW a \in Copies'
               PROVE  /\ a.rev <= SavedRevision' + 1
                      /\ a.doc \notin undone'
                           /\ (saving' = "no" \/ a.doc # server'.doc)
                                => a.rev <= SavedRevision'
    BY DEF BoundedBySaved
  <2>1. SavedRevision' = SavedRevision /\ SavedRevision \in Int
          /\ server.rev <= SavedRevision + 1
        /\ (saving = "no" => server.rev <= SavedRevision)
    BY BrowserCopiesInt DEF SavedRevision
  <2>2. PICK b \in Copies \cup {server} : Twins(a, b)
    OBVIOUS
  <2>3. CASE b \in Copies
    BY <2>1, <2>2, <2>3 DEF StatesOrdered, BoundedBySaved, Twins
  <2>4. CASE b = server
    BY <2>1, <2>2, <2>4 DEF Twins
  <2> QED BY <2>2, <2>3, <2>4
<1>5. SavedStands'
  BY DEF StatesOrdered, SavedStands
<1> QED BY <1>3, <1>4, <1>5 DEF StatesOrdered

\* At first every copy is empty.
LEMMA BrowserOrderInit == ASSUME MixesAssumption, ClientInit PROVE StatesOrdered
<1>1. /\ server.rev = 0 /\ server.doc = 0 /\ saving = "no" /\ before = 0 /\ undone = {}
      /\ NoBoot.doc = -1 /\ NoBoot.rev = -1
  BY DEF ClientInit, NoBoot, None
<1>2. \A a \in Copies : a = NoBoot
  BY DEF ClientInit, Copies, Idle
<1>3. \A a \in ServedStates : a = NoBoot \/ a = server
  BY <1>1, <1>2 DEF ServedStates
<1>4. PairsOrdered
  BY <1>1, <1>3 DEF PairsOrdered, Older
<1>5. BoundedBySaved
  BY <1>1, <1>2 DEF BoundedBySaved, SavedRevision
<1> QED BY <1>1, <1>4, <1>5 DEF StatesOrdered, SavedStands

\* A change begins: its state is newer than all that were there.
LEMMA BrowserOrderBegin ==
    ASSUME BrowserTypes, BrowserTypes', StatesOrdered, NEW who, BeginChange(who),
           who # "no",
           \A a \in Copies' : a \in Copies
    PROVE  StatesOrdered'
<1>1. /\ saving = "no" /\ saving' = who /\ before' = server.doc /\ docs' = docs + 1
      /\ undone' = undone
      /\ server'.rev = server.rev + 1 /\ server'.doc = docs + 1
  BY DEF BeginChange, BrowserTypes, ServerTyped, ServerStates
<1>2. FallBack'.rev = server'.rev - 1 /\ FallBack'.doc = before'
  <2>1. server' \in ServerStates'
    BY DEF BrowserTypes, ServerTyped
  <2> QED BY <2>1 DEF FallBack, ServerStates
<1>3. /\ Copies \subseteq Boots
      /\ \A a \in Boots : a.rev \in Int /\ a.doc \in Int /\ a.doc <= docs
      /\ server.rev \in Int /\ server.doc \in Int /\ server.doc <= docs /\ docs \in Int
      /\ server \in Boots
  BY BrowserCopiesInt
<1>4. undone \subseteq 1..docs /\ server.doc \notin undone
  BY DEF BrowserTypes, ServerTyped, StatesOrdered, SavedStands
<1>5. /\ SavedRevision = server.rev /\ SavedRevision' = server.rev
  BY <1>1, <1>3 DEF SavedRevision
<1>6. \A a \in ServedStates' : a = server' \/ Twins(a, server) \/ a \in Copies
  BY <1>1, <1>2, <1>3 DEF ServedStates, Twins
<1>7. \A a \in Copies : a \in ServedStates
  BY DEF ServedStates
<1>8. server \in ServedStates
  BY DEF ServedStates
<1>9. \A a \in Copies : /\ a.rev <= server.rev + 1
                        /\ a.doc \notin undone => a.rev <= server.rev
  BY <1>1, <1>5 DEF StatesOrdered, BoundedBySaved
<1>10. PairsOrdered'
  <2> SUFFICES ASSUME NEW a \in ServedStates', NEW b \in ServedStates' PROVE Older(a, b)'
    BY DEF PairsOrdered
  <2>1. CASE a = server'
    <3>1. CASE b = server'
      BY <2>1, <3>1, <1>1, <1>3 DEF Older
    <3>2. CASE b # server'
      <4>1. b.doc \in Int /\ b.doc <= docs
        BY <1>3, <1>6, <3>2 DEF Twins
      <4> QED BY <1>1, <1>3, <2>1, <4>1 DEF Older
    <3> QED BY <3>1, <3>2
  <2>2. CASE a # server' /\ b = server'
    <3>1. /\ a.doc \in Int /\ a.doc <= docs /\ a.rev \in Int
          /\ a.rev <= server.rev + 1
          /\ a.doc \notin undone => a.rev <= server.rev
      BY <1>3, <1>6, <1>9, <2>2 DEF Twins
    <3> QED BY <1>1, <1>3, <2>2, <3>1 DEF Older
  <2>3. CASE a # server' /\ b # server'
    <3>1. PICK c \in ServedStates : Twins(a, c)
      BY <1>6, <1>7, <1>8, <2>3 DEF Twins
    <3>2. PICK d \in ServedStates : Twins(b, d)
      BY <1>6, <1>7, <1>8, <2>3 DEF Twins
    <3>3. Older(c, d)
      BY DEF StatesOrdered, PairsOrdered
    <3> QED BY <1>1, <3>1, <3>2, <3>3 DEF Older, Twins
  <2> QED BY <2>1, <2>2, <2>3
<1>11. BoundedBySaved'
  BY <1>1, <1>3, <1>5, <1>9 DEF BoundedBySaved
<1>12. SavedStands'
  BY <1>1, <1>3, <1>4 DEF SavedStands
<1> QED BY <1>10, <1>11, <1>12 DEF StatesOrdered

\* Commit keeps the order: the change under way is now the saved state.
LEMMA BrowserOrderCommit ==
    ASSUME BrowserTypes, BrowserTypes', StatesOrdered, Commit
    PROVE  StatesOrdered'
<1>1. /\ saving # "no" /\ saving' = "no" /\ UNCHANGED <<before, undone, docs>>
      /\ server'.rev = server.rev /\ server'.doc = server.doc
  BY DEF Commit, BrowserTypes, ServerTyped, ServerStates
<1>2. Copies' \subseteq Copies
  <2>1. \A q \in Requests : request'[q].body = request[q].body
    BY DEF Commit, BrowserTypes, RequestsTyped, Exchanges
  <2> QED BY <2>1 DEF Commit, Copies, clientVars
<1>3. server.rev \in Int /\ \A a \in Copies : a.rev \in Int
  BY BrowserCopiesInt
<1>4. \A a \in ServedStates' : \E b \in ServedStates : Twins(a, b)
  BY <1>1, <1>2 DEF ServedStates, Twins
<1>5. PairsOrdered'
  BY <1>1, <1>4 DEF StatesOrdered, PairsOrdered, Older, Twins
<1>6. BoundedBySaved'
  <2> SUFFICES ASSUME NEW a \in Copies'
               PROVE  /\ a.rev <= server'.rev + 1
                      /\ a.doc \notin undone' => a.rev <= server'.rev
    BY <1>1 DEF BoundedBySaved, SavedRevision
  <2>1. a \in Copies /\ a \in ServedStates /\ server \in ServedStates
    BY <1>2 DEF ServedStates
  <2>2. a.doc = server.doc => a.rev = server.rev
    BY <2>1 DEF StatesOrdered, PairsOrdered, Older
  <2>3. /\ a.rev <= server.rev
        /\ a.doc \notin undone /\ a.doc # server.doc => a.rev <= server.rev - 1
    BY <1>1, <1>3, <2>1 DEF StatesOrdered, BoundedBySaved, SavedRevision
  <2> QED BY <1>1, <1>3, <2>1, <2>2, <2>3
<1> QED BY <1>1, <1>5, <1>6 DEF StatesOrdered, SavedStands

\* RejectChange keeps the order: the fall-back is the host's state, and the document that is
\* undone needs less.
LEMMA BrowserOrderReject ==
    ASSUME BrowserTypes, BrowserTypes', StatesOrdered, RejectChange
    PROVE  StatesOrdered'
<1>1. /\ saving # "no" /\ saving' = "no" /\ UNCHANGED <<before, docs>>
      /\ server'.rev = server.rev - 1 /\ server'.doc = before
           /\ undone' = undone \cup {server.doc}
  BY DEF RejectChange, BrowserTypes, ServerTyped, ServerStates
<1>2. Copies' \subseteq Copies
  <2>1. \A q \in Requests : request'[q].body = request[q].body
    BY DEF RejectChange, BrowserTypes, RequestsTyped, Exchanges
  <2> QED BY <2>1 DEF RejectChange, Copies, clientVars
<1>3. /\ server.rev \in Int /\ \A a \in Copies : a.rev \in Int /\ a.doc \in Int
      /\ server.doc \in Int /\ before \in Int
  BY BrowserCopiesInt
<1>4. FallBack.rev = server.rev - 1 /\ FallBack.doc = before
  BY BrowserBase
<1>5. \A a \in ServedStates' : \E b \in ServedStates : Twins(a, b)
  BY <1>1, <1>2, <1>4 DEF ServedStates, Twins
<1>6. PairsOrdered'
  BY <1>1, <1>5 DEF StatesOrdered, PairsOrdered, Older, Twins
<1>7. BoundedBySaved'
  BY <1>1, <1>2, <1>3 DEF StatesOrdered, BoundedBySaved, SavedRevision
<1>8. SavedStands'
  <2>1. before < server.doc
    BY <1>1 DEF BrowserTypes, ServerTyped, SavingTyped
  <2> QED BY <1>1, <1>3, <2>1 DEF StatesOrdered, SavedStands
<1> QED BY <1>6, <1>7, <1>8 DEF StatesOrdered

\* What a merge shows: one of the two states, none older than what was shown.
LEMMA BrowserMergeShows ==
    ASSUME BrowserTypes, StatesOrdered, NEW candidate \in Boots, NEW c \in Copies,
           Twins(candidate, c), NEW gen,
           boot' = mergeBootstrap(candidate, gen)
    PROVE  /\ \E b \in Copies : Twins(boot', b)
           /\ boot'.doc >= boot.doc \/ boot'.doc \in undone
           /\ boot'.doc >= candidate.doc
<1>1. /\ boot \in Boots /\ boot \in Copies /\ docs \in Nat
      /\ \A a \in Boots : a.rev \in Int /\ a.doc \in Int /\ a.rev >= -1
      /\ Copies \subseteq Boots
  BY BrowserCopiesInt DEF BrowserTypes, ServerTyped, ClientTyped, Copies
<1>2. Older(boot, c) /\ Older(c, boot) /\ Older(NoBoot, c)
  BY <1>1 DEF StatesOrdered, PairsOrdered, ServedStates, Copies
<1>3. CASE /\ boot'.doc = candidate.doc /\ boot'.rev = candidate.rev
           /\ boot = NoBoot \/ candidate.rev >= boot.rev
  <2>1. \E b \in Copies : Twins(boot', b)
    BY <1>3 DEF Twins
  <2>2. CASE candidate.rev >= boot.rev
    BY <1>1, <1>2, <1>3, <2>1, <2>2 DEF Twins, Older
  <2>3. CASE boot = NoBoot
    <3>1. candidate.doc >= -1
      <4>1. docs >= 0 /\ candidate.doc \in Versions
        BY <1>1 DEF Boots
      <4> QED BY <4>1, <1>1 DEF Versions, None
    <3> QED BY <1>1, <1>3, <2>1, <2>3, <3>1 DEF NoBoot, None
  <2> QED BY <1>3, <2>2, <2>3
<1>4. CASE boot'.doc = boot.doc /\ boot'.rev = boot.rev /\ candidate.rev < boot.rev
  BY <1>1, <1>2, <1>4 DEF Twins, Older
<1>5. \/ /\ boot'.doc = candidate.doc /\ boot'.rev = candidate.rev
         /\ boot = NoBoot \/ candidate.rev >= boot.rev
      \/ boot'.doc = boot.doc /\ boot'.rev = boot.rev /\ candidate.rev < boot.rev
  BY <1>1, BrowserMerges
<1> QED BY <1>3, <1>4, <1>5

\* What the browser does with a state: it shows or keeps only states that were there.
LEMMA BrowserOrderKept ==
    ASSUME BrowserTypes, BrowserTypes', StatesOrdered,
           UNCHANGED hostVars,
           \E b \in Copies : Twins(boot', b),
           refresh'.body \in Copies \cup {server},
           \A q \in Requests : request'[q].body \in Copies \cup {server}
    PROVE  StatesOrdered'
<1>1. \A a \in Copies' : \E b \in Copies \cup {server} : Twins(a, b)
  BY DEF Copies, Twins
<1> QED BY <1>1, BrowserSameOrder DEF hostVars

\* The inductive invariant.
BrowserInv == BrowserTypes /\ StatesOrdered /\ WritesKept

\* A step that leaves the host and the requests alone keeps what is known of writes.
LEMMA BrowserSameWrites ==
    ASSUME WritesKept, UNCHANGED hostVars, UNCHANGED asked
    PROVE  WritesKept'
BY DEF WritesKept, hostVars, asked, KeepsWrite

\* A step that leaves the requests and the state of the host alone.
LEMMA BrowserAlone ==
    ASSUME BrowserTypes, BrowserTypes', StatesOrdered, WritesKept, UNCHANGED hostVars,
           UNCHANGED asked,
           \E b \in Copies : Twins(boot', b),
           refresh'.body \in Copies \cup {server}
    PROVE  BrowserInv'
<1>1. \A q \in Requests : request'[q].body \in Copies
  BY DEF asked, Copies
<1> QED BY <1>1, BrowserOrderKept, BrowserSameWrites DEF BrowserInv

\* What ShownNeverGoesBack and OwnWritesShown say of one step.
StepsForward ==
    /\ boot'.doc >= boot.doc \/ Ghost'
    /\ \A q \in Requests :
          /\ request[q].phase = "answered" /\ request'[q].phase = "done"
          /\ \/ kind[q] \in {"mutate", "remove-agent"}
             \/ kind[q] = "state" /\ boot # NoBoot
          => boot'.doc >= wrote[q]

\* The screen is left as it is.
LEMMA BrowserShown ==
    ASSUME BrowserTypes, UNCHANGED boot
    PROVE  boot'.doc >= boot.doc /\ \E b \in Copies : Twins(boot', b)
<1>1. boot \in Copies /\ boot.doc \in Int
  BY BrowserCopiesInt DEF Copies, BrowserTypes, ClientTyped
<1> QED BY <1>1 DEF Twins

\* Without a change of the requests only the order on the screen matters.
LEMMA BrowserNoneLands ==
    ASSUME BrowserTypes, UNCHANGED request, boot'.doc >= boot.doc \/ Ghost'
    PROVE  StepsForward
BY DEF StepsForward

\* A change begins.
LEMMA BrowserWritesBegin ==
    ASSUME BrowserTypes, BrowserInv, NEW who \in {"foreign", "run"} \cup Requests,
           BeginChange(who),
           MixesAssumption, UNCHANGED <<request, kind>>,
           \A q \in Requests :
              IF who = q THEN request[q].phase = "sent" /\ kind[q] \in Changing
                /\ wrote'[q] = docs + 1
              ELSE wrote'[q] = wrote[q]
    PROVE  WritesKept'
<1>1. /\ saving = "no" /\ saving' = who /\ before' = server.doc
      /\ server'.doc = docs + 1 /\ who # "no"
  BY DEF BeginChange, BrowserTypes, ServerTyped, ServerStates, MixesAssumption
<1> QED BY <1>1 DEF WritesKept, BrowserInv, KeepsWrite

\* A step of the host leaves the copies alone.
LEMMA BrowserSameCopies ==
    ASSUME UNCHANGED <<clientVars, request>>
    PROVE  Copies' = Copies
BY DEF Copies, clientVars

\* ForeignChange keeps the invariant.
LEMMA BrowserForeignKeeps ==
    ASSUME MixesAssumption, BrowserInv, BrowserTypes', ForeignChange
    PROVE  BrowserInv' /\ StepsForward
<1>1. WritesKept'
  <2>1. \A q \in Requests : q # "foreign" /\ wrote'[q] = wrote[q]
    BY DEF ForeignChange, asked, MixesAssumption
  <2> QED BY <2>1, BrowserWritesBegin DEF ForeignChange, asked, BrowserInv
<1>2. Copies' = Copies /\ UNCHANGED request
  BY BrowserSameCopies DEF ForeignChange, asked
<1>3. StatesOrdered'
  BY <1>2, BrowserOrderBegin DEF BrowserInv, ForeignChange
<1>4. StepsForward
  BY <1>2, BrowserShown, BrowserNoneLands DEF BrowserInv, ForeignChange, clientVars
<1> QED BY <1>1, <1>3, <1>4 DEF BrowserInv

\* RunRecords keeps the invariant.
LEMMA BrowserRunKeeps ==
    ASSUME MixesAssumption, BrowserInv, BrowserTypes', RunRecords
    PROVE  BrowserInv' /\ StepsForward
<1>1. WritesKept'
  <2>1. \A q \in Requests : q # "run" /\ wrote'[q] = wrote[q]
    BY DEF RunRecords, asked, MixesAssumption
  <2> QED BY <2>1, BrowserWritesBegin DEF RunRecords, asked, BrowserInv
<1>2. Copies' = Copies /\ UNCHANGED request
  BY BrowserSameCopies DEF RunRecords, asked
<1>3. StatesOrdered'
  BY <1>2, BrowserOrderBegin DEF BrowserInv, RunRecords
<1>4. StepsForward
  BY <1>2, BrowserShown, BrowserNoneLands DEF BrowserInv, RunRecords, clientVars
<1> QED BY <1>1, <1>3, <1>4 DEF BrowserInv

\* BeginRequest keeps the invariant.
LEMMA BrowserRequestKeeps ==
    ASSUME MixesAssumption, BrowserInv, BrowserTypes', NEW q \in Requests, BeginRequest(q)
    PROVE  BrowserInv' /\ StepsForward
<1>1. WritesKept'
  <2>1. /\ wrote'[q] = docs + 1 /\ request[q].phase = "sent" /\ kind[q] \in Changing
        /\ \A p \in Requests : p # q => wrote'[p] = wrote[p]
    BY DEF BeginRequest, BrowserInv, BrowserTypes, RequestsTyped
  <2> QED BY <2>1, BrowserWritesBegin DEF BeginRequest, BrowserInv
<1>2. Copies' = Copies /\ UNCHANGED request /\ q # "no"
  BY BrowserSameCopies DEF BeginRequest, MixesAssumption
<1>3. StatesOrdered'
  BY <1>2, BrowserOrderBegin DEF BrowserInv, BeginRequest
<1>4. StepsForward
  BY <1>2, BrowserShown, BrowserNoneLands DEF BrowserInv, BeginRequest, clientVars
<1> QED BY <1>1, <1>3, <1>4 DEF BrowserInv

\* No request of this kind lands in the step.
LEMMA BrowserLandsNone ==
    ASSUME BrowserTypes, boot'.doc >= boot.doc \/ Ghost',
           \A q \in Requests : request[q].phase = "answered" => request'[q].phase # "done"
    PROVE  StepsForward
BY DEF StepsForward

\* Commit keeps the invariant: the document of the request is now the saved one.
LEMMA BrowserCommitKeeps ==
    ASSUME MixesAssumption, BrowserInv, BrowserTypes', Commit
    PROVE  BrowserInv' /\ StepsForward
<1>1. StatesOrdered'
  BY BrowserOrderCommit DEF BrowserInv
<1>2. /\ saving # "no" /\ saving' = "no" /\ server'.doc = server.doc
           /\ UNCHANGED <<kind, wrote>>
      /\ \A q \in Requests :
           /\ request'[q].body = request[q].body
           /\ request'[q].phase = IF q = saving THEN "saved" ELSE request[q].phase
      /\ before < server.doc /\ before \in Int /\ server.doc \in Int
      /\ \A q \in Requests : q # "no" /\ wrote[q] \in Int
  BY DEF Commit, BrowserInv, BrowserTypes, ServerTyped, ServerStates, RequestsTyped,
       Exchanges, SavingTyped, MixesAssumption
<1>3. WritesKept'
  <2> SUFFICES ASSUME NEW q \in Requests
               PROVE  /\ request'[q].phase = "saved" => KeepsWrite(q)'
                      /\ request'[q].phase = "answered" /\ kind[q] \in Changing
                           => request'[q].body.doc >= wrote[q]
    BY <1>2 DEF WritesKept
  <2>1. CASE q = saving
    BY <1>2, <2>1 DEF BrowserInv, WritesKept, KeepsWrite
  <2>2. CASE q # saving
    BY <1>2, <2>2 DEF BrowserInv, WritesKept, KeepsWrite
  <2> QED BY <2>1, <2>2
<1>4. StepsForward
  BY <1>2, BrowserShown, BrowserLandsNone DEF BrowserInv, Commit, clientVars
<1> QED BY <1>1, <1>3, <1>4 DEF BrowserInv

\* RejectChange keeps the invariant: the request that wrote the document has failed.
LEMMA BrowserRejectKeeps ==
    ASSUME MixesAssumption, BrowserInv, BrowserTypes', RejectChange
    PROVE  BrowserInv' /\ StepsForward
<1>1. StatesOrdered'
  BY BrowserOrderReject DEF BrowserInv
<1>2. /\ saving # "no" /\ saving' = "no" /\ server'.doc = before
           /\ UNCHANGED <<kind, wrote>>
      /\ \A q \in Requests :
           /\ request'[q].body = request[q].body
           /\ request'[q].phase = IF q = saving THEN "failed" ELSE request[q].phase
      /\ \A q \in Requests : q # "no"
  BY DEF RejectChange, BrowserInv, BrowserTypes, ServerTyped, ServerStates,
       RequestsTyped, Exchanges, MixesAssumption
<1>3. WritesKept'
  BY <1>2 DEF BrowserInv, WritesKept, KeepsWrite
<1>4. StepsForward
  BY <1>2, BrowserShown, BrowserLandsNone DEF BrowserInv, RejectChange, clientVars
<1> QED BY <1>1, <1>3, <1>4 DEF BrowserInv

\* The host's routing and activities change, its saved state does not.
LEMMA BrowserAside ==
    ASSUME BrowserInv, BrowserTypes', UNCHANGED <<saving, before, docs, undone>>,
           UNCHANGED clientVars, UNCHANGED asked,
           server'.rev = server.rev, server'.doc = server.doc
    PROVE  BrowserInv' /\ StepsForward
<1>1. Copies' = Copies
  BY BrowserSameCopies DEF asked
<1>2. StatesOrdered'
  BY <1>1, BrowserSameOrder DEF BrowserInv, Twins
<1>3. WritesKept'
  BY DEF BrowserInv, WritesKept, KeepsWrite, asked
<1>4. StepsForward
  BY BrowserShown, BrowserNoneLands DEF BrowserInv, clientVars, asked
<1> QED BY <1>2, <1>3, <1>4 DEF BrowserInv

\* RoutingChange keeps the invariant.
LEMMA BrowserRoutingChangeKeeps ==
    ASSUME BrowserInv, BrowserTypes', RoutingChange
    PROVE  BrowserInv' /\ StepsForward
BY BrowserAside DEF RoutingChange, BrowserInv, BrowserTypes, ServerTyped, ServerStates

\* RunWorks keeps the invariant.
LEMMA BrowserRunWorksKeeps ==
    ASSUME BrowserInv, BrowserTypes', RunWorks
    PROVE  BrowserInv' /\ StepsForward
BY BrowserAside DEF RunWorks, BrowserInv, BrowserTypes, ServerTyped, ServerStates

\* So does a step of the others.
LEMMA BrowserStuttersKeep ==
    ASSUME BrowserInv, BrowserTypes', UNCHANGED storeVars
    PROVE  BrowserInv' /\ StepsForward
<1>1. UNCHANGED <<saving, before, docs, undone>> /\ UNCHANGED clientVars /\ UNCHANGED asked
        /\ UNCHANGED server
  BY DEF storeVars, hostVars
<1> QED BY <1>1, BrowserAside

\* SaveRouting keeps the invariant: its answer is the host's state.
LEMMA BrowserSaveRoutingKeeps ==
    ASSUME BrowserInv, BrowserTypes', NEW q \in Requests, SaveRouting(q)
    PROVE  BrowserInv' /\ StepsForward
<1>1. /\ UNCHANGED <<saving, before, docs, undone, kind, wrote>> /\ UNCHANGED clientVars
      /\ server'.rev = server.rev /\ server'.doc = server.doc
      /\ request[q].phase = "sent" /\ kind[q] = "routing"
      /\ request'[q].phase = "answered" /\ request'[q].body = server'
      /\ \A p \in Requests : p # q => request'[p] = request[p]
  BY DEF SaveRouting, BrowserInv, BrowserTypes, ServerTyped, ServerStates, RequestsTyped,
       Exchanges
<1>2. \A a \in Copies' : \E b \in Copies \cup {server} : Twins(a, b)
  BY <1>1 DEF Copies, Twins, clientVars
<1>3. StatesOrdered'
  BY <1>1, <1>2, BrowserSameOrder DEF BrowserInv
<1>4. WritesKept'
  BY <1>1 DEF BrowserInv, WritesKept, KeepsWrite, Changing
<1>5. StepsForward
  BY <1>1, BrowserShown, BrowserLandsNone DEF BrowserInv, clientVars
<1> QED BY <1>3, <1>4, <1>5 DEF BrowserInv

\* Answer keeps the invariant: what the host holds is no older than what q wrote.
LEMMA BrowserAnswerKeeps ==
    ASSUME BrowserInv, BrowserTypes', NEW q \in Requests, Answer(q)
    PROVE  BrowserInv' /\ StepsForward
<1>1. /\ UNCHANGED hostVars /\ UNCHANGED <<kind, wrote>> /\ UNCHANGED clientVars
      /\ request[q].phase = "saved"
      /\ request'[q].phase = "answered" /\ request'[q].body = server
      /\ \A p \in Requests : p # q => request'[p] = request[p]
  BY DEF Answer, BrowserInv, BrowserTypes, RequestsTyped, Exchanges
<1>2. /\ \A p \in Requests : request'[p].body \in Copies \cup {server}
      /\ refresh'.body \in Copies /\ UNCHANGED boot
  BY <1>1 DEF Copies, clientVars
<1>3. StatesOrdered'
  BY <1>1, <1>2, BrowserShown, BrowserOrderKept DEF BrowserInv
<1>4. wrote[q] <= server.doc
  <2>1. /\ saving # "no" => before < server.doc
        /\ before \in Int /\ server.doc \in Int /\ wrote[q] \in Int
    BY DEF BrowserInv, BrowserTypes, ServerTyped, SavingTyped, ServerStates, RequestsTyped
  <2> QED BY <1>1, <2>1 DEF BrowserInv, WritesKept, KeepsWrite
<1>5. WritesKept'
  <2>1. wrote[q] \in Int /\ server.doc \in Int
    BY DEF BrowserInv, BrowserTypes, ServerTyped, ServerStates, RequestsTyped
  <2> QED BY <1>1, <1>4, <2>1 DEF BrowserInv, WritesKept, KeepsWrite, hostVars
<1>6. StepsForward
  BY <1>1, <1>2, BrowserShown, BrowserLandsNone DEF BrowserInv
<1> QED BY <1>3, <1>5, <1>6 DEF BrowserInv

\* AnswerRefresh keeps the invariant.
LEMMA BrowserAnswerRefreshKeeps ==
    ASSUME BrowserInv, BrowserTypes', AnswerRefresh
    PROVE  BrowserInv' /\ StepsForward
<1>1. refresh'.body = server
  BY DEF AnswerRefresh, BrowserInv, BrowserTypes, ClientTyped, Exchanges
<1> QED
  BY <1>1, BrowserAlone, BrowserShown, BrowserNoneLands DEF AnswerRefresh, BrowserInv,
       asked

\* RefreshLands keeps the invariant, by mergeBootstrap.
LEMMA BrowserRefreshLandsKeeps ==
    ASSUME BrowserInv, BrowserTypes', RefreshLands
    PROVE  BrowserInv' /\ StepsForward
<1>1. PICK candidate \in Boots :
        /\ candidate.doc = refresh.body.doc /\ candidate.rev = refresh.body.rev
        /\ boot' = mergeBootstrap(candidate, refresh.gen)
  BY BrowserRefreshLands DEF BrowserInv
<1>2. refresh'.body = NoBoot
  BY BrowserRefreshLands DEF BrowserInv
<1>3. refresh.body \in Copies /\ NoBoot \in Copies /\ Twins(candidate, refresh.body)
  BY <1>1 DEF Copies, Twins
<1>4. /\ \E b \in Copies : Twins(boot', b)
      /\ boot'.doc >= boot.doc \/ boot'.doc \in undone
  BY <1>1, <1>3, BrowserMergeShows DEF BrowserInv
<1>5. UNCHANGED hostVars /\ UNCHANGED asked
  BY DEF RefreshLands
<1>6. BrowserInv'
  BY <1>2, <1>3, <1>4, <1>5, BrowserAlone DEF BrowserInv
<1> QED
  BY <1>4, <1>5, <1>6, BrowserNoneLands DEF Ghost, BrowserInv, hostVars, asked

\* RefreshFails keeps the invariant.
LEMMA BrowserRefreshFailsKeeps ==
    ASSUME BrowserInv, BrowserTypes', RefreshFails
    PROVE  BrowserInv' /\ StepsForward
<1>1. refresh'.body \in Copies
  BY BrowserRefreshFails DEF BrowserInv, Copies
<1> QED
  BY <1>1, BrowserAlone, BrowserShown, BrowserNoneLands
     DEF RefreshFails, BrowserInv, asked

\* The stream opens, is lost, or brings an event that only asks for a refresh.
LEMMA BrowserStreamKeeps ==
    ASSUME BrowserInv, BrowserTypes', UNCHANGED <<boot, hostVars, asked>>,
           refresh'.body \in {refresh.body, NoBoot}
    PROVE  BrowserInv' /\ StepsForward
<1>1. refresh'.body \in Copies
  BY DEF Copies
<1> QED
  BY <1>1, BrowserAlone, BrowserShown, BrowserNoneLands DEF BrowserInv, asked

\* Connect keeps the invariant.
LEMMA BrowserConnectKeeps ==
    ASSUME BrowserInv, BrowserTypes', Connect
    PROVE  BrowserInv' /\ StepsForward
BY BrowserStreamKeeps DEF Connect, clientVars

\* Drop keeps the invariant.
LEMMA BrowserDropKeeps ==
    ASSUME BrowserInv, BrowserTypes', Drop
    PROVE  BrowserInv' /\ StepsForward
BY BrowserStreamKeeps DEF Drop, clientVars

\* ConfigurationEvent keeps the invariant.
LEMMA BrowserConfigurationKeeps ==
    ASSUME BrowserInv, BrowserTypes', ConfigurationEvent
    PROVE  BrowserInv' /\ StepsForward
BY BrowserStreamKeeps, BrowserConfigurationEvent DEF BrowserInv, ConfigurationEvent

\* RevisionEvent keeps the invariant.
LEMMA BrowserRevisionKeeps ==
    ASSUME BrowserInv, BrowserTypes', RevisionEvent
    PROVE  BrowserInv' /\ StepsForward
BY BrowserStreamKeeps, BrowserRevisionEvent DEF BrowserInv, RevisionEvent

\* ActivityEvent keeps the invariant: only activities change on the screen.
LEMMA BrowserActivityKeeps ==
    ASSUME BrowserInv, BrowserTypes', ActivityEvent
    PROVE  BrowserInv' /\ StepsForward
<1>1. boot'.doc = boot.doc /\ boot'.rev = boot.rev
  BY BrowserActivityEvent DEF BrowserInv
<1>2. boot \in Copies /\ refresh.body \in Copies /\ boot.doc \in Int
  BY BrowserCopiesInt DEF Copies, BrowserInv
<1>3. \E b \in Copies : Twins(boot', b)
  BY <1>1, <1>2 DEF Twins
<1>4. UNCHANGED hostVars /\ UNCHANGED asked /\ UNCHANGED refresh
  BY DEF ActivityEvent
<1>5. BrowserInv'
  BY <1>2, <1>3, <1>4, BrowserAlone DEF BrowserInv
<1> QED
  BY <1>1, <1>2, <1>4, <1>5, BrowserNoneLands DEF BrowserInv, asked

\* Send keeps the invariant.
LEMMA BrowserSendKeeps ==
    ASSUME BrowserInv, BrowserTypes', NEW q \in Requests, Send(q)
    PROVE  BrowserInv' /\ StepsForward
<1>1. /\ UNCHANGED hostVars /\ UNCHANGED <<kind, wrote>> /\ UNCHANGED clientVars
      /\ request[q].phase = "idle"
      /\ request'[q].phase = "sent" /\ request'[q].body = NoBoot
      /\ \A p \in Requests : p # q => request'[p] = request[p]
  BY DEF Send, BrowserInv, BrowserTypes, RequestsTyped, Exchanges
<1>2. /\ \A p \in Requests : request'[p].body \in Copies
      /\ refresh'.body \in Copies /\ UNCHANGED boot
  BY <1>1 DEF Copies, clientVars
<1>3. StatesOrdered'
  BY <1>1, <1>2, BrowserShown, BrowserOrderKept DEF BrowserInv
<1>4. WritesKept'
  BY <1>1 DEF BrowserInv, WritesKept, KeepsWrite, hostVars
<1>5. StepsForward
  BY <1>1, <1>2, BrowserShown, BrowserLandsNone DEF BrowserInv
<1> QED BY <1>3, <1>4, <1>5 DEF BrowserInv

\* RequestFails keeps the invariant: a request being saved does not fail.
LEMMA BrowserRequestFailsKeeps ==
    ASSUME BrowserInv, BrowserTypes', NEW q \in Requests, RequestFails(q)
    PROVE  BrowserInv' /\ StepsForward
<1>1. /\ UNCHANGED hostVars /\ UNCHANGED <<kind, wrote>> /\ UNCHANGED clientVars
      /\ saving # q
      /\ request'[q].phase = "failed" /\ request'[q].body = request[q].body
      /\ \A p \in Requests : p # q => request'[p] = request[p]
  BY DEF RequestFails, BrowserInv, BrowserTypes, RequestsTyped, Exchanges
<1>2. /\ \A p \in Requests : request'[p].body \in Copies
      /\ refresh'.body \in Copies /\ UNCHANGED boot
  BY <1>1 DEF Copies, clientVars
<1>3. StatesOrdered'
  BY <1>1, <1>2, BrowserShown, BrowserOrderKept DEF BrowserInv
<1>4. WritesKept'
  BY <1>1 DEF BrowserInv, WritesKept, KeepsWrite, hostVars
<1>5. StepsForward
  BY <1>1, <1>2, BrowserShown, BrowserLandsNone DEF BrowserInv
<1> QED BY <1>3, <1>4, <1>5 DEF BrowserInv

\* What a request that lands changes of the requests.
LEMMA BrowserLandingEnds ==
    ASSUME BrowserInv, NEW q \in Requests, NEW k, Landing(q, k)
    PROVE  /\ UNCHANGED hostVars /\ UNCHANGED <<kind, wrote>>
           /\ request[q].phase = "answered" /\ kind[q] = k
           /\ request'[q].phase = "done" /\ request'[q].body = request[q].body
           /\ \A p \in Requests : p # q => request'[p] = request[p]
           /\ \A p \in Requests : request'[p].body \in Copies
           /\ WritesKept'
<1>1. /\ UNCHANGED hostVars /\ UNCHANGED <<kind, wrote>>
      /\ request[q].phase = "answered" /\ kind[q] = k
      /\ request'[q].phase = "done" /\ request'[q].body = request[q].body
      /\ \A p \in Requests : p # q => request'[p] = request[p]
  BY DEF Landing, BrowserInv, BrowserTypes, RequestsTyped, Exchanges
<1>2. \A p \in Requests : request'[p].body \in Copies
  BY <1>1 DEF Copies
<1>3. WritesKept'
  BY <1>1 DEF BrowserInv, WritesKept, KeepsWrite, hostVars
<1> QED BY <1>1, <1>2, <1>3

\* MutateLands keeps the invariant, and the screen shows what q wrote or something newer.
LEMMA BrowserMutateKeeps ==
    ASSUME BrowserInv, BrowserTypes', NEW q \in Requests, MutateLands(q)
    PROVE  BrowserInv' /\ StepsForward
<1>1. PICK k \in {"mutate", "remove-agent"} : Landing(q, k)
  BY DEF MutateLands
<1>2. /\ UNCHANGED hostVars /\ UNCHANGED <<kind, wrote>>
      /\ request[q].phase = "answered" /\ kind[q] = k
      /\ \A p \in Requests : p # q => request'[p] = request[p]
      /\ \A p \in Requests : request'[p].body \in Copies
      /\ WritesKept'
  BY <1>1, BrowserLandingEnds
<1>3. PICK gen : boot' = mergeBootstrap(request[q].body, gen)
  BY BrowserMutateLands DEF BrowserInv
<1>4. request[q].body \in Boots /\ UNCHANGED refresh
  BY BrowserMutateLands DEF BrowserInv
<1>5. request[q].body \in Copies /\ refresh.body \in Copies
        /\ Twins(request[q].body, request[q].body)
  BY DEF Copies, Twins
<1>6. /\ \E b \in Copies : Twins(boot', b)
      /\ boot'.doc >= boot.doc \/ boot'.doc \in undone
      /\ boot'.doc >= request[q].body.doc
  BY <1>3, <1>4, <1>5, BrowserMergeShows DEF BrowserInv
<1>7. StatesOrdered'
  BY <1>2, <1>4, <1>5, <1>6, BrowserOrderKept DEF BrowserInv
<1>8. boot'.doc >= wrote[q]
  <2>1. request[q].body.doc >= wrote[q]
    BY <1>2 DEF BrowserInv, WritesKept, Changing
  <2>2. request[q].body.doc \in Int /\ wrote[q] \in Int /\ boot'.doc \in Int
    <3>1. boot' \in Boots'
      BY DEF BrowserTypes, ClientTyped
    <3> QED BY <1>4, <3>1, BrowserCopiesInt DEF BrowserInv, BrowserTypes, RequestsTyped,
         Boots, Versions, None
  <2> QED BY <1>6, <2>1, <2>2
<1>9. StepsForward
  BY <1>2, <1>6, <1>8 DEF StepsForward, Ghost, hostVars
<1> QED BY <1>2, <1>7, <1>9 DEF BrowserInv

\* StateLands keeps the invariant, and so does the screen when a bootstrap is shown.
LEMMA BrowserStateKeeps ==
    ASSUME BrowserInv, BrowserTypes', NEW q \in Requests, StateLands(q)
    PROVE  BrowserInv' /\ StepsForward
<1>1. /\ UNCHANGED hostVars /\ UNCHANGED <<kind, wrote>>
      /\ request[q].phase = "answered" /\ kind[q] = "state"
      /\ \A p \in Requests : p # q => request'[p] = request[p]
      /\ \A p \in Requests : request'[p].body \in Copies
      /\ WritesKept'
  BY BrowserLandingEnds DEF StateLands
<1>2. /\ request[q].body \in Copies /\ refresh'.body \in Copies
  BY BrowserStateLands DEF BrowserInv, Copies
<1>3. CASE boot = NoBoot /\ boot' = boot
  <2>1. (\E b \in Copies : Twins(boot', b)) /\ boot'.doc >= boot.doc
    BY <1>3, BrowserShown DEF BrowserInv
  <2>2. StatesOrdered'
    BY <1>1, <1>2, <2>1, BrowserOrderKept DEF BrowserInv
  <2>3. StepsForward
    BY <1>1, <1>3, <2>1 DEF StepsForward
  <2> QED BY <1>1, <2>2, <2>3 DEF BrowserInv
<1>4. ASSUME NEW candidate \in Boots, NEW gen \in Int,
             candidate.doc = request[q].body.doc, candidate.rev = request[q].body.rev,
             boot' = mergeBootstrap(candidate, gen)
      PROVE  BrowserInv' /\ StepsForward
  <2>1. Twins(candidate, request[q].body)
    BY <1>4 DEF Twins
  <2>2. /\ \E b \in Copies : Twins(boot', b)
        /\ boot'.doc >= boot.doc \/ boot'.doc \in undone
        /\ boot'.doc >= candidate.doc
    BY <1>2, <1>4, <2>1, BrowserMergeShows DEF BrowserInv
  <2>3. StatesOrdered'
    BY <1>1, <1>2, <2>2, BrowserOrderKept DEF BrowserInv
  <2>4. boot'.doc >= wrote[q]
    <3>1. candidate.doc >= wrote[q]
      BY <1>1, <1>4 DEF BrowserInv, WritesKept, Changing
    <3>2. candidate.doc \in Int /\ wrote[q] \in Int /\ boot'.doc \in Int
      <4>1. boot' \in Boots'
        BY DEF BrowserTypes, ClientTyped
      <4> QED BY <4>1, BrowserCopiesInt DEF BrowserInv, BrowserTypes, RequestsTyped,
           Boots, Versions, None
    <3> QED BY <2>2, <3>1, <3>2
  <2>5. StepsForward
    BY <1>1, <2>2, <2>4 DEF StepsForward, Ghost, hostVars
  <2> QED BY <1>1, <2>3, <2>5 DEF BrowserInv
<1> QED BY <1>3, <1>4, BrowserStateLands DEF BrowserInv

\* VoidLands and RoutingLands keep the invariant: they merge no state.
LEMMA BrowserOthersKeep ==
    ASSUME BrowserInv, BrowserTypes', NEW q \in Requests, VoidLands(q) \/ RoutingLands(q)
    PROVE  BrowserInv' /\ StepsForward
<1>1. PICK k \in {"void", "routing"} : Landing(q, k)
  BY DEF VoidLands, RoutingLands
<1>2. /\ UNCHANGED hostVars /\ UNCHANGED <<kind, wrote>>
      /\ kind[q] = k
      /\ \A p \in Requests : p # q => request'[p] = request[p]
      /\ \A p \in Requests : request'[p].body \in Copies
      /\ WritesKept'
  BY <1>1, BrowserLandingEnds
<1>3. boot'.doc = boot.doc /\ boot'.rev = boot.rev
        /\ refresh'.body \in {refresh.body, NoBoot}
  BY BrowserVoidLands, BrowserRoutingLands DEF BrowserInv, VoidLands
<1>4. boot \in Copies /\ refresh'.body \in Copies /\ boot.doc \in Int
  BY <1>3, BrowserCopiesInt DEF Copies, BrowserInv
<1>5. StatesOrdered'
  BY <1>2, <1>3, <1>4, BrowserOrderKept DEF BrowserInv, Twins
<1>6. StepsForward
  BY <1>2, <1>3, <1>4 DEF StepsForward
<1> QED BY <1>2, <1>5, <1>6 DEF BrowserInv

\* Every step keeps the invariant and moves forward.
LEMMA BrowserStep ==
    MixesAssumption /\ BrowserInv /\ [ClientNext]_storeVars => BrowserInv' /\ StepsForward
<1> SUFFICES ASSUME MixesAssumption, BrowserInv, [ClientNext]_storeVars
             PROVE  BrowserInv' /\ StepsForward
  OBVIOUS
<1>0. BrowserTypes'
  BY BrowserTyped DEF BrowserInv
<1>1. CASE HostStep
  BY <1>0, <1>1, BrowserRunKeeps, BrowserCommitKeeps, BrowserRunWorksKeeps,
       BrowserAnswerRefreshKeeps,
     BrowserRequestKeeps, BrowserSaveRoutingKeeps, BrowserAnswerKeeps DEF HostStep
<1>2. CASE ClientStep
  BY <1>0, <1>2, BrowserRefreshLandsKeeps, BrowserConnectKeeps,
       BrowserConfigurationKeeps, BrowserRevisionKeeps,
     BrowserActivityKeeps, BrowserMutateKeeps, BrowserStateKeeps, BrowserOthersKeep
     DEF ClientStep, Lands
<1>3. CASE ForeignChange \/ RoutingChange \/ RejectChange \/ RefreshFails \/ Drop
  BY <1>0, <1>3, BrowserForeignKeeps, BrowserRoutingChangeKeeps, BrowserRejectKeeps,
       BrowserRefreshFailsKeeps, BrowserDropKeeps
<1>4. ASSUME NEW q \in Requests, Send(q) \/ RequestFails(q)
      PROVE  BrowserInv' /\ StepsForward
  BY <1>0, <1>4, BrowserSendKeeps, BrowserRequestFailsKeeps
<1>5. CASE UNCHANGED storeVars
  BY <1>0, <1>5, BrowserStuttersKeep
<1> QED BY <1>1, <1>2, <1>3, <1>4, <1>5 DEF ClientNext

\* Whatever the order in which answers, events and reconnections arrive, the screen never
\* goes back to an older document unless it then shows one that was undone, and an answered
\* change of this browser is on it.
THEOREM ScreenTheorem == ASSUME MixesAssumption PROVE ClientSpec => ShownMovesForward
<1>1. ClientInit => BrowserInv
  <2> SUFFICES ASSUME ClientInit PROVE BrowserInv
    OBVIOUS
  <2>1. \A q \in Requests : saving # q /\ request[q].phase = "idle"
    BY DEF ClientInit, Idle, MixesAssumption
  <2> QED
    BY <2>1, BrowserInit, BrowserOrderInit DEF BrowserInv, WritesKept
<1>2. BrowserInv /\ [ClientNext]_storeVars => BrowserInv'
  BY BrowserStep
<1>3. BrowserInv /\ [ClientNext]_storeVars => [boot'.doc >= boot.doc \/ Ghost']_boot
  BY BrowserStep DEF StepsForward
<1>4. BrowserInv /\ [ClientNext]_storeVars =>
        [\A q \in Requests :
          /\ request[q].phase = "answered" /\ request'[q].phase = "done"
          /\ \/ kind[q] \in {"mutate", "remove-agent"}
             \/ kind[q] = "state" /\ boot # NoBoot
          => boot'.doc >= wrote[q]]_request
  BY BrowserStep DEF StepsForward
<1> QED
  BY <1>1, <1>2, <1>3, <1>4, PTL DEF ClientSpec, ShownMovesForward, ShownNeverGoesBack,
       OwnWritesShown

=============================================================================
