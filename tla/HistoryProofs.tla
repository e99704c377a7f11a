--------------------------- MODULE HistoryProofs ---------------------------
(***************************************************************************)
(* No file of a conversation is forgotten or lost, and a retention removes *)
(* exactly what was shown, for any messages, files and numbers of events.  *)
(*                                                                         *)
(* The argument goes over the three documents there are while a section    *)
(* holds the lock: the one in memory, the one on disk and the one a        *)
(* rejected persist goes back to.  Each of them must account for every     *)
(* file, since any of them may be what the next step starts from.          *)
(***************************************************************************)
EXTENDS History, TLAPS

-----------------------------------------------------------------------------
(* The inductive invariant.                                                *)

\* A host that is down holds no lock and has no queue.
DownInv == host = "down" => step = "idle" /\ queue = <<>>

\* Outside a persist memory is what a rejected persist would go back to.
SettledInv == step \in {"idle", "cleaning"} => doc = previous

\* Sections that record a message.
Recording(section) == section.kind \in {"accept", "reply"}

\* A message waits in at most one recording section, and is in stage "queued" while
\* it waits.
QueueInv ==
    /\ \A i \in DOMAIN queue :
         /\ queue[i].kind \in {"accept", "reply", "delete"} => queue[i].message \in Messages
         /\ Recording(queue[i]) => stage[queue[i].message] = "queued"
         /\ queue[i].kind = "accept" => queue[i].message \notin Replies
         /\ queue[i].kind = "reply" => queue[i].message \in Replies
    /\ \A i, j \in DOMAIN queue :
         i # j /\ Recording(queue[i]) /\ Recording(queue[j])
           => queue[i].message # queue[j].message

\* A message's files are there from the time they are stored until it is decided.
StageInv ==
    \A m \in Messages :
      /\ stage[m] \in {"read", "prepared"} /\ m \in Replies => m \in Edits
      /\ stage[m] \in {"stored", "queued"} => FilesOf[m] \subseteq files

\* The document accounts for every file.
Covers(document) ==
    files \subseteq document.named \cup document.pending \cup InFlight \cup lost

\* What a document names or lists for removal belongs to messages it knows.
Owned(document) ==
    document.named \cup document.pending
      \subseteq UNION {FilesOf[m] : m \in {n \in Messages : document.status[n] # "none"}}

\* After a retention no earlier message is live, and before it none is removed.
RetainedInv(document) ==
    \A m \in Messages :
      /\ ~document.retained => document.status[m] # "removed"
      /\ document.retained /\ m \notin Edits /\ Source[m] \notin Edits
           => document.status[m] \in {"none", "removed"}

\* All three documents account for all files and name none that is missing.
DocumentInv ==
    \A document \in {doc, disk, previous} :
      /\ Covers(document)
      /\ document.named \cap document.pending = {}
      /\ Owned(document)
      /\ document.named \subseteq files \cup ghosts
      /\ RetainedInv(document)

\* A section of this kind is being saved.
Saves(kind) == step = "saving" /\ Head(queue).kind = kind

\* A document knows a message only when its send is over: the one in memory one step
\* earlier, while the holder saves it, and the one on disk also when its reply was
\* refused after state.json had been replaced.
StatusInv ==
    \A m \in Messages :
      /\ doc.status[m] # "none" =>
           \/ stage[m] = "over"
           \/ Subject = m /\ (Saves("accept") \/ Saves("reply"))
      /\ previous.status[m] # "none" => stage[m] = "over"
      /\ disk.status[m] # "none" => stage[m] \in {"refused", "over"}
      /\ stage[m] = "refused" => FilesOf[m] \cap disk.named \subseteq ghosts

\* What the section being saved has put into the document.
SavingInv ==
    /\ Saves("accept") \/ Saves("reply") => FilesOf[Subject] \subseteq doc.named
    /\ Saves("accept") => Subject \in Edits \/ ~doc.retained
    /\ Saves("retain") /\ ~preview.undone /\ ~previous.retained =>
         {m \in Messages : doc.status[m] = "removed"} = preview.shown

\* How far the document on disk and the one to go back to lie behind: they name no file
\* that is listed for removal, and agree on the retention unless it is being saved.
LagInv ==
    /\ disk.named \cap previous.pending = {}
    /\ doc.named \cap previous.pending = {}
    /\ previous.retained => doc.retained /\ disk.retained
    /\ doc.retained /\ ~previous.retained => Saves("retain")

\* No reply runs in a conversation that was retained, but in Threads of edits.
ActiveInv ==
    \A m \in Messages : doc.retained /\ Active(m) /\ m \notin Edits => Source[m] \in Edits

\* A preview of the current revision shows the current messages.
PreviewInv ==
    ~preview.undone =>
      /\ preview.revision <= doc.revision
      /\ preview.revision = doc.revision => preview.shown = Listed(doc)

\* The invariant that holds in every state.
HistoryInv ==
    /\ TypeOK /\ DownInv /\ SettledInv /\ QueueInv /\ StageInv /\ DocumentInv
    /\ StatusInv /\ SavingInv /\ LagInv /\ ActiveInv /\ PreviewInv

-----------------------------------------------------------------------------
(* Sequences.                                                              *)

\* The sections after the holder's.
LEMMA TailFacts ==
  ASSUME NEW S, queue \in Seq(S), queue # <<>>
  PROVE  /\ Head(queue) \in S /\ Head(queue) = queue[1] /\ 1 \in DOMAIN queue
         /\ Tail(queue) \in Seq(S)
         /\ \A i \in DOMAIN Tail(queue) :
              i + 1 \in DOMAIN queue /\ i + 1 # 1 /\ Tail(queue)[i] = queue[i + 1]
<1>1. DOMAIN queue = 1 .. Len(queue) /\ Len(queue) \in Nat /\ Len(queue) # 0
  OBVIOUS
<1>2. Tail(queue) \in Seq(S) /\ Len(Tail(queue)) = Len(queue) - 1
  OBVIOUS
<1>3. DOMAIN Tail(queue) = 1 .. Len(queue) - 1
  BY <1>2
<1>4. ASSUME NEW i \in 1 .. Len(queue) - 1
      PROVE  Tail(queue)[i] = queue[i + 1]
  OBVIOUS
<1> QED BY <1>1, <1>2, <1>3, <1>4

\* A section at the end of the queue.
LEMMA AppendFacts ==
  ASSUME NEW S, queue \in Seq(S), NEW section \in S
  PROVE  /\ Append(queue, section) \in Seq(S) /\ Append(queue, section) # <<>>
         /\ DOMAIN Append(queue, section) = DOMAIN queue \cup {Len(queue) + 1}
         /\ Len(queue) + 1 \notin DOMAIN queue
         /\ Append(queue, section)[Len(queue) + 1] = section
         /\ \A i \in DOMAIN queue : Append(queue, section)[i] = queue[i]
         /\ queue # <<>> => Head(Append(queue, section)) = Head(queue)
<1>1. DOMAIN queue = 1 .. Len(queue) /\ Len(queue) \in Nat
  OBVIOUS
<1>2. Append(queue, section) \in Seq(S) /\ Len(Append(queue, section)) = Len(queue) + 1
  OBVIOUS
<1>3. DOMAIN Append(queue, section) = 1 .. Len(queue) + 1
  BY <1>2
<1>4. \A i \in DOMAIN queue : Append(queue, section)[i] = queue[i]
  BY <1>1
<1>5. Append(queue, section)[Len(queue) + 1] = section
  BY <1>1
<1>6. queue # <<>> => Head(Append(queue, section)) = Head(queue)
  OBVIOUS
<1> QED BY <1>1, <1>2, <1>3, <1>4, <1>5, <1>6

-----------------------------------------------------------------------------
(* The fields of a document after an edit.                                 *)

\* The sections, stages and previews there are.
Sections == [kind : Kinds, message : Messages \cup {Nothing}]
Stages == {"none", "prepared", "read", "working", "stored", "queued", "refused", "over"}
Previews == [shown : SUBSET Messages, revision : Nat, undone : BOOLEAN, used : BOOLEAN]

\* The holder's section is one of the queue.
LEMMA SubjectFacts ==
  ASSUME TypeOK, queue # <<>>
  PROVE  /\ Head(queue) \in Sections /\ Subject \in Messages \cup {Nothing}
         /\ Tail(queue) \in Seq(Sections)
<1>1. queue \in Seq(Sections)
  BY DEF TypeOK, Sections
<1>2. Head(queue) \in Sections /\ Tail(queue) \in Seq(Sections)
  BY <1>1, TailFacts
<1> QED BY <1>2 DEF Sections, Subject

\* A section that records or deletes is about a message, and a message that is to be
\* recorded is still queued.
LEMMA SubjectIsMessage ==
  ASSUME TypeOK, QueueInv, queue # <<>>, Head(queue).kind \in {"accept", "reply", "delete"}
  PROVE  /\ Subject \in Messages
         /\ Recording(Head(queue)) => stage[Subject] = "queued"
         /\ Head(queue).kind = "accept" => Subject \notin Replies
         /\ Head(queue).kind = "reply" => Subject \in Replies
<1>1. queue \in Seq(Sections)
  BY DEF TypeOK, Sections
<1> QED BY <1>1, TailFacts DEF Subject, QueueInv

\* The document with a message recorded.
LEMMA RecordedFields ==
  ASSUME TypeOK, NEW m \in Messages,
         doc' = [Recorded(m) EXCEPT !.revision = @ + 1]
  PROVE  /\ doc' \in Documents
         /\ doc'.status = [doc.status EXCEPT ![m] = "live"]
         /\ doc'.named = doc.named \cup FilesOf[m] /\ doc'.pending = doc.pending
         /\ doc'.revision = doc.revision + 1 /\ doc'.retained = doc.retained
<1>1. doc \in Documents /\ FilesOf[m] \in SUBSET Files
  BY HistoryAssumption DEF TypeOK
<1>2. /\ doc'.status = [doc.status EXCEPT ![m] = "live"]
      /\ doc'.named = doc.named \cup FilesOf[m] /\ doc'.pending = doc.pending
      /\ doc'.revision = doc.revision + 1 /\ doc'.retained = doc.retained
  BY <1>1 DEF Recorded, Documents
<1>3. doc' = [status |-> doc'.status, named |-> doc'.named, pending |-> doc'.pending,
              revision |-> doc'.revision, retained |-> doc'.retained]
  BY <1>1 DEF Recorded, Documents
<1>4. doc'.status \in [Messages -> Statuses] /\ doc'.revision \in Nat
  BY <1>1, <1>2 DEF Documents, Statuses
<1> QED BY <1>1, <1>2, <1>3, <1>4 DEF Documents

\* The document with a message deleted.
LEMMA TombstoneFields ==
  ASSUME TypeOK, NEW m \in Messages,
         doc' = [Tombstone(m) EXCEPT !.revision = @ + 1]
  PROVE  /\ doc' \in Documents
         /\ doc'.status = [doc.status EXCEPT ![m] = "deleted"]
         /\ doc'.named = doc.named \ FilesOf[m]
         /\ doc'.pending = doc.pending \cup (doc.named \cap FilesOf[m])
         /\ doc'.revision = doc.revision + 1 /\ doc'.retained = doc.retained
<1>1. doc \in Documents /\ FilesOf[m] \in SUBSET Files
  BY HistoryAssumption DEF TypeOK
<1>2. /\ doc'.status = [doc.status EXCEPT ![m] = "deleted"]
      /\ doc'.named = doc.named \ FilesOf[m]
      /\ doc'.pending = doc.pending \cup (doc.named \cap FilesOf[m])
      /\ doc'.revision = doc.revision + 1 /\ doc'.retained = doc.retained
  BY <1>1 DEF Tombstone, Documents
<1>3. doc' = [status |-> doc'.status, named |-> doc'.named, pending |-> doc'.pending,
              revision |-> doc'.revision, retained |-> doc'.retained]
  BY <1>1 DEF Tombstone, Documents
<1>4. doc'.status \in [Messages -> Statuses] /\ doc'.revision \in Nat
  BY <1>1, <1>2 DEF Documents, Statuses
<1> QED BY <1>1, <1>2, <1>3, <1>4 DEF Documents

\* The document after a retention.
LEMMA WithoutHistoryFields ==
  ASSUME TypeOK, doc' = [WithoutHistory EXCEPT !.revision = @ + 1]
  PROVE  /\ doc' \in Documents
         /\ doc'.status = [m \in Messages |-> IF doc.status[m] = "none" THEN "none"
                                                                      ELSE "removed"]
         /\ doc'.named = {} /\ doc'.pending = doc.pending \cup doc.named
         /\ doc'.revision = doc.revision + 1 /\ doc'.retained = TRUE
<1>1. doc \in Documents
  BY DEF TypeOK
<1>2. /\ doc'.status = [m \in Messages |-> IF doc.status[m] = "none" THEN "none"
                                                                   ELSE "removed"]
      /\ doc'.named = {} /\ doc'.pending = doc.pending \cup doc.named
      /\ doc'.revision = doc.revision + 1 /\ doc'.retained = TRUE
  BY <1>1 DEF WithoutHistory, Documents
<1>3. doc' = [status |-> doc'.status, named |-> doc'.named, pending |-> doc'.pending,
              revision |-> doc'.revision, retained |-> doc'.retained]
  BY <1>1 DEF WithoutHistory, Documents
<1>4. doc'.status \in [Messages -> Statuses] /\ doc'.revision \in Nat
  BY <1>1, <1>2 DEF Documents, Statuses
<1> QED BY <1>1, <1>2, <1>3, <1>4 DEF Documents

\* The document moved on by another conversation.
LEMMA SameFields ==
  ASSUME TypeOK, doc' = [doc EXCEPT !.revision = @ + 1]
  PROVE  /\ doc' \in Documents
         /\ doc'.status = doc.status /\ doc'.named = doc.named
         /\ doc'.pending = doc.pending /\ doc'.retained = doc.retained
         /\ doc'.revision = doc.revision + 1
<1>1. doc \in Documents
  BY DEF TypeOK
<1>2. /\ doc'.status = doc.status /\ doc'.named = doc.named
      /\ doc'.pending = doc.pending /\ doc'.retained = doc.retained
      /\ doc'.revision = doc.revision + 1
  BY <1>1 DEF Documents
<1>3. doc' = [status |-> doc'.status, named |-> doc'.named, pending |-> doc'.pending,
              revision |-> doc'.revision, retained |-> doc'.retained]
  BY <1>1 DEF Documents
<1>4. doc'.revision \in Nat
  BY <1>1, <1>2 DEF Documents
<1> QED BY <1>1, <1>2, <1>3, <1>4 DEF Documents

\* The document with nothing left to remove.
LEMMA ForgottenFields ==
  ASSUME TypeOK, doc' = [doc EXCEPT !.pending = {}]
  PROVE  /\ doc' \in Documents
         /\ doc'.status = doc.status /\ doc'.named = doc.named
         /\ doc'.pending = {} /\ doc'.retained = doc.retained
         /\ doc'.revision = doc.revision
BY DEF TypeOK, Documents

\* Forsake changes nothing of a preview but whether it was undone.
LEMMA ForsakeType ==
  ASSUME TypeOK, NEW document, Forsake(document)
  PROVE  /\ preview' \in Previews
         /\ preview'.shown = preview.shown /\ preview'.revision = preview.revision
         /\ preview'.undone = \/ preview.undone
                              \/ preview.revision > document.revision
                              \/ preview.revision = document.revision
                                 /\ preview.shown # Listed(document)
BY DEF TypeOK, Forsake, Previews

-----------------------------------------------------------------------------
(* The kinds of step there are.                                            *)

\* The holder keeps the lock, or goes on to clean.
KeepsHolder ==
    /\ step' = step \/ (step = "idle" /\ step' = "cleaning")
    /\ step = "saving" => Head(queue') = Head(queue)

SamePreview ==
    /\ preview'.shown = preview.shown /\ preview'.revision = preview.revision
    /\ preview'.undone = preview.undone

\* Documents, files and stages stay as they are.
Steady ==
    /\ UNCHANGED <<doc, disk, previous, files, stage, lost, ghosts>>
    /\ KeepsHolder
    /\ \/ SamePreview
       \/ /\ preview'.shown = Listed(doc) /\ preview'.revision = doc.revision
          /\ ~Saves("retain")

\* A send, an edit or a run of m goes on.
Moves(m) ==
    /\ UNCHANGED <<doc, disk, previous, preview, lost, ghosts>>
    /\ KeepsHolder
    /\ \E new \in Stages : stage' = [stage EXCEPT ![m] = new]
    /\ \/ /\ files' = files /\ stage[m] = "none" /\ stage'[m] \in {"prepared", "read"}
          /\ m \in Replies => m \in Edits
       \/ files' = files /\ stage[m] = "read" /\ stage'[m] \in {"prepared", "over"}
       \/ /\ files' = files \cup FilesOf[m]
          /\ stage[m] \in {"prepared", "working"} /\ stage'[m] = "stored"
       \/ files' = files /\ stage[m] \in {"prepared", "working"} /\ stage'[m] = "over"
       \/ files' = files /\ stage[m] = "stored" /\ stage'[m] = "queued"
       \/ /\ files' = files /\ stage[m] \in {"stored", "queued"} /\ stage'[m] = "refused"
          /\ stage[m] = "queued" => step = "idle"
       \/ /\ files' = files \ FilesOf[m] /\ stage'[m] = "over"
          /\ stage[m] = "refused" \/ (stage[m] = "queued" /\ step = "idle")

\* The holder edits the document.
EditsTo(document) ==
    /\ step = "idle" /\ step' = "saving" /\ queue # <<>>
    /\ previous' = doc
    /\ doc' = [document EXCEPT !.revision = @ + 1]
    /\ UNCHANGED <<disk, queue, files, stage, preview, lost, ghosts>>

\* The four edits, with what was checked for each.
EditStep ==
    \/ /\ EditsTo(Recorded(Subject)) /\ Recording(Head(queue))
       /\ Head(queue).kind = "accept" => Current(Subject)
    \/ /\ EditsTo(Tombstone(Subject)) /\ Head(queue).kind = "delete"
       /\ doc.status[Subject] = "live"
    \/ /\ EditsTo(WithoutHistory) /\ Head(queue).kind = "retain" /\ Confirmed
       /\ ~(\E m \in Messages : Active(m))
    \/ EditsTo(doc) /\ Head(queue).kind = "other"

\* The persist is done.
SaveStep ==
    /\ step \in {"saving", "forgetting"} /\ step' \in {"idle", "cleaning"}
    /\ disk' = doc /\ previous' = doc
    /\ UNCHANGED <<doc, files, preview, lost, ghosts>>
    /\ \/ Saves("accept") /\ stage' = Started(Subject)
       \/ Saves("reply") /\ At(Subject, "over")
       \/ ~Saves("accept") /\ ~Saves("reply") /\ stage' = stage

\* The persist rejects.
RejectStep ==
    /\ step \in {"saving", "forgetting"} /\ step' = "idle"
    /\ disk' \in {disk, doc}
    /\ doc' = previous /\ previous' = previous
    /\ Forsake(previous)
    /\ lost' = lost
    /\ \/ /\ Saves("accept") /\ At(Subject, "over")
          /\ files' = files \ FilesOf[Subject]
          /\ ghosts' = ghosts \cup (FilesOf[Subject] \cap disk'.named)
       \/ /\ Saves("reply") /\ At(Subject, "refused") /\ files' = files
          /\ ghosts' = ghosts \cup (FilesOf[Subject] \cap disk'.named)
       \/ /\ ~Saves("accept") /\ ~Saves("reply")
          /\ UNCHANGED <<files, stage, ghosts>>

\* Every step is of one of these kinds.
LEMMA HistorySteps ==
  ASSUME HistoryInv, [Next]_vars
  PROVE  \/ Steady
         \/ \E m \in Messages : Moves(m)
         \/ EditStep \/ SaveStep \/ RejectStep
         \/ RemoveFiles \/ RemoveFails \/ Crash
<1> USE DEF HistoryInv
<1>t. /\ queue \in Seq(Sections)
      /\ stage \in [Messages -> Stages]
      /\ step # "idle" => queue # <<>>
  BY DEF TypeOK, Sections, Stages
<1>s. queue # <<>> /\ Head(queue).kind \in {"accept", "reply", "delete"} =>
        /\ Subject \in Messages
        /\ Recording(Head(queue)) => stage[Subject] = "queued"
  BY SubjectIsMessage
<1>a. ASSUME NEW section \in Sections, queue' = Append(queue, section), step' = step
      PROVE  KeepsHolder
  BY <1>a, <1>t, AppendFacts DEF KeepsHolder
<1>m. \A m \in Messages, k \in Kinds : Section(k, m) \in Sections
  BY DEF Section, Sections
<1>n. \A k \in Kinds : Section(k, Nothing) \in Sections
  BY DEF Section, Sections
<1>1. CASE UNCHANGED vars
  BY <1>1 DEF vars, lock, Steady, KeepsHolder, SamePreview
<1>2. ASSUME NEW m \in Messages,
             \/ Send(m) \/ StartEdit(m) \/ ReadSource(m) \/ Store(m)
             \/ RemoveRefused(m) \/ TurnEnds(m)
      PROVE  Moves(m)
  BY <1>2, <1>t
     DEF Send, StartEdit, ReadSource, Store, RemoveRefused, TurnEnds, At, lock, Moves,
         KeepsHolder, Stages
<1>3. ASSUME NEW m \in Messages, AskAccept(m) \/ AskReply(m)
      PROVE  Moves(m)
  <2>1. KeepsHolder
    BY <1>3, <1>a, <1>m DEF AskAccept, AskReply, Enqueue, lock, KeepsHolder, Kinds
  <2> QED BY <1>3, <1>t, <2>1 DEF AskAccept, AskReply, At, Moves, Stages, Enqueue, lock
<1>4. ASSUME NEW m \in Messages, Delete(m)
      PROVE  Steady
  <2>1. KeepsHolder
    BY <1>4, <1>a, <1>m DEF Delete, Enqueue, Kinds
  <2> QED BY <1>4, <2>1 DEF Delete, Enqueue, Steady, SamePreview
<1>5. CASE Preview
  <2>1. ~Saves("retain")
    BY <1>5, <1>t, TailFacts DEF Preview, Saves
  <2> QED BY <1>5, <2>1 DEF Preview, Steady, KeepsHolder, lock
<1>6. CASE Apply
  <2>1. KeepsHolder
    BY <1>6, <1>a, <1>n DEF Apply, Enqueue, Kinds
  <2>2. SamePreview
    BY <1>6 DEF Apply, SamePreview, TypeOK
  <2> QED BY <1>6, <2>1, <2>2 DEF Apply, Enqueue, Steady
<1>7. CASE AskOther \/ AskCleanup
  <2>1. KeepsHolder
    BY <1>7, <1>a, <1>n DEF AskOther, AskCleanup, Enqueue, Kinds
  <2> QED BY <1>7, <2>1 DEF AskOther, AskCleanup, Enqueue, Steady, SamePreview
<1>8. CASE Restart
  BY <1>8 DEF Restart, Steady, SamePreview, KeepsHolder, DownInv
<1>9. CASE BeginAccept
  <2>1. CASE Edit(Recorded(Subject))
    BY <1>9, <2>1, Zenon DEF BeginAccept, Begins, Edit, EditStep, EditsTo, Recording,
                             Leave
  <2>2. CASE Leave
    <3>1. Moves(Subject)
      BY <1>9, <1>s, <1>t, <2>2
         DEF BeginAccept, Begins, Leave, Edit, Moves, KeepsHolder, Stages, At, Recording
    <3> QED BY <1>9, <1>s, <3>1 DEF BeginAccept, Begins
  <2> QED BY <1>9, <2>1, <2>2 DEF BeginAccept
<1>10. CASE BeginReply
  <2>1. CASE Edit(Recorded(Subject))
    BY <1>10, <2>1 DEF BeginReply, Begins, Edit, EditStep, EditsTo, Recording, Leave
  <2>2. CASE Leave
    <3>1. Moves(Subject)
      BY <1>10, <1>s, <1>t, <2>2
         DEF BeginReply, Begins, Leave, Edit, Moves, KeepsHolder, Stages, At, Recording
    <3> QED BY <1>10, <1>s, <3>1 DEF BeginReply, Begins
  <2> QED BY <1>10, <2>1, <2>2 DEF BeginReply
<1>11. CASE BeginDelete
  <2>1. CASE Edit(Tombstone(Subject)) /\ doc.status[Subject] = "live"
    BY <1>11, <2>1 DEF BeginDelete, Begins, Edit, EditStep, EditsTo
  <2>2. CASE Leave \/ Clean
    BY <1>11, <2>2 DEF BeginDelete, Begins, Leave, Clean, Steady, KeepsHolder, SamePreview
  <2> QED BY <1>11, <2>1, <2>2 DEF BeginDelete
<1>12. CASE BeginRetain
  <2>1. CASE Confirmed /\ ~(\E m \in Messages : Active(m))
    BY <1>12, <2>1 DEF BeginRetain, Begins, Edit, EditStep, EditsTo
  <2>2. CASE ~(Confirmed /\ ~(\E m \in Messages : Active(m)))
    BY <1>12, <2>2 DEF BeginRetain, Begins, Leave, Steady, KeepsHolder, SamePreview
  <2> QED BY <2>1, <2>2
<1>13. CASE BeginOther
  BY <1>13 DEF BeginOther, Begins, Edit, EditStep, EditsTo
<1>14. CASE BeginCleanup
  BY <1>14 DEF BeginCleanup, Leave, Clean, Steady, KeepsHolder, SamePreview
<1>15. CASE EndAccept
  <2>1. CASE Saved("idle") /\ stage' = Started(Subject) /\ UNCHANGED <<files, ghosts>>
    BY <1>15, <2>1 DEF EndAccept, Saving, Saved, SaveStep, Saves
  <2>2. CASE Rejected /\ files' = files \ FilesOf[Subject] /\ At(Subject, "over")
             /\ ghosts' = ghosts \cup (FilesOf[Subject] \cap disk'.named)
    BY <1>15, <2>2 DEF EndAccept, Saving, RejectStep, Saves, Rejected, Rollback
  <2> QED BY <1>15, <2>1, <2>2 DEF EndAccept
<1>16. CASE EndReply
  <2>1. CASE Saved("idle") /\ At(Subject, "over") /\ UNCHANGED ghosts
    BY <1>16, <2>1 DEF EndReply, Saving, Saved, SaveStep, Saves
  <2>2. CASE Rejected /\ At(Subject, "refused")
             /\ ghosts' = ghosts \cup (FilesOf[Subject] \cap disk'.named)
    BY <1>16, <2>2 DEF EndReply, Saving, RejectStep, Saves, Rejected, Rollback
  <2> QED BY <1>16, <2>1, <2>2 DEF EndReply
<1>17. ASSUME step \in {"saving", "forgetting"}, ~Saves("accept"), ~Saves("reply"),
              UNCHANGED <<files, stage, lost, ghosts>>,
              Rejected \/ (\E next \in {"idle", "cleaning"} : Saved(next))
       PROVE  SaveStep \/ RejectStep
  BY <1>17 DEF Saved, SaveStep, Rejected, Rollback, RejectStep
<1>18. CASE EndDelete \/ EndRetain \/ EndOther
  BY <1>17, <1>18 DEF EndDelete, EndRetain, EndOther, Saving, Saves
<1>19. CASE EndForget
  BY <1>17, <1>19 DEF EndForget, Saves
<1> QED BY <1>1, <1>2, <1>3, <1>4, <1>5, <1>6, <1>7, <1>8, <1>9, <1>10, <1>11, <1>12, <1>13,
           <1>14, <1>15, <1>16, <1>18, <1>19
       DEF Next, HostStep, MessageStep, LockStep

\* A failed removal leaves the documents alone.
LEMMA RemoveFailsDoc ==
  ASSUME RemoveFails
  PROVE  doc' = doc /\ previous' = previous /\ disk' = disk
BY DEF RemoveFails, KeptPending

\* An edit moves the revision on by one.
LEMMA EditFields ==
  ASSUME HistoryInv, EditStep
  PROVE  /\ doc' \in Documents
         /\ doc'.revision = doc.revision + 1
<1>1. /\ TypeOK /\ queue # <<>>
      /\ Head(queue).kind \in {"accept", "reply", "delete"} => Subject \in Messages
  BY SubjectIsMessage DEF HistoryInv, EditStep, EditsTo
<1> QED BY <1>1, RecordedFields, TombstoneFields, WithoutHistoryFields, SameFields
        DEF EditStep, EditsTo, Recording

-----------------------------------------------------------------------------
(* Types and the queue.                                                    *)

\* How the queue may change.
QueueStep ==
    \/ queue' = queue /\ (step' # "idle" => queue # <<>>)
    \/ \E section \in Sections :
         /\ queue' = Append(queue, section) /\ step' = step /\ host = "up" /\ host' = "up"
         /\ \/ /\ ~Recording(section) /\ stage' = stage
               /\ section.kind = "delete" => section.message \in Messages
            \/ /\ Recording(section) /\ section.message \in Messages
               /\ stage[section.message] = "stored"
               /\ stage' = [stage EXCEPT ![section.message] = "queued"]
               /\ section.kind = "accept" <=> section.message \notin Replies
    \/ queue # <<>> /\ queue' = Tail(queue) /\ step' = "idle" /\ host' = "up"
    \/ queue' = <<>> /\ step' = "idle"
    \/ queue' = <<Section("cleanup", Nothing)>> /\ step' = "idle"

\* Every step changes the queue in one of these ways.
LEMMA QueueSteps ==
  ASSUME HistoryInv, [Next]_vars
  PROVE  QueueStep
<1>t. step # "idle" => queue # <<>>
  BY DEF HistoryInv, TypeOK
<1>1. CASE UNCHANGED vars
  BY <1>1, <1>t DEF vars, lock, QueueStep
<1>2. ASSUME NEW m \in Messages,
             Send(m) \/ StartEdit(m) \/ ReadSource(m) \/ Store(m) \/ RemoveRefused(m) \/ TurnEnds(m)
      PROVE  QueueStep
  BY <1>2, <1>t
     DEF Send, StartEdit, ReadSource, Store, RemoveRefused, TurnEnds, lock, QueueStep
<1>3. ASSUME NEW m \in Messages, AskAccept(m)
      PROVE  QueueStep
  <2>1. CASE Enqueue(Section("accept", m)) /\ At(m, "queued")
    <3>1. Section("accept", m) \in Sections
      BY DEF Section, Sections, Kinds
    <3> QED BY <1>3, <2>1, <3>1 DEF AskAccept, Enqueue, At, QueueStep, Recording, Section
  <2>2. CASE UNCHANGED lock
    BY <1>t, <2>2 DEF lock, QueueStep
  <2> QED BY <1>3, <2>1, <2>2 DEF AskAccept
<1>4. ASSUME NEW m \in Messages, AskReply(m)
      PROVE  QueueStep
  <2>1. Section("reply", m) \in Sections
    BY DEF Section, Sections, Kinds
  <2> QED BY <1>4, <2>1 DEF AskReply, Enqueue, At, QueueStep, Recording, Section
<1>5. ASSUME NEW m \in Messages, Delete(m)
      PROVE  QueueStep
  <2>1. Section("delete", m) \in Sections
    BY DEF Section, Sections, Kinds
  <2> QED BY <1>5, <2>1 DEF Delete, Enqueue, QueueStep, Recording, Section
<1>6. ASSUME NEW k \in {"retain", "cleanup", "other"}, Enqueue(Section(k, Nothing)),
             host = "up", host' = "up", stage' = stage
      PROVE  QueueStep
  <2>1. Section(k, Nothing) \in Sections
    BY DEF Section, Sections, Kinds
  <2> QED BY <1>6, <2>1 DEF Enqueue, QueueStep, Recording, Section
<1>7. CASE Apply \/ AskOther \/ AskCleanup
  BY <1>6, <1>7 DEF Apply, AskOther, AskCleanup
<1>8. CASE Preview
  BY <1>8, <1>t DEF Preview, lock, QueueStep
<1>9. CASE Restart
  BY <1>9 DEF Restart, StartWork, QueueStep, HistoryInv, DownInv
<1>10. CASE Crash
  BY <1>10 DEF Crash, QueueStep
<1>11. CASE BeginAccept \/ BeginReply \/ BeginDelete \/ BeginRetain \/ BeginOther \/ BeginCleanup
  BY <1>11
     DEF BeginAccept, BeginReply, BeginDelete, BeginRetain, BeginOther, BeginCleanup,
         Begins, Edit, Leave, Clean, QueueStep
<1>12. ASSUME queue # <<>>, host' = "up",
              Rejected \/ (\E next \in {"idle", "cleaning"} : Saved(next))
       PROVE  QueueStep
  BY <1>12 DEF Saved, Rejected, QueueStep
<1>13. CASE EndAccept \/ EndReply \/ EndDelete \/ EndRetain \/ EndOther \/ EndForget
  BY <1>12, <1>13, <1>t
     DEF EndAccept, EndReply, EndDelete, EndRetain, EndOther, EndForget, Saving
<1>14. CASE RemoveFiles \/ RemoveFails
  BY <1>14, <1>t DEF RemoveFiles, RemoveFails, QueueStep
<1> QED BY <1>1, <1>2, <1>3, <1>4, <1>5, <1>7, <1>8, <1>9, <1>10, <1>11, <1>13, <1>14
        DEF Next, HostStep, MessageStep, LockStep

\* Every step preserves the types.
LEMMA TypeOKStep ==
  ASSUME HistoryInv, [Next]_vars
  PROVE  TypeOK'
<1>t. TypeOK /\ QueueInv
  BY DEF HistoryInv
<1>1. {doc, disk, previous}' \subseteq Documents
  <2>d. doc \in Documents /\ disk \in Documents /\ previous \in Documents
    BY <1>t DEF TypeOK
  <2>1. CASE EditStep
    BY <2>d, <2>1, EditFields DEF EditStep, EditsTo
  <2>2. CASE RemoveFiles
    BY <1>t, <2>d, <2>2, ForgottenFields DEF RemoveFiles
  <2>3. CASE RemoveFails
    BY <2>d, <2>3, RemoveFailsDoc
  <2>4. CASE Crash
    BY <2>d, <2>4 DEF Crash
  <2>5. CASE Steady \/ (\E m \in Messages : Moves(m)) \/ SaveStep \/ RejectStep
    BY <2>d, <2>5 DEF Steady, Moves, SaveStep, RejectStep
  <2> QED BY <2>1, <2>2, <2>3, <2>4, <2>5, HistorySteps
<1>2. files' \subseteq Files /\ lost' \subseteq Files /\ ghosts' \subseteq Files
      /\ stage' \in [Messages -> Stages]
  <2>t. /\ files \subseteq Files /\ lost \subseteq Files /\ ghosts \subseteq Files
        /\ stage \in [Messages -> Stages]
        /\ \A m \in Messages : FilesOf[m] \subseteq Files
    BY <1>t, HistoryAssumption DEF TypeOK, Stages
  <2>f. disk'.named \subseteq Files
    BY <1>1 DEF Documents
  <2>s. step # "idle" => queue # <<>>
    BY <1>t DEF TypeOK
  <2>1. CASE \E m \in Messages : Moves(m)
    BY <2>1, <2>t DEF Moves
  <2>2. CASE SaveStep
    BY <2>2, <2>t DEF SaveStep, Started, At, Stages
  <2>3. CASE RejectStep
    BY <2>3, <2>t, <2>f DEF RejectStep, At, Stages
  <2>4. CASE RemoveFiles \/ RemoveFails
    BY <2>4, <2>t DEF RemoveFiles, RemoveFails
  <2>5. CASE Crash
    BY <2>5, <2>t DEF Crash, Stages
  <2>6. CASE Steady \/ EditStep
    BY <2>6, <2>t DEF Steady, EditStep, EditsTo
  <2> QED BY <2>1, <2>2, <2>3, <2>4, <2>5, <2>6, HistorySteps
<1>3. preview' \in Previews
  <2>p. preview \in Previews /\ doc \in Documents
    BY <1>t DEF TypeOK, Previews
  <2>1. CASE Preview
    BY <2>1, <2>p DEF Preview, Previews, Documents, Listed
  <2>2. CASE Apply
    BY <2>2, <2>p DEF Apply, Previews
  <2>3. ASSUME NEW document, Forsake(document)
        PROVE  preview' \in Previews
    BY <1>t, <2>3, ForsakeType
  <2>4. CASE Rejected \/ Crash
    BY <2>3, <2>4 DEF Rejected, Crash
  <2>5. CASE ~Preview /\ ~Apply /\ ~Rejected /\ ~Crash
    <3>1. preview' = preview
      BY <2>5
         DEF Next, HostStep, MessageStep, LockStep, vars, lock, Send, StartEdit,
             ReadSource, Store, AskAccept, RemoveRefused, BeginAccept, EndAccept, TurnEnds,
             AskReply, BeginReply, EndReply, Delete, BeginDelete, EndDelete, BeginRetain,
             EndRetain, AskCleanup, AskOther, BeginOther, EndOther, BeginCleanup,
             RemoveFiles, RemoveFails, EndForget, Restart, Saved
    <3> QED BY <2>p, <3>1
  <2> QED BY <2>1, <2>2, <2>4, <2>5
<1>4. left' \in [Events -> Nat]
  <2>p. left \in [Events -> Nat]
    BY <1>t DEF TypeOK
  <2>1. ASSUME NEW e \in Events, Spend(e)
        PROVE  left' \in [Events -> Nat]
    <3>1. left[e] \in Nat /\ left[e] > 0
      BY <2>p, <2>1 DEF Spend
    <3>2. left[e] - 1 \in Nat
      BY <3>1
    <3> QED BY <2>p, <2>1, <3>2 DEF Spend
  <2>2. (\E e \in Events : Spend(e)) \/ left' = left
    BY DEF Next, HostStep, MessageStep, LockStep, vars, lock, Send, StartEdit, ReadSource,
           Store, AskAccept, RemoveRefused, BeginAccept, EndAccept, TurnEnds, AskReply,
           BeginReply, EndReply, Delete, Preview, Apply, BeginDelete, EndDelete,
           BeginRetain, EndRetain, AskCleanup, AskOther, BeginOther, EndOther,
           BeginCleanup, RemoveFiles, RemoveFails, EndForget, Crash, Restart, Saved,
           Rejected, Events
  <2> QED BY <2>p, <2>1, <2>2
<1>5. /\ retention' \in {"none", "saved"} /\ host' \in {"up", "starting", "down"}
      /\ unclean' \in BOOLEAN
  <2>1. /\ retention \in {"none", "saved"} /\ host \in {"up", "starting", "down"}
        /\ unclean \in BOOLEAN
    BY <1>t DEF TypeOK
  <2>2. retention' \in {"none", "saved", retention}
    BY DEF Next, HostStep, MessageStep, LockStep, vars, Send, StartEdit, ReadSource, Store,
           AskAccept, RemoveRefused, BeginAccept, EndAccept, TurnEnds, AskReply,
           BeginReply, EndReply, Delete, Preview, Apply, BeginDelete, EndDelete,
           BeginRetain, EndRetain, AskCleanup, AskOther, BeginOther, EndOther,
           BeginCleanup, RemoveFiles, RemoveFails, EndForget, Crash, Restart
  <2>3. host' \in {"up", "starting", "down", host}
    BY DEF Next, HostStep, MessageStep, LockStep, vars, Send, StartEdit, ReadSource, Store,
           AskAccept, RemoveRefused, BeginAccept, EndAccept, TurnEnds, AskReply,
           BeginReply, EndReply, Delete, Preview, Apply, BeginDelete, EndDelete,
           BeginRetain, EndRetain, AskCleanup, AskOther, BeginOther, EndOther,
           BeginCleanup, RemoveFiles, RemoveFails, EndForget, Crash, Restart
  <2>4. unclean' = unclean \/ unclean' = TRUE
    BY DEF Next, HostStep, MessageStep, LockStep, vars, Send, StartEdit, ReadSource, Store,
           AskAccept, RemoveRefused, BeginAccept, EndAccept, TurnEnds, AskReply,
           BeginReply, EndReply, Delete, Preview, Apply, BeginDelete, EndDelete,
           BeginRetain, EndRetain, AskCleanup, AskOther, BeginOther, EndOther,
           BeginCleanup, RemoveFiles, RemoveFails, EndForget, Crash, Restart
  <2> QED BY <2>1, <2>2, <2>3, <2>4
<1>6. queue' \in Seq(Sections) /\ (step' # "idle" => queue' # <<>>)
  <2>q. queue \in Seq(Sections)
    BY <1>t DEF TypeOK, Sections
  <2>1. ASSUME NEW section \in Sections, queue' = Append(queue, section)
        PROVE  queue' \in Seq(Sections) /\ queue' # <<>>
    BY <2>q, <2>1, AppendFacts
  <2>2. CASE queue # <<>> /\ queue' = Tail(queue) /\ step' = "idle"
    BY <2>q, <2>2, TailFacts
  <2>3. Section("cleanup", Nothing) \in Sections
    BY DEF Section, Sections, Kinds
  <2>4. CASE \/ queue' = <<>> /\ step' = "idle"
             \/ (queue' = <<Section("cleanup", Nothing)>> /\ step' = "idle")
    <3>1. \A s \in Sections : <<s>> \in Seq(Sections)
      OBVIOUS
    <3>2. <<>> \in Seq(Sections)
      OBVIOUS
    <3> QED BY <2>3, <2>4, <3>1, <3>2
  <2>5. CASE queue' = queue /\ (step' # "idle" => queue # <<>>)
    BY <2>q, <2>5
  <2> QED BY <2>1, <2>2, <2>4, <2>5, QueueSteps DEF QueueStep
<1>7. step' \in {"idle", "saving", "cleaning", "forgetting"}
  <2>1. step \in {"idle", "saving", "cleaning", "forgetting"}
    BY <1>t DEF TypeOK
  <2> QED BY <2>1, HistorySteps
             DEF Steady, KeepsHolder, Moves, EditStep, EditsTo, SaveStep, RejectStep,
                 RemoveFiles, RemoveFails, Crash
<1> QED BY <1>1, <1>2, <1>3, <1>4, <1>5, <1>6, <1>7 DEF TypeOK, Stages, Sections, Previews

\* Every step preserves DownInv.
LEMMA DownStep ==
  ASSUME HistoryInv, [Next]_vars
  PROVE  DownInv'
<1> SUFFICES ASSUME host' = "down"
             PROVE  step' = "idle" /\ queue' = <<>>
  BY DEF DownInv
<1>1. CASE Crash
  BY <1>1 DEF Crash
<1>2. CASE ~Crash
  <2>1. host = "down" /\ UNCHANGED <<step, queue>>
    BY <1>2
       DEF HistoryInv, DownInv, Next, HostStep, MessageStep, LockStep, vars, lock, Send,
           StartEdit, ReadSource, Store, AskAccept, RemoveRefused, BeginAccept, EndAccept,
           TurnEnds, AskReply, BeginReply, EndReply, Delete, Preview, Apply, BeginDelete,
           EndDelete, BeginRetain, EndRetain, AskCleanup, AskOther, BeginOther, EndOther,
           BeginCleanup, RemoveFiles, RemoveFails, EndForget, Restart, Begins, Saving,
           StartWork
  <2> QED BY <2>1 DEF HistoryInv, DownInv
<1> QED BY <1>1, <1>2

\* Every step preserves SettledInv.
LEMMA SettledStep ==
  ASSUME HistoryInv, [Next]_vars
  PROVE  SettledInv'
<1>1. SettledInv
  BY DEF HistoryInv
<1>2. CASE Steady \/ (\E m \in Messages : Moves(m))
  BY <1>1, <1>2 DEF SettledInv, Steady, Moves, KeepsHolder
<1>3. CASE EditStep
  BY <1>3 DEF SettledInv, EditStep, EditsTo
<1>4. CASE SaveStep \/ RejectStep \/ RemoveFiles \/ Crash
  BY <1>4 DEF SettledInv, SaveStep, RejectStep, RemoveFiles, Crash
<1>5. CASE RemoveFails
  BY <1>1, <1>5 DEF SettledInv, RemoveFails, KeptPending
<1> QED BY <1>2, <1>3, <1>4, <1>5, HistorySteps

\* What a section of the queue needs of the stages.
SectionInv(section) ==
    /\ section.kind \in {"accept", "reply", "delete"} => section.message \in Messages
    /\ Recording(section) => stage[section.message] = "queued"
    /\ section.kind = "accept" => section.message \notin Replies
    /\ section.kind = "reply" => section.message \in Replies

\* No step takes a queued section's message out of its stage but the holder's own.
LEMMA StaysQueued ==
  ASSUME HistoryInv, [Next]_vars, NEW m \in Messages, stage[m] = "queued", host' # "down"
  PROVE  \/ stage'[m] = "queued"
         \/ queue # <<>> /\ queue' = Tail(queue) /\ Recording(Head(queue)) /\ Subject = m
<1>t. /\ stage \in [Messages -> Stages] /\ TypeOK /\ QueueInv
      /\ step # "idle" => queue # <<>>
  BY DEF HistoryInv, TypeOK, Stages
<1>1. CASE UNCHANGED vars
  BY <1>1 DEF vars
<1>2. ASSUME NEW n \in Messages,
             \/ Send(n) \/ StartEdit(n) \/ ReadSource(n) \/ Store(n)
             \/ RemoveRefused(n) \/ TurnEnds(n)
      PROVE  stage'[m] = "queued"
  BY <1>2, <1>t DEF Send, StartEdit, ReadSource, Store, RemoveRefused, TurnEnds, At
<1>3. ASSUME NEW n \in Messages, AskAccept(n) \/ AskReply(n)
      PROVE  stage'[m] = "queued"
  BY <1>3, <1>t DEF AskAccept, AskReply, At
<1>4. ASSUME queue # <<>>, Recording(Head(queue)), NEW new, At(Subject, new), queue' = Tail(queue)
      PROVE  \/ stage'[m] = "queued"
             \/ queue # <<>> /\ queue' = Tail(queue) /\ Recording(Head(queue)) /\ Subject = m
  BY <1>4, <1>t DEF At
<1>5. CASE BeginAccept \/ BeginReply
  <2>1. CASE stage' = stage
    BY <2>1
  <2>2. CASE stage' # stage
    BY <1>4, <1>5, <2>2 DEF BeginAccept, BeginReply, Begins, Leave, Recording
  <2> QED BY <2>1, <2>2
<1>6. CASE EndAccept
  <2>1. CASE stage' = Started(Subject) /\ Saved("idle")
    BY <1>6, <1>t, <2>1 DEF EndAccept, Saving, Started, Saved, Recording
  <2>2. CASE At(Subject, "over") /\ Rejected
    BY <1>4, <1>6, <1>t, <2>2 DEF EndAccept, Saving, Rejected, Recording
  <2> QED BY <1>6, <2>1, <2>2 DEF EndAccept
<1>7. CASE EndReply
  <2>1. queue # <<>> /\ Recording(Head(queue)) /\ queue' = Tail(queue)
    BY <1>7, <1>t DEF EndReply, Saving, Saved, Rejected, Recording
  <2> QED BY <1>4, <1>7, <2>1 DEF EndReply
<1>8. CASE Crash
  BY <1>8 DEF Crash
<1>9. CASE \/ (\E n \in Messages : Delete(n)) \/ Preview \/ Apply \/ AskOther \/ AskCleanup \/ Restart
           \/ BeginDelete \/ EndDelete \/ BeginRetain \/ EndRetain \/ BeginOther \/ EndOther
           \/ BeginCleanup \/ RemoveFiles \/ RemoveFails \/ EndForget
  BY <1>9
     DEF Delete, Preview, Apply, AskOther, AskCleanup, Restart, BeginDelete, EndDelete,
         BeginRetain, EndRetain, BeginOther, EndOther, BeginCleanup, RemoveFiles,
         RemoveFails, EndForget
<1> QED BY <1>1, <1>2, <1>3, <1>5, <1>6, <1>7, <1>8, <1>9
           DEF Next, HostStep, MessageStep, LockStep

\* Every step preserves QueueInv.
LEMMA QueueInvStep ==
  ASSUME HistoryInv, [Next]_vars
  PROVE  QueueInv'
<1>q. queue \in Seq(Sections) /\ QueueInv
  BY DEF HistoryInv, TypeOK, Sections
<1>1. CASE queue' = <<>>
  BY <1>1 DEF QueueInv
<1>2. CASE queue' = <<Section("cleanup", Nothing)>>
  <2>1. DOMAIN queue' = {1} /\ queue'[1] = Section("cleanup", Nothing)
    BY <1>2
  <2> QED BY <2>1 DEF QueueInv, Section, Recording
<1>3. ASSUME host' # "down", queue' = queue
      PROVE  QueueInv'
  <2>1. ASSUME NEW i \in DOMAIN queue, Recording(queue[i])
        PROVE  stage'[queue[i].message] = "queued"
    <3>1. queue[i].message \in Messages /\ stage[queue[i].message] = "queued"
      BY <1>q, <2>1 DEF QueueInv, Recording
    <3>2. queue # <<>> => queue # Tail(queue)
      BY <1>q
    <3> QED BY <1>3, <3>1, <3>2, StaysQueued
  <2> QED BY <1>3, <1>q, <2>1 DEF QueueInv, Recording
<1>4. ASSUME queue # <<>>, queue' = Tail(queue), host' # "down"
      PROVE  QueueInv'
  <2>1. /\ 1 \in DOMAIN queue /\ Head(queue) = queue[1]
        /\ \A i \in DOMAIN Tail(queue) :
             i + 1 \in DOMAIN queue /\ i + 1 # 1 /\ Tail(queue)[i] = queue[i + 1]
    BY <1>q, <1>4, TailFacts
  <2>2. ASSUME NEW i \in DOMAIN Tail(queue), Recording(queue[i + 1])
        PROVE  stage'[queue[i + 1].message] = "queued"
    <3>1. i + 1 \in DOMAIN queue /\ i + 1 # 1
      BY <2>1
    <3>2. queue[i + 1].message \in Messages /\ stage[queue[i + 1].message] = "queued"
      BY <1>q, <2>2, <3>1 DEF QueueInv, Recording
    <3>3. Recording(Head(queue)) => Subject # queue[i + 1].message
      BY <1>q, <2>1, <2>2, <3>1 DEF QueueInv, Subject
    <3> QED BY <1>4, <3>2, <3>3, StaysQueued
  <2>3. ASSUME NEW i \in DOMAIN queue', NEW j \in DOMAIN queue', i # j,
               Recording(queue'[i]), Recording(queue'[j])
        PROVE  queue'[i].message # queue'[j].message
    <3>1. /\ i + 1 \in DOMAIN queue /\ queue'[i] = queue[i + 1]
          /\ j + 1 \in DOMAIN queue /\ queue'[j] = queue[j + 1]
      BY <1>4, <2>1
    <3>2. i + 1 # j + 1
      <4>1. Tail(queue) \in Seq(Sections)
        BY <1>q, <1>4, TailFacts
      <4>2. i \in Nat /\ j \in Nat
        BY <1>4, <4>1
      <4> QED BY <2>3, <4>2
    <3> QED BY <1>q, <2>3, <3>1, <3>2 DEF QueueInv
  <2>4. ASSUME NEW i \in DOMAIN queue'
        PROVE  SectionInv(queue[i])'
    <3>1. i + 1 \in DOMAIN queue /\ i \in DOMAIN Tail(queue) /\ queue'[i] = queue[i + 1]
      BY <1>4, <2>1
    <3>2. SectionInv(queue[i + 1])
      BY <1>q, <3>1 DEF QueueInv, SectionInv
    <3>3. Recording(queue'[i]) => stage'[queue'[i].message] = "queued"
      BY <2>2, <3>1 DEF Recording
    <3> QED BY <3>1, <3>2, <3>3 DEF SectionInv, Recording
  <2> QED BY <2>3, <2>4 DEF QueueInv, SectionInv, Recording
<1>5. ASSUME NEW section \in Sections, queue' = Append(queue, section), host' = "up",
             \/ /\ ~Recording(section) /\ stage' = stage
                /\ section.kind = "delete" => section.message \in Messages
             \/ /\ Recording(section) /\ section.message \in Messages
                /\ stage[section.message] = "stored"
                /\ stage' = [stage EXCEPT ![section.message] = "queued"]
                /\ section.kind = "accept" <=> section.message \notin Replies
      PROVE  QueueInv'
  <2>s. stage \in [Messages -> Stages]
    BY DEF HistoryInv, TypeOK, Stages
  <2>1. /\ DOMAIN queue' = DOMAIN queue \cup {Len(queue) + 1}
        /\ Len(queue) + 1 \notin DOMAIN queue
        /\ queue'[Len(queue) + 1] = section
        /\ \A i \in DOMAIN queue : queue'[i] = queue[i]
    BY <1>5, <1>q, AppendFacts
  <2>2. ASSUME NEW i \in DOMAIN queue
        PROVE  /\ SectionInv(queue[i])'
               /\ Recording(queue[i]) /\ Recording(section) => queue[i].message # section.message
    BY <1>5, <1>q, <2>s DEF QueueInv, SectionInv, Recording
  <2>3. SectionInv(section)'
    BY <1>5, <2>s DEF SectionInv, Recording
  <2>4. \A i, j \in DOMAIN queue :
          i # j /\ Recording(queue[i]) /\ Recording(queue[j])
            => queue[i].message # queue[j].message
    BY <1>q DEF QueueInv
  <2> HIDE <1>5
  <2> QED BY <2>1, <2>2, <2>3, <2>4 DEF QueueInv, SectionInv, Recording
<1>6. CASE queue' = queue /\ host' = "down"
  BY <1>1, <1>6, DownStep DEF DownInv
<1>7. CASE queue # <<>> /\ queue' = Tail(queue) /\ host' = "up"
  BY <1>4, <1>7
<1>8. QueueStep
  BY QueueSteps
<1>9. CASE \E section \in Sections :
         /\ queue' = Append(queue, section) /\ step' = step /\ host = "up" /\ host' = "up"
         /\ \/ /\ ~Recording(section) /\ stage' = stage
               /\ section.kind = "delete" => section.message \in Messages
            \/ /\ Recording(section) /\ section.message \in Messages
               /\ stage[section.message] = "stored"
               /\ stage' = [stage EXCEPT ![section.message] = "queued"]
               /\ section.kind = "accept" <=> section.message \notin Replies
  BY <1>5, <1>9
<1> QED BY <1>1, <1>2, <1>3, <1>6, <1>7, <1>8, <1>9 DEF QueueStep

-----------------------------------------------------------------------------
(* What the invariant says of the holder and its document.                 *)

\* The parts of the invariant.
LEMMA Parts ==
  ASSUME HistoryInv
  PROVE  /\ TypeOK /\ DownInv /\ SettledInv /\ QueueInv /\ StageInv /\ DocumentInv
         /\ StatusInv /\ SavingInv /\ LagInv /\ ActiveInv /\ PreviewInv
         /\ stage \in [Messages -> Stages]
         /\ doc \in Documents /\ disk \in Documents /\ previous \in Documents
         /\ step # "idle" => queue # <<>>
BY DEF HistoryInv, TypeOK, Stages

\* What the invariant says of each document.
LEMMA DocumentParts ==
  ASSUME DocumentInv, NEW document \in {doc, disk, previous}
  PROVE  /\ Covers(document) /\ Owned(document) /\ RetainedInv(document)
         /\ document.named \cap document.pending = {}
         /\ document.named \subseteq files \cup ghosts
BY DEF DocumentInv

\* The files of a message a document does not know are not in it.
LEMMA Unrecorded ==
  ASSUME NEW document, Owned(document), NEW m \in Messages, document.status[m] = "none"
  PROVE  FilesOf[m] \cap document.named = {} /\ FilesOf[m] \cap document.pending = {}
<1> SUFFICES ASSUME NEW f \in FilesOf[m], f \in document.named \cup document.pending
             PROVE  FALSE
  OBVIOUS
<1>1. PICK n \in Messages : document.status[n] # "none" /\ f \in FilesOf[n]
  BY DEF Owned
<1> QED BY <1>1, HistoryAssumption

\* The message whose section holds the lock while it is saved.
LEMMA SavedSubject ==
  ASSUME HistoryInv, Saves("accept") \/ Saves("reply")
  PROVE  /\ queue # <<>> /\ Subject \in Messages /\ stage[Subject] = "queued"
         /\ previous.status[Subject] = "none" /\ disk.status[Subject] = "none"
<1>1. queue # <<>> /\ Recording(Head(queue))
  BY Parts DEF Saves, Recording
<1>2. Subject \in Messages /\ stage[Subject] = "queued"
  BY <1>1, Parts, SubjectIsMessage DEF Saves
<1> QED BY <1>1, <1>2, Parts DEF StatusInv

\* A message that is not over is in no document but the one being saved for it.
LEMMA NotOver ==
  ASSUME HistoryInv, NEW m \in Messages, stage[m] # "over"
  PROVE  /\ previous.status[m] = "none"
         /\ step # "saving" \/ stage[m] # "queued" => doc.status[m] = "none"
         /\ stage[m] # "refused" => disk.status[m] = "none"
BY Parts, SavedSubject DEF StatusInv, Saves

\* The four edits by the fields of the new document.
LEMMA EditShape ==
  ASSUME HistoryInv, EditStep
  PROVE  /\ doc' \in Documents
         /\ \/ /\ Subject \in Messages /\ stage[Subject] = "queued" /\ Recording(Head(queue))
               /\ doc.status[Subject] = "none"
               /\ doc'.status = [doc.status EXCEPT ![Subject] = "live"]
               /\ doc'.named = doc.named \cup FilesOf[Subject]
               /\ doc'.pending = doc.pending
               /\ doc'.retained = doc.retained
               /\ Head(queue).kind = "accept" => Current(Subject)
               /\ Head(queue).kind = "reply" => Active(Subject)
            \/ /\ Subject \in Messages /\ Head(queue).kind = "delete"
               /\ doc.status[Subject] = "live"
               /\ doc'.status = [doc.status EXCEPT ![Subject] = "deleted"]
               /\ doc'.named = doc.named \ FilesOf[Subject]
               /\ doc'.pending = doc.pending \cup (doc.named \cap FilesOf[Subject])
               /\ doc'.retained = doc.retained
            \/ /\ Head(queue).kind = "retain" /\ Confirmed
               /\ ~(\E m \in Messages : Active(m))
               /\ doc'.status = [m \in Messages |-> IF doc.status[m] = "none" THEN "none"
                                                                           ELSE "removed"]
               /\ doc'.named = {} /\ doc'.pending = doc.pending \cup doc.named
               /\ doc'.retained = TRUE
            \/ /\ Head(queue).kind = "other"
               /\ doc'.status = doc.status /\ doc'.named = doc.named
               /\ doc'.pending = doc.pending /\ doc'.retained = doc.retained
<1>1. TypeOK /\ QueueInv /\ queue # <<>> /\ step = "idle"
  BY Parts DEF EditStep, EditsTo
<1>2. CASE EditsTo(Recorded(Subject)) /\ Recording(Head(queue))
           /\ (Head(queue).kind = "accept" => Current(Subject))
  <2>1. Subject \in Messages /\ stage[Subject] = "queued"
        /\ (Head(queue).kind = "reply" => Subject \in Replies)
    BY <1>1, <1>2, SubjectIsMessage DEF Recording
  <2>2. doc.status[Subject] = "none"
    BY <1>1, <2>1, NotOver
  <2> QED BY <1>1, <1>2, <2>1, <2>2, RecordedFields DEF EditsTo, Active
<1>3. CASE EditsTo(Tombstone(Subject)) /\ Head(queue).kind = "delete"
           /\ doc.status[Subject] = "live"
  <2>1. Subject \in Messages
    BY <1>1, <1>3, SubjectIsMessage
  <2> QED BY <1>1, <1>3, <2>1, TombstoneFields DEF EditsTo
<1>4. CASE EditsTo(WithoutHistory) /\ Head(queue).kind = "retain" /\ Confirmed
           /\ ~(\E m \in Messages : Active(m))
  BY <1>1, <1>4, WithoutHistoryFields DEF EditsTo
<1>5. CASE EditsTo(doc) /\ Head(queue).kind = "other"
  BY <1>1, <1>5, SameFields DEF EditsTo
<1> QED BY <1>2, <1>3, <1>4, <1>5 DEF EditStep

\* Removing the pending files.
LEMMA ForgetShape ==
  ASSUME HistoryInv, RemoveFiles
  PROVE  /\ previous' = doc /\ disk' = disk /\ previous = doc
         /\ doc'.status = doc.status /\ doc'.named = doc.named
         /\ doc'.pending = {} /\ doc'.retained = doc.retained
         /\ doc'.revision = doc.revision
         /\ files' = files \ doc.pending
         /\ step = "cleaning" /\ step' = "forgetting"
         /\ UNCHANGED <<queue, stage, preview, lost, ghosts>>
BY Parts, ForgottenFields DEF RemoveFiles, SettledInv

\* A removal that failed half way.
LEMMA FailShape ==
  ASSUME HistoryInv, RemoveFails
  PROVE  /\ UNCHANGED <<doc, disk, previous, stage, preview, lost, ghosts>>
         /\ files' \subseteq files /\ files \ doc.pending \subseteq files'
         /\ step = "cleaning" /\ step' = "idle" /\ previous = doc
BY Parts DEF RemoveFails, KeptPending, SettledInv

\* A process death.
LEMMA CrashShape ==
  ASSUME HistoryInv, Crash
  PROVE  /\ disk' \in {disk, doc} /\ doc' = disk' /\ previous' = disk'
         /\ step' = "idle" /\ files' = files /\ ghosts' = ghosts
         /\ stage' = [m \in Messages |-> IF stage[m] = "none" THEN "none" ELSE "over"]
         /\ lost' = lost \cup ((InFlight \cap files) \ disk'.named)
         /\ Forsake(disk')
         /\ disk' = disk \/ step \in {"saving", "forgetting"}
BY DEF Crash

-----------------------------------------------------------------------------
(* Stages.                                                                 *)

\* Every step preserves StageInv: no removal touches a file that is not recorded yet.
LEMMA StageInvStep ==
  ASSUME HistoryInv, [Next]_vars
  PROVE  StageInv'
<1>i. StageInv /\ stage \in [Messages -> Stages]
  BY Parts
<1> SUFFICES ASSUME NEW m \in Messages
             PROVE  /\ stage'[m] \in {"read", "prepared"} /\ m \in Replies => m \in Edits
                    /\ stage'[m] \in {"stored", "queued"} => FilesOf[m] \subseteq files'
  BY DEF StageInv
<1>m. /\ stage[m] \in {"read", "prepared"} /\ m \in Replies => m \in Edits
      /\ stage[m] \in {"stored", "queued"} => FilesOf[m] \subseteq files
  BY <1>i DEF StageInv
<1>d. \A n \in Messages : n # m => FilesOf[m] \cap FilesOf[n] = {}
  BY HistoryAssumption
<1>1. CASE Steady \/ EditStep
  BY <1>1, <1>m DEF Steady, EditStep, EditsTo
<1>2. ASSUME NEW n \in Messages, Moves(n)
      PROVE  /\ stage'[m] \in {"read", "prepared"} /\ m \in Replies => m \in Edits
             /\ stage'[m] \in {"stored", "queued"} => FilesOf[m] \subseteq files'
  <2>1. stage'[n] \in Stages /\ (m # n => stage'[m] = stage[m])
    BY <1>2, <1>i DEF Moves
  <2>2. CASE m = n
    BY <1>2, <1>m, <2>2 DEF Moves
  <2>3. CASE m # n
    BY <1>2, <1>m, <1>d, <2>1, <2>3 DEF Moves
  <2> QED BY <2>2, <2>3
<1>3. CASE SaveStep
  BY <1>3, <1>m, <1>i, SavedSubject DEF SaveStep, Started, At
<1>4. CASE RejectStep
  BY <1>4, <1>m, <1>i, <1>d, SavedSubject DEF RejectStep, At
<1>5. CASE RemoveFiles \/ RemoveFails
  <2>1. files \ doc.pending \subseteq files' /\ stage' = stage /\ step = "cleaning"
    BY <1>5, ForgetShape, FailShape
  <2>2. CASE stage[m] \in {"stored", "queued"}
    <3>1. doc.status[m] = "none"
      BY <2>1, <2>2, NotOver
    <3>2. FilesOf[m] \cap doc.pending = {}
      BY <3>1, Unrecorded, Parts, DocumentParts
    <3> QED BY <1>m, <2>1, <2>2, <3>2
  <2> QED BY <1>m, <2>1, <2>2
<1>6. CASE Crash
  BY <1>6, CrashShape
<1> QED BY <1>1, <1>2, <1>3, <1>4, <1>5, <1>6, HistorySteps

\* The holder's section stays at the head of the queue while it is saved.
LEMMA StillSaves ==
  ASSUME HistoryInv, KeepsHolder, step = "saving"
  PROVE  /\ Subject' = Subject
         /\ \A kind \in Kinds : Saves(kind)' <=> Saves(kind)
BY DEF KeepsHolder, Saves, Subject

\* Every step preserves StatusInv.
LEMMA StatusInvStep ==
  ASSUME HistoryInv, [Next]_vars
  PROVE  StatusInv'
<1>i. StatusInv /\ stage \in [Messages -> Stages] /\ DocumentInv
  BY Parts
<1>k. "accept" \in Kinds /\ "reply" \in Kinds
  BY DEF Kinds
<1> SUFFICES ASSUME NEW m \in Messages
             PROVE  /\ doc'.status[m] # "none" =>
                         \/ stage'[m] = "over"
                         \/ Subject' = m /\ (Saves("accept")' \/ Saves("reply")')
                    /\ previous'.status[m] # "none" => stage'[m] = "over"
                    /\ disk'.status[m] # "none" => stage'[m] \in {"refused", "over"}
                    /\ stage'[m] = "refused" => FilesOf[m] \cap disk'.named \subseteq ghosts'
  BY DEF StatusInv
<1>m. /\ doc.status[m] # "none" =>
           \/ stage[m] = "over"
           \/ Subject = m /\ (Saves("accept") \/ Saves("reply"))
      /\ previous.status[m] # "none" => stage[m] = "over"
      /\ disk.status[m] # "none" => stage[m] \in {"refused", "over"}
      /\ stage[m] = "refused" => FilesOf[m] \cap disk.named \subseteq ghosts
  BY <1>i DEF StatusInv
<1>h. ASSUME KeepsHolder, Subject = m, Saves("accept") \/ Saves("reply")
      PROVE  Subject' = m /\ (Saves("accept")' \/ Saves("reply")')
  <2>1. step = "saving"
    BY <1>h DEF Saves
  <2> QED BY <1>h, <1>k, <2>1, StillSaves
<1>1. CASE Steady
  BY <1>1, <1>m, <1>h DEF Steady
<1>2. ASSUME NEW n \in Messages, Moves(n), n = m
      PROVE  /\ doc'.status[m] = "none" /\ previous'.status[m] = "none"
             /\ disk'.status[m] # "none" => stage'[m] \in {"refused", "over"}
             /\ stage'[m] = "refused" => FilesOf[m] \cap disk'.named \subseteq ghosts'
  <2>1. /\ doc' = doc /\ previous' = previous /\ disk' = disk
        /\ stage[m] # "over" /\ (stage[m] = "queued" => step = "idle")
        /\ stage[m] = "refused" => stage'[m] = "over"
    BY <1>2 DEF Moves
  <2>2. doc.status[m] = "none" /\ previous.status[m] = "none"
        /\ (stage[m] # "refused" => disk.status[m] = "none")
    BY <2>1, NotOver
  <2>3. disk.status[m] = "none" => FilesOf[m] \cap disk.named = {}
    BY <1>i, DocumentParts, Unrecorded
  <2> QED BY <2>1, <2>2, <2>3
<1>3. ASSUME NEW n \in Messages, Moves(n), n # m
      PROVE  /\ doc'.status[m] # "none" =>
                  \/ stage'[m] = "over"
                  \/ Subject' = m /\ (Saves("accept")' \/ Saves("reply")')
             /\ previous'.status[m] # "none" => stage'[m] = "over"
             /\ disk'.status[m] # "none" => stage'[m] \in {"refused", "over"}
             /\ stage'[m] = "refused" => FilesOf[m] \cap disk'.named \subseteq ghosts'
  <2>1. /\ doc' = doc /\ previous' = previous /\ disk' = disk /\ ghosts' = ghosts
        /\ stage'[m] = stage[m] /\ KeepsHolder
    BY <1>3, <1>i DEF Moves
  <2> QED BY <1>m, <1>h, <2>1
<1>4. CASE EditStep
  <2>1. /\ step = "idle" /\ step' = "saving" /\ queue' = queue /\ previous' = doc
        /\ UNCHANGED <<disk, stage, ghosts>>
    BY <1>4 DEF EditStep, EditsTo
  <2>2. doc.status[m] # "none" => stage[m] = "over"
    BY <1>m, <2>1 DEF Saves
  <2>3. \A n \in Messages : doc.status[n] \in Statuses
    BY Parts DEF Documents
  <2>4. doc'.status[m] # "none" =>
             \/ doc.status[m] # "none"
             \/ Subject = m /\ Recording(Head(queue))
    BY <1>4, <2>3, EditShape, Parts DEF Documents
  <2>5. Recording(Head(queue)) => Saves("accept")' \/ Saves("reply")'
    BY <2>1 DEF Saves, Recording
  <2>6. Subject' = Subject
    BY <2>1 DEF Subject
  <2> QED BY <1>m, <2>1, <2>2, <2>4, <2>5, <2>6
<1>5. CASE SaveStep
  <2>1. disk' = doc /\ previous' = doc /\ doc' = doc /\ ghosts' = ghosts
    BY <1>5 DEF SaveStep
  <2>2. doc.status[m] # "none" => stage'[m] = "over"
    BY <1>5, <1>m, <1>i, SavedSubject DEF SaveStep, Started, At
  <2>3. stage'[m] = "refused" => stage[m] = "refused"
    BY <1>5, <1>i, SavedSubject DEF SaveStep, Started, At
  <2>4. stage[m] = "refused" => doc.status[m] = "none"
    BY NotOver
  <2>5. doc.status[m] = "none" => FilesOf[m] \cap doc.named = {}
    BY <1>i, DocumentParts, Unrecorded
  <2> QED BY <2>1, <2>2, <2>3, <2>4, <2>5
<1>6. CASE RejectStep
  <2>1. /\ disk' \in {disk, doc} /\ previous' = previous /\ doc' = previous
        /\ ghosts \subseteq ghosts'
    BY <1>6 DEF RejectStep
  <2>2. CASE (Saves("accept") \/ Saves("reply")) /\ Subject = m
    <3>1. /\ stage'[m] = IF Saves("accept") THEN "over" ELSE "refused"
          /\ FilesOf[m] \cap disk'.named \subseteq ghosts'
      BY <1>6, <1>i, <2>2 DEF RejectStep, At, Saves
    <3>2. previous.status[m] = "none"
      BY <2>2, SavedSubject
    <3> QED BY <2>1, <3>1, <3>2
  <2>3. CASE ~((Saves("accept") \/ Saves("reply")) /\ Subject = m)
    <3>1. stage'[m] = stage[m]
      BY <1>6, <1>i, <2>3, SavedSubject DEF RejectStep, At
    <3>2. stage[m] = "refused" => doc.status[m] = "none"
      BY NotOver
    <3>3. doc.status[m] = "none" => FilesOf[m] \cap doc.named = {}
      BY <1>i, DocumentParts, Unrecorded
    <3> QED BY <1>m, <2>1, <2>3, <3>1, <3>2, <3>3
  <2> QED BY <2>2, <2>3
<1>7. CASE RemoveFiles
  <2>1. ~Saves("accept") /\ ~Saves("reply")
    BY <1>7, ForgetShape DEF Saves
  <2> QED BY <1>7, <1>m, <2>1, ForgetShape
<1>8. CASE RemoveFails
  <2>1. ~Saves("accept") /\ ~Saves("reply")
    BY <1>8, FailShape DEF Saves
  <2> QED BY <1>8, <1>m, <2>1, FailShape
<1>9. CASE Crash
  <2>1. disk.status[m] # "none" \/ doc.status[m] # "none" => stage[m] # "none"
    BY <1>m, SavedSubject
  <2> QED BY <1>9, <2>1, CrashShape
<1> QED BY <1>1, <1>2, <1>3, <1>4, <1>5, <1>6, <1>7, <1>8, <1>9, HistorySteps

-----------------------------------------------------------------------------
(* Documents and files.                                                    *)

\* What speaks of a file without naming it in a document.
Held(f) ==
    \/ \E m \in Messages : stage[m] \in {"stored", "queued", "refused"} /\ f \in FilesOf[m]
    \/ f \in lost

\* A document covers the files when each is named, listed or held.
LEMMA CoversFacts ==
  ASSUME NEW document
  PROVE  Covers(document) <=>
           \A f \in files : f \in document.named \cup document.pending \/ Held(f)
BY DEF Covers, Held, InFlight

\* After every step all three documents account for all files.
LEMMA CoversStep ==
  ASSUME HistoryInv, [Next]_vars
  PROVE  Covers(doc)' /\ Covers(disk)' /\ Covers(previous)'
<1>i. stage \in [Messages -> Stages] /\ Covers(doc) /\ Covers(disk) /\ Covers(previous)
  BY Parts, DocumentParts
<1> SUFFICES ASSUME NEW f \in files', ~Held(f)'
             PROVE  /\ f \in doc'.named \cup doc'.pending
                    /\ f \in disk'.named \cup disk'.pending
                    /\ f \in previous'.named \cup previous'.pending
  BY DEF Covers, Held, InFlight
<1>h. /\ \A m \in Messages : stage'[m] \in {"stored", "queued", "refused"} => f \notin FilesOf[m]
      /\ f \notin lost'
  BY DEF Held
<1>c. f \in files /\ ~Held(f) =>
        /\ f \in doc.named \cup doc.pending
        /\ f \in disk.named \cup disk.pending
        /\ f \in previous.named \cup previous.pending
  BY <1>i, CoversFacts
<1>1. CASE Steady
  BY <1>1, <1>c, <1>h DEF Steady, Held
<1>2. ASSUME NEW n \in Messages, Moves(n)
      PROVE  f \in files /\ ~Held(f)
  <2>1. stage'[n] \in Stages /\ (\A m \in Messages : m # n => stage'[m] = stage[m]) /\ lost' = lost
    BY <1>2, <1>i DEF Moves
  <2>2. f \in files
    BY <1>2, <1>h DEF Moves
  <2>3. stage[n] \in {"stored", "queued", "refused"} => f \notin FilesOf[n]
    BY <1>2, <1>h DEF Moves
  <2> QED BY <1>h, <2>1, <2>2, <2>3 DEF Held
<1>3. CASE EditStep
  <2>1. UNCHANGED <<disk, files, stage, lost>> /\ previous' = doc
    BY <1>3 DEF EditStep, EditsTo
  <2>2. f \in files /\ ~Held(f)
    BY <1>h, <2>1 DEF Held
  <2>3. doc.named \cup doc.pending \subseteq doc'.named \cup doc'.pending
    BY <1>3, EditShape
  <2> QED BY <1>c, <2>1, <2>2, <2>3
<1>4. CASE SaveStep
  <2>1. /\ disk' = doc /\ previous' = doc /\ doc' = doc /\ files' = files /\ lost' = lost
    BY <1>4 DEF SaveStep
  <2>2. ASSUME NEW m \in Messages, stage[m] \in {"stored", "queued", "refused"}, f \in FilesOf[m]
        PROVE  f \in doc.named
    <3>1. (Saves("accept") \/ Saves("reply")) /\ m = Subject
      BY <1>4, <1>h, <1>i, <2>2, SavedSubject DEF SaveStep, Started, At
    <3> QED BY <2>2, <3>1, Parts DEF SavingInv
  <2> QED BY <1>c, <1>h, <2>1, <2>2 DEF Held
<1>5. CASE RejectStep
  <2>1. /\ disk' \in {disk, doc} /\ doc' = previous /\ previous' = previous /\ lost' = lost
        /\ f \in files
    BY <1>5 DEF RejectStep
  <2>2. ASSUME NEW m \in Messages, stage[m] \in {"stored", "queued", "refused"}, f \in FilesOf[m]
        PROVE  FALSE
    BY <1>5, <1>h, <1>i, <2>2, SavedSubject DEF RejectStep, At
  <2> QED BY <1>c, <1>h, <2>1, <2>2 DEF Held
<1>6. CASE RemoveFiles
  <2>1. f \in files /\ f \notin doc.pending /\ ~Held(f)
    BY <1>6, <1>h, ForgetShape DEF Held
  <2> QED BY <1>6, <1>c, <2>1, ForgetShape
<1>7. CASE RemoveFails
  <2>1. f \in files /\ ~Held(f)
    BY <1>7, <1>h, FailShape DEF Held
  <2> QED BY <1>7, <1>c, <2>1, FailShape
<1>8. CASE Crash
  <2>1. f \in files /\ f \notin lost
    BY <1>8, <1>h, CrashShape
  <2>2. CASE f \in InFlight
    <3>1. f \in disk'.named
      BY <1>8, <1>h, <2>1, <2>2, CrashShape
    <3> QED BY <1>8, <3>1, CrashShape
  <2>3. CASE f \notin InFlight
    <3>1. ~Held(f)
      BY <2>1, <2>3 DEF Held, InFlight
    <3> QED BY <1>8, <1>c, <2>1, <3>1, CrashShape
  <2> QED BY <2>2, <2>3
<1> QED BY <1>1, <1>2, <1>c, <1>3, <1>4, <1>5, <1>6, <1>7, <1>8, HistorySteps DEF Moves

\* The part of DocumentInv that is about the document alone.
Sound(document) ==
    /\ document.named \cap document.pending = {}
    /\ Owned(document)
    /\ RetainedInv(document)

\* A sound document stays sound when its removals are done.
LEMMA SoundFields ==
  ASSUME NEW d, NEW e, Sound(d), e.status = d.status, e.named = d.named,
         e.pending \subseteq d.pending, e.retained = d.retained
  PROVE  Sound(e)
BY DEF Sound, Owned, RetainedInv

\* Every edit of a sound document is sound.
LEMMA EditSound ==
  ASSUME HistoryInv, EditStep
  PROVE  Sound(doc)'
<1>i. Sound(doc) /\ Owned(doc) /\ RetainedInv(doc) /\ doc \in Documents
  BY Parts, DocumentParts DEF Sound
<1>s. \A m \in Messages : doc.status[m] \in Statuses
  BY <1>i DEF Documents
<1>d. doc.status \in [Messages -> Statuses]
  BY <1>i DEF Documents
<1>1. CASE /\ Subject \in Messages /\ stage[Subject] = "queued" /\ Recording(Head(queue))
           /\ doc.status[Subject] = "none"
           /\ doc'.status = [doc.status EXCEPT ![Subject] = "live"]
           /\ doc'.named = doc.named \cup FilesOf[Subject]
           /\ doc'.pending = doc.pending
           /\ doc'.retained = doc.retained
           /\ Head(queue).kind = "accept" => Current(Subject)
           /\ Head(queue).kind = "reply" => Active(Subject)
  <2>1. doc'.named \cap doc'.pending = {}
    BY <1>1, <1>i, Unrecorded DEF Sound
  <2>2. Owned(doc')
    <3> SUFFICES ASSUME NEW f \in doc'.named \cup doc'.pending
                 PROVE  \E m \in Messages : doc'.status[m] # "none" /\ f \in FilesOf[m]
      BY DEF Owned
    <3>1. CASE f \in FilesOf[Subject]
      BY <1>1, <1>d, <3>1
    <3>2. CASE f \notin FilesOf[Subject]
      <4>1. PICK m \in Messages : doc.status[m] # "none" /\ f \in FilesOf[m]
        BY <1>1, <1>i, <3>2 DEF Owned
      <4> QED BY <1>1, <1>d, <4>1
    <3> QED BY <3>1, <3>2
  <2>3. doc.retained => Subject \in Edits \/ Source[Subject] \in Edits
    BY <1>1, Parts DEF Recording, Current, ActiveInv
  <2>4. RetainedInv(doc')
    BY <1>1, <1>i, <1>d, <2>3 DEF RetainedInv
  <2> QED BY <2>1, <2>2, <2>4 DEF Sound
<1>2. CASE /\ Subject \in Messages /\ Head(queue).kind = "delete"
           /\ doc.status[Subject] = "live"
           /\ doc'.status = [doc.status EXCEPT ![Subject] = "deleted"]
           /\ doc'.named = doc.named \ FilesOf[Subject]
           /\ doc'.pending = doc.pending \cup (doc.named \cap FilesOf[Subject])
           /\ doc'.retained = doc.retained
  <2>1. doc'.named \cap doc'.pending = {}
    BY <1>2, <1>i DEF Sound
  <2>2. Owned(doc')
    <3> SUFFICES ASSUME NEW f \in doc'.named \cup doc'.pending
                 PROVE  \E m \in Messages : doc'.status[m] # "none" /\ f \in FilesOf[m]
      BY DEF Owned
    <3>1. PICK m \in Messages : doc.status[m] # "none" /\ f \in FilesOf[m]
      BY <1>2, <1>i DEF Owned
    <3> QED BY <1>2, <1>d, <3>1
  <2>3. RetainedInv(doc')
    BY <1>2, <1>i, <1>d DEF RetainedInv
  <2> QED BY <2>1, <2>2, <2>3 DEF Sound
<1>3. CASE /\ doc'.status = [m \in Messages |-> IF doc.status[m] = "none" THEN "none"
                                                                       ELSE "removed"]
           /\ doc'.named = {} /\ doc'.pending = doc.pending \cup doc.named
           /\ doc'.retained = TRUE
  <2>1. Owned(doc')
    <3> SUFFICES ASSUME NEW f \in doc'.named \cup doc'.pending
                 PROVE  \E m \in Messages : doc'.status[m] # "none" /\ f \in FilesOf[m]
      BY DEF Owned
    <3>1. PICK m \in Messages : doc.status[m] # "none" /\ f \in FilesOf[m]
      BY <1>3, <1>i DEF Owned
    <3> QED BY <1>3, <3>1
  <2>2. RetainedInv(doc')
    BY <1>3 DEF RetainedInv
  <2> QED BY <1>3, <2>1, <2>2 DEF Sound
<1>4. CASE /\ doc'.status = doc.status /\ doc'.named = doc.named
           /\ doc'.pending = doc.pending /\ doc'.retained = doc.retained
  BY <1>4, <1>i DEF Sound, Owned, RetainedInv
<1> QED BY <1>1, <1>2, <1>3, <1>4, EditShape

\* After every step all three documents are sound.
LEMMA SoundStep ==
  ASSUME HistoryInv, [Next]_vars
  PROVE  Sound(doc)' /\ Sound(disk)' /\ Sound(previous)'
<1>i. Sound(doc) /\ Sound(disk) /\ Sound(previous)
  BY Parts, DocumentParts DEF Sound
<1> SUFFICES Sound(doc') /\ Sound(disk') /\ Sound(previous')
  BY DEF Sound, Owned, RetainedInv
<1>1. CASE EditStep
  <2>1. Sound(doc')
    BY <1>1, EditSound DEF Sound, Owned, RetainedInv
  <2> QED BY <1>1, <1>i, <2>1 DEF EditStep, EditsTo
<1>2. CASE RemoveFiles
  BY <1>2, <1>i, ForgetShape, SoundFields
<1>3. CASE RemoveFails
  BY <1>3, <1>i, FailShape
<1>4. CASE Crash
  BY <1>4, <1>i, CrashShape
<1>5. CASE Steady \/ (\E m \in Messages : Moves(m)) \/ SaveStep \/ RejectStep
  BY <1>5, <1>i DEF Steady, Moves, SaveStep, RejectStep
<1> QED BY <1>1, <1>2, <1>3, <1>4, <1>5, HistorySteps

\* The files a document names are there, or are known to have been lost.
LEMMA KeptStep ==
  ASSUME HistoryInv, [Next]_vars
  PROVE  /\ doc'.named \subseteq files' \cup ghosts'
         /\ disk'.named \subseteq files' \cup ghosts'
         /\ previous'.named \subseteq files' \cup ghosts'
<1>i. /\ doc.named \subseteq files \cup ghosts
      /\ disk.named \subseteq files \cup ghosts
      /\ previous.named \subseteq files \cup ghosts
      /\ Owned(doc) /\ Owned(disk) /\ Owned(previous)
      /\ doc.named \cap doc.pending = {}
      /\ LagInv /\ StageInv /\ StatusInv
  BY Parts, DocumentParts
<1>1. CASE Steady
  BY <1>1, <1>i DEF Steady
<1>2. ASSUME NEW m \in Messages, Moves(m)
      PROVE  /\ doc'.named \subseteq files' \cup ghosts'
             /\ disk'.named \subseteq files' \cup ghosts'
             /\ previous'.named \subseteq files' \cup ghosts'
  <2>1. doc' = doc /\ disk' = disk /\ previous' = previous /\ ghosts' = ghosts
    BY <1>2 DEF Moves
  <2>2. CASE files \subseteq files'
    BY <1>i, <2>1, <2>2
  <2>3. CASE /\ files' = files \ FilesOf[m]
             /\ stage[m] = "refused" \/ (stage[m] = "queued" /\ step = "idle")
    <3>1. doc.status[m] = "none" /\ previous.status[m] = "none"
          /\ (stage[m] # "refused" => disk.status[m] = "none")
      BY <2>3, NotOver
    <3>2. FilesOf[m] \cap doc.named = {} /\ FilesOf[m] \cap previous.named = {}
      BY <1>i, <3>1, Unrecorded
    <3>3. FilesOf[m] \cap disk.named \subseteq ghosts
      BY <1>i, <2>3, <3>1, Unrecorded DEF StatusInv
    <3> QED BY <1>i, <2>1, <2>3, <3>2, <3>3
  <2> QED BY <1>2, <2>2, <2>3 DEF Moves
<1>3. CASE EditStep
  <2>1. UNCHANGED <<disk, files, ghosts>> /\ previous' = doc
    BY <1>3 DEF EditStep, EditsTo
  <2>2. Recording(Head(queue)) /\ Subject \in Messages /\ stage[Subject] = "queued"
          => FilesOf[Subject] \subseteq files
    BY <1>i DEF StageInv
  <2>3. doc'.named \subseteq doc.named \cup files
    BY <1>3, <2>2, EditShape
  <2> QED BY <1>i, <2>1, <2>3
<1>4. CASE SaveStep
  BY <1>4, <1>i DEF SaveStep
<1>5. CASE RejectStep
  <2>1. disk' \in {disk, doc} /\ doc' = previous /\ previous' = previous
    BY <1>5 DEF RejectStep
  <2>2. CASE Saves("accept") /\ files' = files \ FilesOf[Subject]
             /\ ghosts' = ghosts \cup (FilesOf[Subject] \cap disk'.named)
    <3>1. FilesOf[Subject] \cap previous.named = {}
      BY <1>i, <2>2, SavedSubject, Unrecorded
    <3> QED BY <1>i, <2>1, <2>2, <3>1
  <2>3. CASE files' = files /\ ghosts \subseteq ghosts'
    BY <1>i, <2>1, <2>3
  <2> QED BY <1>5, <2>2, <2>3 DEF RejectStep
<1>6. CASE RemoveFiles \/ RemoveFails
  <2>1. /\ files \ doc.pending \subseteq files' /\ ghosts' = ghosts
        /\ doc'.named = doc.named /\ disk' = disk /\ previous'.named = doc.named
        /\ previous = doc
    BY <1>6, ForgetShape, FailShape
  <2>2. disk.named \cap doc.pending = {}
    BY <1>i, <2>1 DEF LagInv
  <2> QED BY <1>i, <2>1, <2>2
<1>7. CASE Crash
  BY <1>7, <1>i, CrashShape
<1> QED BY <1>1, <1>2, <1>3, <1>4, <1>5, <1>6, <1>7, HistorySteps

\* Every step preserves DocumentInv.
LEMMA DocumentInvStep ==
  ASSUME HistoryInv, [Next]_vars
  PROVE  DocumentInv'
<1>1. ASSUME NEW document \in {doc', disk', previous'}
      PROVE  /\ files' \subseteq document.named \cup document.pending \cup InFlight' \cup lost'
             /\ document.named \subseteq files' \cup ghosts'
  BY CoversStep, KeptStep DEF Covers
<1>2. ASSUME NEW document \in {doc', disk', previous'}
      PROVE  Sound(document)
  BY SoundStep DEF Sound, Owned, RetainedInv
<1> QED BY <1>1, <1>2 DEF DocumentInv, Covers, Sound, Owned, RetainedInv

-----------------------------------------------------------------------------
(* The holder, retention and previews.                                     *)

\* Every step preserves SavingInv: a retention begins with the preview it confirms.
LEMMA SavingInvStep ==
  ASSUME HistoryInv, [Next]_vars
  PROVE  SavingInv'
<1>i. SavingInv /\ SettledInv
  BY Parts
<1>k. {"accept", "reply", "retain"} \subseteq Kinds
  BY DEF Kinds
<1>1. ASSUME KeepsHolder, UNCHANGED <<doc, previous>>, SamePreview \/ ~Saves("retain")
      PROVE  SavingInv'
  <2>1. CASE step = "saving"
    <3>1. /\ Subject' = Subject /\ (Saves("accept")' <=> Saves("accept"))
          /\ (Saves("reply")' <=> Saves("reply")) /\ (Saves("retain")' <=> Saves("retain"))
      BY <1>1, <1>k, <2>1, StillSaves
    <3> QED BY <1>1, <1>i, <3>1 DEF SavingInv, SamePreview
  <2>2. CASE step # "saving"
    BY <1>1, <2>2 DEF KeepsHolder, SavingInv, Saves
  <2> QED BY <2>1, <2>2
<1>2. CASE Steady
  BY <1>1, <1>2 DEF Steady
<1>3. ASSUME NEW m \in Messages, Moves(m)
      PROVE  SavingInv'
  BY <1>1, <1>3 DEF Moves, SamePreview
<1>4. CASE EditStep
  <2>1. /\ step = "idle" /\ step' = "saving" /\ queue' = queue /\ previous' = doc
        /\ preview' = preview /\ Subject' = Subject
    BY <1>4 DEF EditStep, EditsTo, Subject
  <2>2. \A kind : Saves(kind)' => Head(queue).kind = kind
    BY <2>1 DEF Saves
  <2>3. doc \in Documents
    BY Parts
  <2>4. Saves("accept")' \/ Saves("reply")' => FilesOf[Subject'] \subseteq doc'.named
    BY <1>4, <2>1, <2>2, EditShape
  <2>5. Saves("accept")' => Subject' \in Edits \/ ~doc'.retained
    BY <1>4, <2>1, <2>2, EditShape DEF Current
  <2>6. ASSUME Saves("retain")', ~preview.undone, ~doc.retained
        PROVE  {m \in Messages : doc'.status[m] = "removed"} = preview.shown
    <3>1. /\ Head(queue).kind = "retain" /\ Confirmed
          /\ doc'.status = [m \in Messages |-> IF doc.status[m] = "none" THEN "none"
                                                                      ELSE "removed"]
      BY <1>4, <2>2, <2>6, EditShape DEF Recording
    <3>2. preview.shown = Listed(doc)
      BY <2>6, <3>1, Parts DEF PreviewInv, Confirmed
    <3>3. \A m \in Messages : doc.status[m] \in Statuses /\ doc.status[m] # "removed"
      BY <2>3, <2>6, Parts, DocumentParts DEF RetainedInv, Documents
    <3> QED BY <3>1, <3>2, <3>3 DEF Listed, Statuses
  <2> QED BY <2>1, <2>4, <2>5, <2>6 DEF SavingInv
<1>5. CASE SaveStep \/ RejectStep \/ RemoveFiles \/ RemoveFails \/ Crash
  <2>1. step' # "saving"
    BY <1>5 DEF SaveStep, RejectStep, RemoveFiles, RemoveFails, Crash
  <2> QED BY <2>1 DEF SavingInv, Saves
<1> QED BY <1>2, <1>3, <1>4, <1>5, HistorySteps

\* Every step preserves LagInv.
LEMMA LagInvStep ==
  ASSUME HistoryInv, [Next]_vars
  PROVE  LagInv'
<1>i. LagInv /\ SettledInv /\ doc.named \cap doc.pending = {}
      /\ previous.named \cap previous.pending = {} /\ disk.named \cap disk.pending = {}
      /\ Owned(doc)
  BY Parts, DocumentParts
<1>k. "retain" \in Kinds
  BY DEF Kinds
<1>1. ASSUME KeepsHolder, UNCHANGED <<doc, disk, previous>>
      PROVE  LagInv'
  <2>1. doc.retained /\ ~previous.retained => Saves("retain")'
    <3> SUFFICES ASSUME doc.retained /\ ~previous.retained
                 PROVE  Saves("retain")'
      OBVIOUS
    <3>1. Saves("retain")
      BY <1>i DEF LagInv
    <3> QED BY <1>1, <1>k, <3>1, StillSaves DEF Saves
  <2> QED BY <1>1, <1>i, <2>1 DEF LagInv
<1>2. CASE Steady \/ (\E m \in Messages : Moves(m))
  BY <1>1, <1>2 DEF Steady, Moves
<1>3. CASE EditStep
  <2>1. /\ step = "idle" /\ step' = "saving" /\ queue' = queue /\ previous' = doc
        /\ disk' = disk /\ previous = doc
    BY <1>3, <1>i DEF EditStep, EditsTo, SettledInv
  <2>2. doc'.named \cap doc.pending = {}
    BY <1>3, <1>i, EditShape, Unrecorded
  <2>3. doc.retained => doc'.retained
    BY <1>3, EditShape
  <2>4. doc'.retained /\ ~doc.retained => Saves("retain")'
    BY <1>3, <2>1, EditShape DEF Saves
  <2> QED BY <1>i, <2>1, <2>2, <2>3, <2>4 DEF LagInv
<1>4. CASE SaveStep
  BY <1>4, <1>i DEF SaveStep, LagInv
<1>5. CASE RejectStep
  BY <1>5, <1>i DEF RejectStep, LagInv
<1>6. CASE RemoveFiles
  BY <1>6, <1>i, ForgetShape DEF LagInv, Saves
<1>7. CASE RemoveFails
  BY <1>7, <1>i, FailShape DEF LagInv, Saves
<1>8. CASE Crash
  BY <1>8, <1>i, CrashShape DEF LagInv
<1> QED BY <1>2, <1>3, <1>4, <1>5, <1>6, <1>7, <1>8, HistorySteps

\* Every step preserves ActiveInv.
LEMMA ActiveInvStep ==
  ASSUME HistoryInv, [Next]_vars
  PROVE  ActiveInv'
<1>i. ActiveInv /\ StageInv /\ stage \in [Messages -> Stages] /\ SettledInv /\ LagInv
  BY Parts
<1> SUFFICES ASSUME NEW m \in Messages, doc'.retained, Active(m)', m \notin Edits
             PROVE  Source[m] \in Edits
  BY DEF ActiveInv
<1>a. m \in Replies /\ stage'[m] \in {"working", "stored", "queued", "refused"}
  BY DEF Active
<1>o. doc.retained /\ stage[m] \in {"working", "stored", "queued", "refused"} => Source[m] \in Edits
  BY <1>a, <1>i DEF ActiveInv, Active
<1>1. CASE Steady
  BY <1>1, <1>a, <1>o DEF Steady
<1>2. ASSUME NEW n \in Messages, Moves(n)
      PROVE  Source[m] \in Edits
  <2>1. stage'[n] \in Stages /\ (m # n => stage'[m] = stage[m]) /\ doc' = doc
    BY <1>2, <1>i DEF Moves
  <2>2. stage[m] \in {"read", "prepared"} => m \in Edits
    BY <1>a, <1>i DEF StageInv
  <2>3. m = n => stage[m] \in {"working", "stored", "queued", "refused"}
    BY <1>2, <1>a, <2>2 DEF Moves
  <2> QED BY <1>a, <1>o, <2>1, <2>3
<1>3. CASE EditStep
  <2>1. stage' = stage
    BY <1>3 DEF EditStep, EditsTo
  <2>2. doc.retained
    BY <1>3, <1>a, <2>1, EditShape DEF Active
  <2> QED BY <1>a, <1>o, <2>1, <2>2
<1>4. CASE SaveStep
  <2>1. doc' = doc
    BY <1>4 DEF SaveStep
  <2>2. CASE stage'[m] = stage[m]
    BY <1>a, <1>o, <2>1, <2>2
  <2>3. CASE stage'[m] # stage[m]
    <3>1. Saves("accept") /\ Source[m] = Subject
      BY <1>4, <1>a, <1>i, <2>3, SavedSubject DEF SaveStep, Started, At
    <3> QED BY <2>1, <3>1, Parts DEF SavingInv
  <2> QED BY <2>2, <2>3
<1>5. CASE RejectStep
  <2>1. doc.retained
    BY <1>5, <1>i DEF RejectStep, LagInv
  <2>2. stage[m] \in {"working", "stored", "queued", "refused"}
    BY <1>5, <1>a, <1>i, SavedSubject DEF RejectStep, At
  <2> QED BY <1>o, <2>1, <2>2
<1>6. CASE RemoveFiles
  BY <1>6, <1>a, <1>o, ForgetShape
<1>7. CASE RemoveFails
  BY <1>7, <1>a, <1>o, FailShape
<1>8. CASE Crash
  BY <1>8, <1>a, CrashShape
<1> QED BY <1>1, <1>2, <1>3, <1>4, <1>5, <1>6, <1>7, <1>8, HistorySteps

\* Every step preserves PreviewInv.
LEMMA PreviewInvStep ==
  ASSUME HistoryInv, [Next]_vars
  PROVE  PreviewInv'
<1>i. PreviewInv /\ doc \in Documents /\ disk \in Documents /\ previous \in Documents
      /\ preview \in Previews /\ TypeOK
  BY Parts DEF TypeOK, Previews
<1>n. preview.revision \in Nat /\ doc.revision \in Nat /\ disk.revision \in Nat
      /\ previous.revision \in Nat
  BY <1>i DEF Documents, Previews
<1>1. CASE Steady
  <2>1. CASE SamePreview
    BY <1>1, <1>i, <2>1 DEF Steady, SamePreview, PreviewInv, Listed
  <2>2. CASE preview'.shown = Listed(doc) /\ preview'.revision = doc.revision
    BY <1>1, <1>n, <2>2 DEF Steady, PreviewInv, Listed
  <2> QED BY <1>1, <2>1, <2>2 DEF Steady
<1>2. CASE \E m \in Messages : Moves(m)
  BY <1>2, <1>i DEF Moves, PreviewInv, Listed
<1>3. CASE EditStep
  <2>1. doc'.revision = doc.revision + 1 /\ preview' = preview
    BY <1>3, EditFields DEF EditStep, EditsTo
  <2> QED BY <1>i, <1>n, <2>1 DEF PreviewInv
<1>4. CASE SaveStep
  BY <1>4, <1>i DEF SaveStep, PreviewInv, Listed
<1>5. ASSUME NEW document, document.revision \in Nat, doc' = document, Forsake(document)
      PROVE  PreviewInv'
  <2>1. /\ preview'.shown = preview.shown /\ preview'.revision = preview.revision
        /\ preview'.undone = \/ preview.undone
                             \/ preview.revision > document.revision
                             \/ /\ preview.revision = document.revision
                                /\ preview.shown # Listed(document)
    BY <1>5, <1>i, ForsakeType
  <2>2. Listed(doc)' = Listed(document)
    BY <1>5 DEF Listed
  <2> QED BY <1>5, <1>n, <2>1, <2>2 DEF PreviewInv
<1>6. CASE RejectStep
  BY <1>5, <1>6, <1>n DEF RejectStep
<1>7. CASE Crash
  BY <1>5, <1>7, <1>n, CrashShape
<1>8. CASE RemoveFiles
  BY <1>8, <1>i, ForgetShape DEF PreviewInv, Listed
<1>9. CASE RemoveFails
  BY <1>9, <1>i, FailShape DEF PreviewInv, Listed
<1> QED BY <1>1, <1>2, <1>3, <1>4, <1>6, <1>7, <1>8, <1>9, HistorySteps

-----------------------------------------------------------------------------
(* The theorems.                                                           *)

\* The invariant holds at first.
LEMMA HistoryInit ==
  ASSUME Init
  PROVE  HistoryInv
<1>1. PICK start \in Starts :
        /\ doc = [status   |-> [m \in Messages |-> IF m \in start.saved THEN "live"
                                                                        ELSE "none"],
                  named    |-> UNION {FilesOf[m] : m \in start.saved},
                  pending  |-> {},
                  revision |-> 1,
                  retained |-> FALSE]
        /\ stage = [m \in Messages |-> IF m \in start.saved THEN "over" ELSE "none"]
        /\ left = start.left
  BY DEF Init
<1>2. /\ disk = doc /\ previous = doc /\ queue = <<>> /\ step = "idle"
      /\ files = doc.named /\ preview = NoPreview /\ retention = "none"
      /\ host = "up" /\ lost = {} /\ ghosts = {} /\ unclean = FALSE
  BY DEF Init
<1>3. start.saved \subseteq Messages /\ start.left \in [Events -> Nat]
  BY StartsAssumption
<1>4. /\ doc.status = [m \in Messages |-> IF m \in start.saved THEN "live" ELSE "none"]
      /\ doc.named = UNION {FilesOf[m] : m \in start.saved}
      /\ doc.pending = {} /\ doc.revision = 1 /\ doc.retained = FALSE
  BY <1>1
<1>5. doc.named \subseteq Files
  BY <1>3, <1>4, HistoryAssumption
<1>6. doc \in Documents
  BY <1>1, <1>4, <1>5 DEF Documents, Statuses
<1>7. TypeOK
  <2>1. stage \in [Messages -> Stages]
    BY <1>1 DEF Stages
  <2>2. preview \in Previews
    BY <1>2 DEF NoPreview, Previews
  <2>3. queue \in Seq(Sections)
    BY <1>2
  <2> QED BY <1>1, <1>2, <1>3, <1>5, <1>6, <2>1, <2>2, <2>3
          DEF TypeOK, Stages, Previews, Sections
<1>8. Owned(doc)
  BY <1>3, <1>4 DEF Owned
<1>9. DocumentInv
  BY <1>2, <1>4, <1>8 DEF DocumentInv, Covers, RetainedInv
<1>10. StatusInv
  BY <1>1, <1>2, <1>4 DEF StatusInv
<1>11. QueueInv
  BY <1>2 DEF QueueInv
<1>12. StageInv /\ ActiveInv
  BY <1>1, <1>4 DEF StageInv, ActiveInv
<1>13. SavingInv /\ LagInv
  BY <1>2, <1>4 DEF SavingInv, LagInv, Saves
<1>14. PreviewInv
  BY <1>2, <1>4 DEF PreviewInv, NoPreview
<1> QED BY <1>2, <1>7, <1>9, <1>10, <1>11, <1>12, <1>13, <1>14
        DEF HistoryInv, DownInv, SettledInv

\* The invariant holds in every state.
LEMMA HistoryInvariance == Spec => []HistoryInv
<1>1. Init => HistoryInv
  BY HistoryInit
<1>2. HistoryInv /\ [Next]_vars => HistoryInv'
  BY TypeOKStep, DownStep, SettledStep, QueueInvStep, StageInvStep, DocumentInvStep,
     StatusInvStep, SavingInvStep, LagInvStep, ActiveInvStep, PreviewInvStep DEF HistoryInv
<1> QED BY <1>1, <1>2, PTL DEF Spec

\* No file is forgotten, in memory or on disk, and what is saved can be loaded: through
\* rejected persists, failed removals and process deaths (HistoryConsistent).
THEOREM HistoryTheorem == Spec => []HistoryConsistent
<1>1. HistoryInv => HistoryConsistent
  <2> SUFFICES ASSUME HistoryInv
               PROVE  HistoryConsistent
    OBVIOUS
  <2>1. TypeOK
    BY Parts
  <2>2. NothingLeaks /\ NeverRefused
    BY Parts, DocumentParts DEF NothingLeaks, NeverRefused, Covers
  <2> QED BY <2>1, <2>2 DEF HistoryConsistent
<1> QED BY <1>1, HistoryInvariance, PTL

\* Every file that a saved message names can be served, in memory and after a restart,
\* unless a persist rejected although it had replaced state.json (FilesAreKept).
THEOREM FilesTheorem == Spec => []FilesAreKept
<1>1. HistoryInv => FilesAreKept
  BY Parts, DocumentParts DEF FilesAreKept
<1> QED BY <1>1, HistoryInvariance, PTL

\* How the document on disk may change.
LEMMA DiskStep ==
  ASSUME HistoryInv, [Next]_vars
  PROVE  disk' = disk \/ disk' = doc
BY HistorySteps, ForgetShape, FailShape, CrashShape
   DEF Steady, Moves, EditStep, EditsTo, SaveStep, RejectStep

\* A retention that is saved removes what was shown.
LEMMA ShownStep ==
  ASSUME HistoryInv, [Next]_vars, ~disk.retained, disk'.retained, ~preview.undone
  PROVE  {m \in Messages : disk'.status[m] = "removed"} = preview.shown
<1>1. disk' = doc /\ doc.retained
  BY DiskStep
<1>2. ~previous.retained /\ Saves("retain")
  BY <1>1, Parts DEF LagInv
<1> QED BY <1>1, <1>2, Parts DEF SavingInv

\* Nothing becomes live in a conversation that was retained.
LEMMA RemovedStep ==
  ASSUME HistoryInv, [Next]_vars, disk.retained, doc.retained, NEW m \in Messages,
         m \notin Edits, Source[m] \notin Edits, disk'.status[m] = "live"
  PROVE  disk.status[m] = "live"
<1>1. doc.status[m] # "live"
  BY Parts, DocumentParts DEF RetainedInv
<1> QED BY <1>1, DiskStep

\* A retention removes exactly what its preview showed, and nothing that was under way
\* comes back into what it removed (RetentionIsExact).
THEOREM RetentionTheorem == Spec => RetentionIsExact
<1>1. HistoryInv /\ [Next]_vars =>
        [~disk.retained /\ disk'.retained /\ ~preview.undone =>
           {m \in Messages : disk'.status[m] = "removed"} = preview.shown]_vars
  BY ShownStep
<1>2. HistoryInv /\ [Next]_vars =>
        [disk.retained /\ doc.retained =>
           \A m \in Messages :
             m \notin Edits /\ Source[m] \notin Edits /\ disk'.status[m] = "live"
               => disk.status[m] = "live"]_vars
  BY RemovedStep
<1> QED BY <1>1, <1>2, HistoryInvariance, PTL
        DEF Spec, RetentionIsExact, RemovesWhatWasShown, RemovedStaysRemoved

=============================================================================
