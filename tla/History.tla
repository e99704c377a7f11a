------------------------------- MODULE History -------------------------------
(***************************************************************************)
(* The files of one conversation's messages, and the two ways to take      *)
(* messages back: deletion of one and retention of all.                    *)
(*                                                                         *)
(* Files are written beside the document and outside the FIFO lock, before *)
(* the section that records the message that names them; they are removed  *)
(* after the section that takes the message back, from a list of pending   *)
(* removals saved with it.  A section may find that the conversation has   *)
(* changed, its persist may reject before or after state.json is replaced, *)
(* removing files may fail half way, and the host may die between any two  *)
(* steps.                                                                  *)
(*                                                                         *)
(* The conversation is a Channel.  Sends to its Thread, edits (which start *)
(* a Thread of their own) and Agent replies carry files; each accepted     *)
(* send may have one reply.  Removing the files of a message that was not  *)
(* accepted is taken to succeed.                                           *)
(***************************************************************************)
EXTENDS Naturals, Sequences, FiniteSets

CONSTANTS
    Messages,
    Files,
    FilesOf,    \* the files each message carries
    Source,     \* the message an edit supersedes or a reply answers, or Nothing
    Edits, Replies,
    Nothing,
    Starts      \* what is saved at first, and how often what may happen

ASSUME HistoryAssumption ==
    /\ FilesOf \in [Messages -> SUBSET Files]
    /\ \A m, n \in Messages : m # n => FilesOf[m] \cap FilesOf[n] = {}
    /\ Source \in [Messages -> Messages \cup {Nothing}]
    /\ Edits \cup Replies \subseteq {m \in Messages : Source[m] # Nothing}
    /\ Nothing \notin Messages

Events == {"send", "edit", "reject", "storeFails", "cleanFails", "crash",
           "delete", "preview", "retain", "other"}

ASSUME StartsAssumption ==
    \A start \in Starts : start.saved \subseteq Messages /\ start.left \in [Events -> Nat]

VARIABLES
    doc, disk, previous,  \* the document: in memory, on disk, before the edit
    queue,                \* stateChangeTail: sections in order, the holder first
    step,                 \* where the holder is
    files,                \* the files under attachments/
    stage,                \* where each message's send, edit or run is
    preview,              \* the retention preview the user looks at
    retention,            \* applyRetention between its two sections
    host,
    lost, ghosts,         \* files left by a death; recorded by a rejected persist
    unclean,              \* a removal of files has failed since start-up
    left                  \* events that may still happen

lock == <<doc, disk, previous, queue, step>>
vars == <<lock, files, stage, preview, retention, host, lost, ghosts, unclean, left>>

Statuses == {"none", "live", "deleted", "removed"}
Documents ==
    [status   : [Messages -> Statuses],
     named    : SUBSET Files,       \* attachments and files of the messages
     pending  : SUBSET Files,       \* pendingAttachmentDeletions
     revision : Nat,
     retained : BOOLEAN]            \* the conversation's Threads are gone

Section(kind, m) == [kind |-> kind, message |-> m]
Kinds == {"accept", "reply", "delete", "retain", "cleanup", "other"}

\* Work of the conversation that has files on disk which no document names yet.
InFlight ==
    UNION {FilesOf[m] : m \in {n \in Messages : stage[n] \in {"stored", "queued", "refused"}}}

TypeOK ==
    /\ {doc, disk, previous} \subseteq Documents
    /\ queue \in Seq([kind : Kinds, message : Messages \cup {Nothing}])
    /\ step \in {"idle", "saving", "cleaning", "forgetting"}
    /\ step # "idle" => queue # <<>>
    /\ files \subseteq Files /\ lost \subseteq Files /\ ghosts \subseteq Files
    /\ stage \in [Messages -> {"none", "prepared", "read", "working", "stored",
                               "queued", "refused", "over"}]
    /\ preview \in [shown : SUBSET Messages, revision : Nat, undone : BOOLEAN,
                    used : BOOLEAN]
    /\ retention \in {"none", "saved"}
    /\ host \in {"up", "starting", "down"}
    /\ unclean \in BOOLEAN
    /\ left \in [Events -> Nat]

NoPreview == [shown |-> {}, revision |-> 0, undone |-> FALSE, used |-> TRUE]

Init ==
    \E start \in Starts :
      /\ doc = [status   |-> [m \in Messages |-> IF m \in start.saved THEN "live"
                                                                      ELSE "none"],
                named    |-> UNION {FilesOf[m] : m \in start.saved},
                pending  |-> {},
                revision |-> 1,
                retained |-> FALSE]
      /\ disk = doc /\ previous = doc
      /\ queue = <<>> /\ step = "idle"
      /\ files = doc.named
      /\ stage = [m \in Messages |-> IF m \in start.saved THEN "over" ELSE "none"]
      /\ preview = NoPreview /\ retention = "none"
      /\ host = "up" /\ lost = {} /\ ghosts = {} /\ unclean = FALSE
      /\ left = start.left

Spend(event) ==
    /\ left[event] > 0
    /\ left' = [left EXCEPT ![event] = @ - 1]

At(m, new) == stage' = [stage EXCEPT ![m] = new]

-----------------------------------------------------------------------------
(* The lock.                                                               *)

Enqueue(section) ==
    /\ queue' = Append(queue, section)
    /\ UNCHANGED <<doc, disk, previous, step>>

Begins(kind) == host = "up" /\ step = "idle" /\ queue # <<>> /\ Head(queue).kind = kind
Subject == Head(queue).message

Edit(document) ==
    /\ previous' = doc
    /\ doc' = [document EXCEPT !.revision = @ + 1]
    /\ step' = "saving"
    /\ UNCHANGED <<disk, queue>>

\* The section is over without a change: nothing to do, or its caller is refused.
Leave ==
    /\ queue' = Tail(queue)
    /\ UNCHANGED <<doc, disk, previous, step>>

Saving(kind) == host = "up" /\ step = "saving" /\ Head(queue).kind = kind

\* The persist is done; the holder goes on with next.
Saved(next) ==
    /\ disk' = doc
    /\ previous' = doc
    /\ step' = next
    /\ queue' = IF next = "idle" THEN Tail(queue) ELSE queue
    /\ UNCHANGED <<doc, left, preview>>

Listed(document) == {m \in Messages : document.status[m] \in {"live", "deleted"}}

\* A preview of a change that was taken back: its revision is used again, or is
\* the one of a change that was saved although its persist rejected.
Forsake(document) ==
    preview' = [preview EXCEPT !.undone =
                  \/ @
                  \/ preview.revision > document.revision
                  \/ preview.revision = document.revision
                     /\ preview.shown # Listed(document)]

\* Slip: the list of pending removals outlives the change it was written for.
RollbackKeepsPending == [previous EXCEPT !.pending = doc.pending]

Rollback == previous

\* The persist rejects, before it has replaced state.json or after.
Rejected ==
    /\ Spend("reject")
    /\ disk' \in {disk, doc}
    /\ doc' = Rollback
    /\ previous' = Rollback
    /\ step' = "idle"
    /\ queue' = Tail(queue)
    /\ Forsake(Rollback)

-----------------------------------------------------------------------------
(* Sends and edits: acceptPreparedSend, editMessage.                       *)

\* preparedSendIsCurrent: the Thread of a send is still there.  An edit goes to
\* a new Thread and only needs the Channel.
Current(m) == m \in Edits \/ ~doc.retained

Send(m) ==
    /\ host = "up" /\ m \notin Edits \cup Replies /\ stage[m] = "none"
    /\ Current(m)
    /\ Spend("send")
    /\ At(m, "prepared")
    /\ UNCHANGED <<lock, files, preview, retention, host, lost, ghosts, unclean>>

\* currentEditableMessage
StartEdit(m) ==
    /\ host = "up" /\ m \in Edits /\ stage[m] = "none"
    /\ doc.status[Source[m]] = "live"
    /\ Spend("edit")
    /\ At(m, "read")
    /\ UNCHANGED <<lock, files, preview, retention, host, lost, ghosts, unclean>>

\* The source's files are read one after another; any of them may be gone, and
\* readFileAttachment serves only files that a message names.
ReadSource(m) ==
    /\ host = "up" /\ stage[m] = "read"
    /\ \/ FilesOf[Source[m]] \subseteq files /\ At(m, "prepared")
       \/ ~(FilesOf[Source[m]] \subseteq files \cap doc.named) /\ At(m, "over")
    /\ UNCHANGED <<lock, files, preview, retention, host, lost, ghosts, unclean, left>>

\* persistSendAttachments: all of the files, or none when one cannot be written.
Store(m) ==
    /\ host = "up" /\ stage[m] = "prepared"
    /\ \/ /\ Current(m)
          /\ files' = files \cup FilesOf[m]
          /\ At(m, "stored")
          /\ UNCHANGED left
       \/ /\ Current(m)
          /\ Spend("storeFails")
          /\ At(m, "over")
          /\ UNCHANGED files
       \/ /\ ~Current(m)
          /\ At(m, "over")
          /\ UNCHANGED <<files, left>>
    /\ UNCHANGED <<lock, preview, retention, host, lost, ghosts, unclean>>

AskAccept(m) ==
    /\ host = "up" /\ stage[m] = "stored" /\ m \notin Replies
    /\ \/ Current(m) /\ At(m, "queued") /\ Enqueue(Section("accept", m))
       \/ ~Current(m) /\ At(m, "refused") /\ UNCHANGED lock
    /\ UNCHANGED <<files, preview, retention, host, lost, ghosts, unclean, left>>

\* removePersistedSendAttachments, removeFileAttachments
RemoveRefused(m) ==
    /\ host = "up" /\ stage[m] = "refused"
    /\ files' = files \ FilesOf[m]
    /\ At(m, "over")
    /\ UNCHANGED <<lock, preview, retention, host, lost, ghosts, unclean, left>>

Recorded(m) ==
    [doc EXCEPT !.status[m] = "live", !.named = @ \cup FilesOf[m]]

\* Slip: the check before the lock is enough.
BeginAcceptUnchecked ==
    /\ Begins("accept")
    /\ Edit(Recorded(Subject))
    /\ UNCHANGED <<files, stage>>
    /\ UNCHANGED <<preview, retention, host, lost, ghosts, unclean, left>>

BeginAccept ==
    /\ Begins("accept")
    /\ \/ Current(Subject) /\ Edit(Recorded(Subject)) /\ UNCHANGED <<files, stage>>
       \/ /\ ~Current(Subject) /\ Leave
          /\ files' = files \ FilesOf[Subject]
          /\ At(Subject, "over")
    /\ UNCHANGED <<preview, retention, host, lost, ghosts, unclean, left>>

\* The run of the send begins, with a reply if it is to have one.
Started(m) ==
    [n \in Messages |-> IF n = m THEN "over"
                        ELSE IF n \in Replies /\ Source[n] = m /\ stage[n] = "none"
                             THEN "working" ELSE stage[n]]

\* persistAcceptedSend
EndAccept ==
    /\ Saving("accept")
    /\ \/ Saved("idle") /\ stage' = Started(Subject) /\ UNCHANGED <<files, ghosts>>
       \/ /\ Rejected
          /\ files' = files \ FilesOf[Subject]
          /\ ghosts' = ghosts \cup (FilesOf[Subject] \cap disk'.named)
          /\ At(Subject, "over")
    /\ UNCHANGED <<retention, host, lost, unclean>>

-----------------------------------------------------------------------------
(* Agent replies: persistAgentResponseFiles, completeAgentReply.           *)

Active(m) == m \in Replies /\ stage[m] \in {"working", "stored", "queued", "refused"}

\* The turn ends with files, or without any (a reply without files is left out).
TurnEnds(m) ==
    /\ host = "up" /\ m \in Replies /\ stage[m] = "working"
    /\ \/ files' = files \cup FilesOf[m] /\ At(m, "stored")
       \/ UNCHANGED files /\ At(m, "over")
    /\ UNCHANGED <<lock, preview, retention, host, lost, ghosts, unclean, left>>

AskReply(m) ==
    /\ host = "up" /\ m \in Replies /\ stage[m] = "stored"
    /\ At(m, "queued")
    /\ Enqueue(Section("reply", m))
    /\ UNCHANGED <<files, preview, retention, host, lost, ghosts, unclean, left>>

\* agentRunExecutionState: the run may have been stopped, or its Agent changed.
BeginReply ==
    /\ Begins("reply")
    /\ \/ Edit(Recorded(Subject)) /\ UNCHANGED stage
       \/ Leave /\ At(Subject, "refused")
    /\ UNCHANGED <<files, preview, retention, host, lost, ghosts, unclean, left>>

EndReply ==
    /\ Saving("reply")
    /\ \/ Saved("idle") /\ At(Subject, "over") /\ UNCHANGED ghosts
       \/ /\ Rejected
          /\ ghosts' = ghosts \cup (FilesOf[Subject] \cap disk'.named)
          /\ At(Subject, "refused")
    /\ UNCHANGED <<files, retention, host, lost, unclean>>

-----------------------------------------------------------------------------
(* Deletion and retention.                                                 *)

Delete(m) ==
    /\ host = "up" /\ doc.status[m] \in {"live", "deleted"}
    /\ Spend("delete")
    /\ Enqueue(Section("delete", m))
    /\ UNCHANGED <<files, stage, preview, retention, host, lost, ghosts, unclean>>

\* applyMessageDeletion: a tombstone that names nothing.
Tombstone(m) ==
    [doc EXCEPT !.status[m] = "deleted",
                !.named = @ \ FilesOf[m],
                !.pending = @ \cup (doc.named \cap FilesOf[m])]

\* Slip: the lock is handed on before the files are removed.
CleanOutside ==
    /\ step' = "cleaning"
    /\ queue' = Tail(queue)
    /\ UNCHANGED <<doc, disk, previous>>

Clean ==
    /\ step' = "cleaning"
    /\ UNCHANGED <<doc, disk, previous, queue>>

\* Slip: the files go before the deletion is saved.
BeginDeleteFilesFirst ==
    /\ Begins("delete")
    /\ \/ /\ doc.status[Subject] = "live" /\ Edit(Tombstone(Subject))
          /\ files' = files \ FilesOf[Subject]
       \/ doc.status[Subject] # "live" /\ Leave /\ UNCHANGED files
    /\ UNCHANGED <<stage, preview, retention, host, lost, ghosts, unclean, left>>

\* commitMessageDeletion: a repeated deletion only takes up what is pending.
BeginDelete ==
    /\ Begins("delete")
    /\ \/ doc.status[Subject] = "live" /\ Edit(Tombstone(Subject))
       \/ doc.status[Subject] = "deleted" /\ doc.pending # {} /\ Clean
       \/ doc.status[Subject] = "deleted" /\ doc.pending = {} /\ Leave
       \/ doc.status[Subject] \in {"none", "removed"} /\ Leave
    /\ UNCHANGED <<files, stage, preview, retention, host, lost, ghosts, unclean, left>>

EndDelete ==
    /\ Saving("delete")
    /\ \/ Saved(IF doc.pending = {} THEN "idle" ELSE "cleaning")
       \/ Rejected
    /\ UNCHANGED <<files, stage, retention, host, lost, ghosts, unclean>>

\* previewRetention reads memory, whoever holds the lock.  (The dialog waits for
\* an answer before it asks again.)
Preview ==
    /\ host = "up" /\ \A i \in DOMAIN queue : queue[i].kind # "retain"
    /\ Spend("preview")
    /\ preview' = [shown    |-> Listed(doc),
                   revision |-> doc.revision,
                   undone   |-> FALSE,
                   used     |-> FALSE]
    /\ UNCHANGED <<lock, files, stage, retention, host, lost, ghosts, unclean>>

Apply ==
    /\ host = "up" /\ ~preview.used
    /\ Spend("retain")
    /\ preview' = [preview EXCEPT !.used = TRUE]
    /\ Enqueue(Section("retain", Nothing))
    /\ UNCHANGED <<files, stage, retention, host, lost, ghosts, unclean>>

\* prepareRetention
WithoutHistory ==
    [doc EXCEPT !.status = [m \in Messages |-> IF doc.status[m] = "none" THEN "none"
                                                                        ELSE "removed"],
                !.named = {},
                !.pending = @ \cup doc.named,
                !.retained = TRUE]

\* Slip: any preview will do.
ConfirmedAnyway == preview.revision <= doc.revision

Confirmed == preview.revision = doc.revision

BeginRetain ==
    /\ Begins("retain")
    /\ IF Confirmed /\ ~(\E m \in Messages : Active(m))
       THEN Edit(WithoutHistory)
       ELSE Leave
    /\ UNCHANGED <<files, stage, preview, retention, host, lost, ghosts, unclean, left>>

EndRetain ==
    /\ Saving("retain")
    /\ \/ Saved("idle") /\ retention' = "saved"
       \/ Rejected /\ UNCHANGED retention
    /\ UNCHANGED <<files, stage, host, lost, ghosts, unclean>>

\* The native sessions are closed in between.
AskCleanup ==
    /\ host = "up" /\ retention = "saved"
    /\ retention' = "none"
    /\ Enqueue(Section("cleanup", Nothing))
    /\ UNCHANGED <<files, stage, preview, host, lost, ghosts, unclean, left>>

\* The other conversations: a change that moves the revision on.
AskOther ==
    /\ host = "up"
    /\ Spend("other")
    /\ Enqueue(Section("other", Nothing))
    /\ UNCHANGED <<files, stage, preview, retention, host, lost, ghosts, unclean>>

BeginOther ==
    /\ Begins("other")
    /\ Edit(doc)
    /\ UNCHANGED <<files, stage, preview, retention, host, lost, ghosts, unclean, left>>

EndOther ==
    /\ Saving("other")
    /\ Saved("idle") \/ Rejected
    /\ UNCHANGED <<files, stage, retention, host, lost, ghosts, unclean>>

-----------------------------------------------------------------------------
(* removePendingAttachmentDeletions, by whoever holds the lock.  Start-up     *)
(* does the same before the host is reachable: there host becomes "up".       *)

BeginCleanup ==
    /\ host \in {"up", "starting"} /\ step = "idle"
    /\ queue # <<>> /\ Head(queue).kind = "cleanup"
    /\ \/ doc.pending # {} /\ Clean /\ UNCHANGED host
       \/ doc.pending = {} /\ Leave /\ host' = "up"
    /\ UNCHANGED <<files, stage, preview, retention, lost, ghosts, unclean, left>>

RemoveFiles ==
    /\ step = "cleaning"
    /\ files' = files \ doc.pending
    /\ previous' = doc
    /\ doc' = [doc EXCEPT !.pending = {}]
    /\ step' = "forgetting"
    /\ UNCHANGED <<disk, queue, stage, preview, retention, host, lost, ghosts, unclean,
                   left>>

\* Slip: what could not be removed is given up.
GivenUp == [doc EXCEPT !.pending = {}]

KeptPending == doc

\* Some are removed, one is not: the caller is told, the list stays.
RemoveFails ==
    /\ step = "cleaning"
    /\ Spend("cleanFails")
    /\ \E removed \in SUBSET doc.pending \ {doc.pending} : files' = files \ removed
    /\ doc' = KeptPending
    /\ step' = "idle" /\ queue' = Tail(queue) /\ host' = "up"
    /\ unclean' = TRUE
    /\ UNCHANGED <<disk, previous, stage, preview, retention, lost, ghosts>>

\* When this persist rejects, the list is put back.
EndForget ==
    /\ step = "forgetting"
    /\ Saved("idle") \/ Rejected
    /\ host' = "up"
    /\ UNCHANGED <<files, stage, retention, lost, ghosts, unclean>>

-----------------------------------------------------------------------------
(* Process death and start-up.                                             *)

Crash ==
    /\ host # "down"
    /\ Spend("crash")
    /\ host' = "down"
    /\ disk' \in {disk} \cup (IF step \in {"saving", "forgetting"} THEN {doc} ELSE {})
    /\ doc' = disk' /\ previous' = disk'
    /\ queue' = <<>> /\ step' = "idle"
    /\ stage' = [m \in Messages |-> IF stage[m] = "none" THEN "none" ELSE "over"]
    /\ lost' = lost \cup ((InFlight \cap files) \ disk'.named)
    /\ retention' = "none"
    /\ Forsake(disk')
    /\ UNCHANGED <<files, ghosts, unclean>>

\* Slip: pending removals wait for the next deletion.
StartWithoutCleanup == <<>>

StartWork == <<Section("cleanup", Nothing)>>

\* initialize
Restart ==
    /\ host = "down"
    /\ host' = IF StartWork = <<>> THEN "up" ELSE "starting"
    /\ queue' = StartWork
    /\ UNCHANGED <<doc, disk, previous, step, files, stage, preview, retention, lost,
                   ghosts, unclean, left>>

-----------------------------------------------------------------------------

MessageStep(m) ==
    \/ ReadSource(m) \/ Store(m) \/ AskAccept(m) \/ RemoveRefused(m)
    \/ TurnEnds(m) \/ AskReply(m)

LockStep ==
    \/ BeginAccept \/ EndAccept \/ BeginReply \/ EndReply
    \/ BeginDelete \/ EndDelete \/ BeginRetain \/ EndRetain
    \/ BeginOther \/ EndOther
    \/ BeginCleanup \/ RemoveFiles \/ RemoveFails \/ EndForget

HostStep == (\E m \in Messages : MessageStep(m)) \/ LockStep \/ AskCleanup \/ Restart

Next ==
    \/ HostStep
    \/ \E m \in Messages : Send(m) \/ StartEdit(m) \/ Delete(m)
    \/ Preview \/ Apply \/ AskOther
    \/ Crash

\* The host goes on with what it has begun, and is started again.
Spec == Init /\ [][Next]_vars /\ WF_vars(HostStep)

-----------------------------------------------------------------------------
(* Properties.                                                             *)

\* Every file that a saved message names can be served, in memory and after a
\* restart.  The exception is a message whose persist rejected after state.json
\* was replaced: its files are removed, and a restart would still load it.
FilesAreKept ==
    /\ disk.named \subseteq files \cup ghosts
    /\ host = "up" => doc.named \subseteq files \cup ghosts

\* docs/guides/architecture.md: cleanup "failures never discard the IDs needed to
\* finish removing bytes".  A file on disk is named by a message, is listed for
\* removal, or belongs to work in progress, in memory and after a restart; only
\* a process death leaves files that nothing speaks of.
NothingLeaks ==
    \A document \in {doc, disk} :
        files \subseteq document.named \cup document.pending \cup InFlight \cup lost

\* Start-up refuses a document whose pending removals name a file that a message
\* still has (loadedAttachmentDeletions): no sequence of deletions, rejected
\* persists and process deaths saves such a document.
NeverRefused == disk.named \cap disk.pending = {}

\* docs/specs/workspace-archive-format.md: "Any intervening state change requires a
\* new preview": a retention that is saved removes exactly the messages the user
\* was shown.  The exception is a preview of a change that was taken back, whose
\* revision is used again.
RemovesWhatWasShown ==
    [][~disk.retained /\ disk'.retained /\ ~preview.undone =>
         {m \in Messages : disk'.status[m] = "removed"} = preview.shown]_vars

\* After a retention was saved no send and no reply that was under way is recorded
\* in the Thread it removed.
RemovedStaysRemoved ==
    [][disk.retained /\ doc.retained =>
         \A m \in Messages :
           m \notin Edits /\ Source[m] \notin Edits /\ disk'.status[m] = "live"
             => disk.status[m] = "live"]_vars

\* The bytes of what was deleted are gone at some time, through process deaths and
\* rejected persists, unless removing them failed (or the deletion was itself
\* taken back: saved and yet reported as failed).
DeletedBytesGo ==
    \A f \in Files :
        f \in disk.pending ~> f \notin files \/ f \in doc.named \/ unclean

\* What holds of files and document in every state: no file is forgotten, and what
\* is saved can be loaded.
HistoryConsistent ==
    /\ TypeOK
    /\ NothingLeaks
    /\ NeverRefused

\* A retention removes what was shown and nothing comes back into what it removed.
RetentionIsExact == RemovesWhatWasShown /\ RemovedStaysRemoved

=============================================================================
