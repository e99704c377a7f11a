----------------------------- MODULE Conversation -----------------------------
(***************************************************************************)
(* One conversation scope: sends become accepted messages exactly once per *)
(* client submission, and messages wait in pendingFollowups while a run is *)
(* active.  The document moves only under the lock of withStateChange, but *)
(* pendingFollowups is plain memory that the run loop also shifts while a  *)
(* locked section waits for its persist.                                   *)
(*                                                                         *)
(* A message is named by the send that created it.  persist() either saves *)
(* the document, or rejects before or after state.json was replaced (see   *)
(* StateStore); the order in which waiting sections get the lock is left   *)
(* open.                                                                   *)
(***************************************************************************)
EXTENDS Naturals, Sequences, SequencesExt

CONSTANTS
    Sends,              \* requests to POST /api/messages, each tried once
    Submissions,        \* client submission identifiers
    SubmissionOf,       \* the submission each send carries
    MaxFailures,        \* bound on persists that reject before the rename
    MaxLateFailures,    \* bound on persists that reject after the rename
    MaxRemoveFailures,  \* bound on persists of removeFollowup that reject
    MaxCrashes          \* bound on process deaths

ASSUME SubmissionAssumption == SubmissionOf \in [Sends -> Submissions]
ASSUME BoundAssumption ==
    {MaxFailures, MaxLateFailures, MaxRemoveFailures, MaxCrashes} \subseteq Nat

VARIABLES
    state,     \* this.state: the reply status of each message, none if absent
    disk,      \* what a restart would load
    previous,  \* previousState of the section holding the lock
    saved,     \* previousQueue of the removeFollowup holding the lock
    holder,    \* the section that waits for its persist
    send,      \* where each send stands, and what its client was told
    files,     \* the sends whose attachments are stored
    pending,   \* pendingFollowups of this scope
    current,   \* the message processReplies works on: activeConversationRuns
    stage,     \* where it stands: working, recording, recorded, broken
    starts,    \* how often processReplies was started for each message
    removed,   \* messages a client was told are removed from the queue
    host,      \* up or down
    failures, lateFailures, removeFailures, crashes

document == <<state, disk, previous, holder>>
loop     == <<pending, current, stage, starts>>
counters == <<failures, lateFailures, removeFailures, crashes>>
vars     == <<document, saved, send, files, loop, removed, host, counters>>

None == [kind |-> "none"]
Section(kind, m) == [kind |-> kind, message |-> m]
Idle == [kind |-> "idle"]
Of(m) == [kind |-> "run", message |-> m]

Statuses == {"none", "open", "settled"}

TypeOK ==
    /\ state \in [Sends -> Statuses]
    /\ disk \in [Sends -> Statuses]
    /\ previous \in [Sends -> Statuses]
    /\ saved \in Seq(Sends)
    /\ holder \in {None} \cup
         {Section(kind, m) : kind \in {"accept", "record", "remove"}, m \in Sends}
    /\ send \in [Sends -> {"idle", "sent", "accepted", "replayed", "failed", "lost"}]
    /\ files \subseteq Sends
    /\ pending \in Seq(Sends)
    /\ current \in {Idle} \cup {Of(m) : m \in Sends}
    /\ stage \in {"none", "working", "recording", "recorded", "broken"}
    /\ starts \in [Sends -> 0..(1 + MaxRemoveFailures)]
    /\ removed \subseteq Sends
    /\ host \in {"up", "down"}
    /\ failures \in 0..MaxFailures
    /\ lateFailures \in 0..MaxLateFailures
    /\ removeFailures \in 0..MaxRemoveFailures
    /\ crashes \in 0..MaxCrashes

Nowhere == [s \in Sends |-> "none"]

Init ==
    /\ state = Nowhere /\ disk = Nowhere /\ previous = Nowhere
    /\ saved = <<>> /\ holder = None
    /\ send = [s \in Sends |-> "idle"]
    /\ files = {}
    /\ pending = <<>> /\ current = Idle /\ stage = "none"
    /\ starts = [s \in Sends |-> 0]
    /\ removed = {}
    /\ host = "up"
    /\ failures = 0 /\ lateFailures = 0 /\ removeFailures = 0 /\ crashes = 0

\* replayedSubmission: the message an earlier send of this submission created.
Receipts(document_, submission) ==
    {m \in Sends : SubmissionOf[m] = submission /\ document_[m] # "none"}

-----------------------------------------------------------------------------
(* The lock.                                                               *)

Free == host = "up" /\ holder = None

\* Slip: previousState is not taken anew by each section.
ChangeKeepsPrevious(section, after) ==
    /\ state' = after
    /\ holder' = section
    /\ UNCHANGED <<disk, previous>>

\* A section changes this.state and calls persist().
Change(section, after) ==
    /\ previous' = state
    /\ state' = after
    /\ holder' = section
    /\ UNCHANGED disk

Held(kind, m) == holder = Section(kind, m)

Persisted ==
    /\ disk' = state
    /\ holder' = None
    /\ UNCHANGED <<state, previous, counters>>

\* The section puts this.state back; the disk may have the change all the same.
Rejected ==
    /\ state' = previous
    /\ holder' = None
    /\ \/ /\ failures < MaxFailures
          /\ failures' = failures + 1
          /\ UNCHANGED <<disk, lateFailures>>
       \/ /\ lateFailures < MaxLateFailures
          /\ lateFailures' = lateFailures + 1
          /\ disk' = state
          /\ UNCHANGED failures
    /\ UNCHANGED <<previous, removeFailures, crashes>>

-----------------------------------------------------------------------------
(* send: prepare, store attachments, accept under the lock.                *)

\* The request is prepared and persistSendAttachments has stored its files.
Prepare(s) ==
    /\ host = "up"
    /\ send[s] = "idle"
    /\ send' = [send EXCEPT ![s] = "sent"]
    /\ files' = files \cup {s}
    /\ UNCHANGED <<document, saved, loop, removed, host, counters>>

\* Slip: the files of a replayed send stay.
ReplayKeepsFiles(s) ==
    /\ Free
    /\ send[s] = "sent"
    /\ Receipts(state, SubmissionOf[s]) # {}
    /\ send' = [send EXCEPT ![s] = "replayed"]
    /\ UNCHANGED <<document, saved, files, loop, removed, host, counters>>

\* Another send of the same submission was accepted: its message is returned
\* and the files of this one are removed.
Replay(s) ==
    /\ Free
    /\ send[s] = "sent"
    /\ Receipts(state, SubmissionOf[s]) # {}
    /\ send' = [send EXCEPT ![s] = "replayed"]
    /\ files' = files \ {s}
    /\ UNCHANGED <<document, saved, loop, removed, host, counters>>

\* Slip: receipts are looked up before the lock only.
BeginAcceptUnchecked(s) ==
    /\ Free
    /\ send[s] = "sent"
    /\ Change(Section("accept", s), [state EXCEPT ![s] = "open"])
    /\ UNCHANGED <<saved, send, files, loop, removed, host, counters>>

BeginAccept(s) ==
    /\ Free
    /\ send[s] = "sent"
    /\ Receipts(state, SubmissionOf[s]) = {}
    /\ Change(Section("accept", s), [state EXCEPT ![s] = "open"])
    /\ UNCHANGED <<saved, send, files, loop, removed, host, counters>>

Start(m) ==
    /\ current' = Of(m)
    /\ stage' = "working"
    /\ starts' = [starts EXCEPT ![m] = @ + 1]

\* Slip: a message that starts at once is queued as well.
AcceptTwice(s) ==
    /\ Held("accept", s)
    /\ Persisted
    /\ send' = [send EXCEPT ![s] = "accepted"]
    /\ IF current = Idle THEN Start(s) ELSE UNCHANGED <<current, stage, starts>>
    /\ pending' = Append(pending, s)
    /\ UNCHANGED <<saved, files, removed, host>>

\* The message starts a run loop or waits: at the back of the queue, or at its
\* front when it is to steer or to stop and send.
Accept(s) ==
    /\ Held("accept", s)
    /\ Persisted
    /\ send' = [send EXCEPT ![s] = "accepted"]
    /\ IF current = Idle
         THEN Start(s) /\ UNCHANGED pending
         ELSE /\ pending' \in {Append(pending, s), <<s>> \o pending}
              /\ UNCHANGED <<current, stage, starts>>
    /\ UNCHANGED <<saved, files, removed, host>>

AcceptFails(s) ==
    /\ Held("accept", s)
    /\ Rejected
    /\ send' = [send EXCEPT ![s] = "failed"]
    /\ files' = files \ {s}
    /\ UNCHANGED <<saved, loop, removed, host>>

-----------------------------------------------------------------------------
(* startConversationRun: one processReplies after the other.               *)

\* The Agent's turn is over, however it ended.
FinishTurn ==
    /\ host = "up" /\ stage = "working"
    /\ stage' = "recording"
    /\ UNCHANGED <<document, saved, send, files, pending, current, starts, removed,
                   host, counters>>

\* completeAgentReply or recordAgentRunFailure.
BeginRecord(m) ==
    /\ Free
    /\ stage = "recording" /\ current = Of(m)
    /\ Change(Section("record", m), [state EXCEPT ![m] = "settled"])
    /\ UNCHANGED <<saved, send, files, loop, removed, host, counters>>

Record(m) ==
    /\ Held("record", m)
    /\ Persisted
    /\ stage' = "recorded"
    /\ UNCHANGED <<saved, send, files, pending, current, starts, removed, host>>

\* processReplies rejects, and with it the loop.
RecordFails(m) ==
    /\ Held("record", m)
    /\ Rejected
    /\ stage' = "broken"
    /\ UNCHANGED <<saved, send, files, pending, current, starts, removed, host>>

\* Slip: the loop reads the head of the queue and leaves it there.
AdvancePeeks ==
    /\ host = "up" /\ stage = "recorded"
    /\ IF pending # <<>>
         THEN Start(Head(pending)) /\ UNCHANGED pending
         ELSE current' = Idle /\ stage' = "none" /\ UNCHANGED <<pending, starts>>
    /\ UNCHANGED <<document, saved, send, files, removed, host, counters>>

\* Slip: the loop stops one message early.
AdvanceStopsEarly ==
    /\ host = "up" /\ stage = "recorded"
    /\ IF Len(pending) > 1
         THEN Start(Head(pending)) /\ pending' = Tail(pending)
         ELSE current' = Idle /\ stage' = "none" /\ UNCHANGED <<pending, starts>>
    /\ UNCHANGED <<document, saved, send, files, removed, host, counters>>

\* The loop takes the next message, if any; nothing keeps it from doing so while
\* some section waits for its persist.
Advance ==
    /\ host = "up" /\ stage = "recorded"
    /\ IF pending # <<>>
         THEN Start(Head(pending)) /\ pending' = Tail(pending)
         ELSE current' = Idle /\ stage' = "none" /\ UNCHANGED <<pending, starts>>
    /\ UNCHANGED <<document, saved, send, files, removed, host, counters>>

\* The loop is over and leaves pendingFollowups as it is.
Abandon ==
    /\ host = "up" /\ stage = "broken"
    /\ current' = Idle /\ stage' = "none"
    /\ UNCHANGED <<document, saved, send, files, pending, starts, removed, host,
                   counters>>

-----------------------------------------------------------------------------
(* reorderFollowup and removeFollowup.                                     *)

Reorder(m) ==
    /\ Free
    /\ \E i \in 1..(Len(pending) - 1) :
         /\ m \in {pending[i], pending[i + 1]}
         /\ pending' = [pending EXCEPT ![i] = pending[i + 1], ![i + 1] = pending[i]]
    /\ UNCHANGED <<document, saved, send, files, current, stage, starts, removed,
                   host, counters>>

\* Slip: the message is marked cancelled and stays in the queue.
BeginRemoveMarks(m) ==
    /\ Free
    /\ Contains(pending, m)
    /\ saved' = pending
    /\ Change(Section("remove", m), [state EXCEPT ![m] = "settled"])
    /\ UNCHANGED <<send, files, loop, removed, host, counters>>

BeginRemove(m) ==
    /\ Free
    /\ saved' = pending
    /\ \E i \in DOMAIN pending : pending[i] = m /\ pending' = RemoveAt(pending, i)
    /\ Change(Section("remove", m), [state EXCEPT ![m] = "settled"])
    /\ UNCHANGED <<send, files, current, stage, starts, removed, host, counters>>

Removed(m) ==
    /\ Held("remove", m)
    /\ Persisted
    /\ removed' = removed \cup {m}
    /\ UNCHANGED <<saved, send, files, loop, host>>

\* The queue of before the change comes back, whatever the loop took meanwhile.  The
\* persist rejects before state.json is renamed, or after.
RemoveFails(m) ==
    /\ Held("remove", m)
    /\ removeFailures < MaxRemoveFailures
    /\ removeFailures' = removeFailures + 1
    /\ state' = previous
    /\ pending' = saved
    /\ holder' = None
    /\ disk' \in {disk, state}
    /\ UNCHANGED <<previous, saved, send, files, current, stage, starts, removed, host,
                   failures, lateFailures, crashes>>

-----------------------------------------------------------------------------
(* Death and restart.                                                      *)

\* Memory is gone; a persist under way has replaced state.json or has not.
Crash ==
    /\ host = "up"
    /\ crashes < MaxCrashes
    /\ crashes' = crashes + 1
    /\ host' = "down"
    /\ disk' \in {disk} \cup (IF holder = None THEN {} ELSE {state})
    /\ state' = Nowhere /\ previous' = Nowhere /\ holder' = None /\ saved' = <<>>
    /\ send' = [s \in Sends |-> IF send[s] = "sent" THEN "lost" ELSE send[s]]
    /\ pending' = <<>> /\ current' = Idle /\ stage' = "none"
    /\ UNCHANGED <<files, starts, removed, failures, lateFailures, removeFailures>>

\* Slip: initialize does not mark interrupted runs.
RestartAsFound ==
    /\ host = "down"
    /\ host' = "up"
    /\ state' = disk
    /\ UNCHANGED <<disk, previous, saved, holder, send, files, loop, removed, counters>>

\* initialize loads the document and marks what was open as interrupted.
Restart ==
    /\ host = "down"
    /\ host' = "up"
    /\ state' = [m \in Sends |-> IF disk[m] = "open" THEN "settled" ELSE disk[m]]
    /\ disk' = state'
    /\ UNCHANGED <<previous, saved, holder, send, files, loop, removed, counters>>

-----------------------------------------------------------------------------

Settles(m) == Accept(m) \/ Record(m) \/ Removed(m)
Locked(m)  == Replay(m) \/ BeginAccept(m) \/ BeginRecord(m) \/ Settles(m)
Fail(m)    == AcceptFails(m) \/ RecordFails(m) \/ RemoveFails(m)
RunLoop    == FinishTurn \/ Advance \/ Abandon

Next ==
    \/ \E m \in Sends :
         Prepare(m) \/ Locked(m) \/ Fail(m) \/ Reorder(m) \/ BeginRemove(m)
    \/ RunLoop
    \/ Crash \/ Restart

\* Turns end, persists settle, and the section that records a reply gets the lock
\* in its turn.
Fairness ==
    /\ WF_vars(RunLoop) /\ WF_vars(Restart)
    /\ WF_vars(\E m \in Sends : Settles(m))
    /\ SF_vars(\E m \in Sends : BeginRecord(m))

Spec == Init /\ [][Next]_vars /\ Fairness

-----------------------------------------------------------------------------
(* Properties.                                                             *)

\* However often a submission is sent, also concurrently, after a failure or
\* after a restart, at most one message comes of it.
AcceptedOnce ==
    \A submission \in Submissions, document_ \in {state, disk} :
        \A m, n \in Receipts(document_, submission) : m = n

\* docs/specs/product-spec.md: "Once a message is accepted, later failure cannot
\* erase it": a client told of acceptance finds its message in memory and, after
\* any crash, on disk.
AcceptedIsKept ==
    \A s \in Sends :
        /\ send[s] = "accepted" =>
             disk[s] # "none" /\ (host = "up" => state[s] # "none")
        /\ send[s] = "replayed" => Receipts(disk, SubmissionOf[s]) # {}

\* A message has its attachments, and a send that was refused or replayed has
\* left none; a persist that rejects after the rename would break the former.
FilesFollowMessages ==
    lateFailures = 0 =>
        \A s \in Sends :
            /\ state[s] # "none" \/ disk[s] # "none" => s \in files
            /\ send[s] \in {"failed", "replayed"} => s \notin files

\* No message is given to the Agent twice, neither by the queue nor after a
\* restart; a removeFollowup that is rolled back would break it.
StartedOnce == removeFailures = 0 => \A m \in Sends : starts[m] <= 1

\* What a client removed from the queue is never given to the Agent.
RemovedNeverStarts ==
    [][\A m \in removed : starts'[m] = starts[m]]_vars

\* An open message is being worked on, waits in the queue, or was left by a loop
\* whose persist was rejected.
OpenHasAnOwner ==
    host = "up" /\ failures + lateFailures + removeFailures = 0 =>
        \A m \in Sends :
            state[m] = "open" =>
                current = Of(m) \/ Contains(pending, m) \/ Held("accept", m)

\* A new message starts at once only when no earlier one is waiting.
NoOvertaking ==
    failures + lateFailures + removeFailures = 0 =>
        (current = Idle => pending = <<>>)

\* Unless a persist rejects, what waits in the queue leaves it: its turn comes,
\* it is removed, or the process dies.
QueueMoves ==
    \A m \in Sends :
        Contains(pending, m) ~>
            ~Contains(pending, m) \/ failures + lateFailures + removeFailures > 0

\* What holds of the queue and the document in every state: no accepted message is
\* without its files, its place in the queue or its run, and none runs twice.
QueueConsistent ==
    /\ TypeOK
    /\ AcceptedIsKept
    /\ FilesFollowMessages
    /\ StartedOnce
    /\ OpenHasAnOwner
    /\ NoOvertaking

=============================================================================
