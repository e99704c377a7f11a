------------------------- MODULE DirectMessageProofs -------------------------
(***************************************************************************)
(* Once /new is saved, no earlier message gets a reply, and a message is   *)
(* complete only with its reply: for any number of messages, resets,       *)
(* rejected persists and process deaths; and message, run and permission   *)
(* agree.                                                                  *)
(***************************************************************************)
EXTENDS DirectMessage, TLAPS

-----------------------------------------------------------------------------
(* The inductive invariant.                                                *)

AnyDocument ==
    [status     : [Messages -> Statuses],
     replied    : SUBSET Messages,
     permission : [Messages -> {"none", "pending", "resolved", "interrupted"}],
     generation : Nat]

Sections == {Section(kind, m) : kind \in Kinds, m \in Messages} \cup {Reset, Close, Shutdown}

Replied(d) == \A m \in Messages : d.status[m] = "complete" => m \in d.replied

\* An edit of what /new and replies have nothing to do with.
SameReplies(d, e) == d.generation = e.generation /\ d.replied = e.replied

\* What a section adds to the replies belongs to the generation on disk, and then
\* it leaves that as it is; undoing it brings back what the disk has.  close() is not
\* undone in memory, and adds none.
LockInv ==
    IF saving
    THEN /\ SameReplies(previous, disk)
         /\ \A m \in state.replied \ disk.replied :
              bornIn[m] = disk.generation /\ state.generation = disk.generation
         /\ Head(queue) = Close => SameReplies(state, disk)
    ELSE SameReplies(state, disk)

IInv ==
    /\ state \in AnyDocument /\ disk \in AnyDocument /\ previous \in AnyDocument
    /\ bornIn \in [Messages -> Nat]
    /\ Replied(state) /\ Replied(disk) /\ Replied(previous)
    /\ queue \in Seq(Sections) /\ (saving => queue # <<>>)
    /\ host = "up" => LockInv

\* What a run whose session is being cancelled goes on to.
CancelInv == cancelling \in [Messages -> {"no", "stop", "cancel"}]

-----------------------------------------------------------------------------
(* What the edits do to a document.                                        *)

\* updateMessageReplyStatus, for every status but complete.
LEMMA StatusEdit ==
  ASSUME NEW d \in AnyDocument, NEW m \in Messages, NEW s \in Statuses, s # "complete",
         Replied(d)
  PROVE  /\ WithStatus(d, m, s) \in AnyDocument
         /\ SameReplies(WithStatus(d, m, s), d) /\ Replied(WithStatus(d, m, s))
BY DEF AnyDocument, WithStatus, SameReplies, Replied

\* completeAgentReply writes the reply with its status.
LEMMA CompleteEdit ==
  ASSUME NEW d \in AnyDocument, NEW m \in Messages, Replied(d)
  PROVE  LET e == [WithStatus(d, m, "complete") EXCEPT !.replied = @ \cup {m}]
         IN  /\ e \in AnyDocument /\ Replied(e)
             /\ e.generation = d.generation /\ e.replied = d.replied \cup {m}
BY DEF AnyDocument, WithStatus, Replied, Statuses, Final

\* /new, an orderly stop and start-up settle what is open.
LEMMA SettleEdit ==
  ASSUME NEW d \in AnyDocument, Replied(d)
  PROVE  /\ SettleOpen(d) \in AnyDocument
         /\ SameReplies(SettleOpen(d), d) /\ Replied(SettleOpen(d))
BY DEF AnyDocument, SettleOpen, SameReplies, Replied, Statuses, Final

\* A change of permissions alone.
LEMMA PermissionEdit ==
  ASSUME NEW d \in AnyDocument, Replied(d),
         NEW p \in [Messages -> {"none", "pending", "resolved", "interrupted"}]
  PROVE  LET e == [d EXCEPT !.permission = p]
         IN  e \in AnyDocument /\ SameReplies(e, d) /\ Replied(e)
BY DEF AnyDocument, SameReplies, Replied

\* /new makes a new generation.
LEMMA ResetEdit ==
  ASSUME NEW d \in AnyDocument, Replied(d)
  PROVE  LET e == [d EXCEPT !.generation = @ + 1]
         IN  e \in AnyDocument /\ Replied(e) /\ e.replied = d.replied
BY DEF AnyDocument, Replied

\* Memory of a process that is gone.
LEMMA EmptyDocument == Empty \in AnyDocument /\ Replied(Empty)
BY DEF AnyDocument, Replied, Empty, Statuses

-----------------------------------------------------------------------------
(* What the operations of the lock do to the invariant.                    *)

\* Nothing happens to the document; a section may be queued.
LEMMA QuietPreserves ==
  ASSUME IInv, UNCHANGED <<state, disk, previous, saving, bornIn, host>>,
         queue' = queue \/ \E section \in Sections : queue' = Append(queue, section)
  PROVE  IInv'
<1>1. queue' \in Seq(Sections) /\ (queue # <<>> => queue' # <<>> /\ Head(queue') = Head(queue))
  <2>1. queue \in Seq(Sections)
    BY DEF IInv
  <2>2. ASSUME NEW section \in Sections
        PROVE  /\ Append(queue, section) \in Seq(Sections) /\ Append(queue, section) # <<>>
               /\ queue # <<>> => Head(Append(queue, section)) = Head(queue)
    BY <2>1
  <2> QED BY <2>1, <2>2
<1> QED BY <1>1 DEF IInv, LockInv, SameReplies, Replied

\* The holder leaves the lock, and its caller may ask for it again.
LEMMA TailAndNext ==
  ASSUME NEW q \in Seq(Sections), q # <<>>, NEW next \in Seq(Sections)
  PROVE  Tail(q) \o next \in Seq(Sections)
<1>1. Tail(q) \in Seq(Sections)
  OBVIOUS
<1> QED BY <1>1

\* The holder finds nothing to do.
LEMMA SkipPreserves ==
  ASSUME IInv, ~saving, queue # <<>>, NEW next \in Seq(Sections), Skip(next),
         UNCHANGED <<bornIn, host>>
  PROVE  IInv'
BY TailAndNext DEF IInv, LockInv, SameReplies, Replied, Skip

\* A section that adds no reply and makes no new generation.
LEMMA EditPreserves ==
  ASSUME IInv, host = "up", ~saving, queue # <<>>, NEW d \in AnyDocument, Replied(d),
         SameReplies(d, state), Edit(d), UNCHANGED <<bornIn, host>>
  PROVE  IInv'
BY DEF IInv, LockInv, SameReplies, Replied, Edit

\* The persist resolved.
LEMMA SavedPreserves ==
  ASSUME IInv, host = "up", saving, NEW next \in Seq(Sections), Saved(next),
         UNCHANGED <<bornIn, host>>
  PROVE  IInv'
BY TailAndNext DEF IInv, LockInv, SameReplies, Replied, Saved

\* The persist rejected, and memory is what it was.
LEMMA FailsPreserves ==
  ASSUME IInv, host = "up", saving, NEW next \in Seq(Sections), Fails(next),
         UNCHANGED <<bornIn, host>>
  PROVE  IInv'
BY TailAndNext DEF IInv, LockInv, SameReplies, Replied, Fails

\* The process is gone; the disk has the change under way or not.
LEMMA ExitPreserves ==
  ASSUME IInv, Exit, disk' \in {disk, state}
  PROVE  IInv'
BY EmptyDocument DEF IInv, Replied, Exit

\* What may wait for the lock; only close() is called Close.
LEMMA SectionKinds ==
  /\ \A kind \in Kinds, m \in Messages :
       Section(kind, m) \in Sections /\ Section(kind, m) # Close
  /\ Reset \in Sections /\ Close \in Sections /\ Shutdown \in Sections /\ Reset # Close
  /\ <<>> \in Seq(Sections) /\ \A section \in Sections : <<section>> \in Seq(Sections)
  /\ {"accept", "start", "complete", "fail", "interrupt", "stop", "steer", "cancel", "ask",
      "answer"} = Kinds
<1>1. \A kind \in Kinds, m \in Messages : Section(kind, m) \in Sections
  BY DEF Sections
<1>2. \A kind \in Kinds, m \in Messages : Section(kind, m).kind # Close.kind
  BY DEF Section, Close, Kinds
<1>3. Reset.kind # Close.kind
  BY DEF Reset, Close
<1>4. Reset \in Sections /\ Close \in Sections /\ Shutdown \in Sections
  BY DEF Sections
<1>5. <<>> \in Seq(Sections) /\ \A section \in Sections : <<section>> \in Seq(Sections)
  OBVIOUS
<1> QED BY <1>1, <1>2, <1>3, <1>4, <1>5 DEF Kinds

-----------------------------------------------------------------------------
(* One lemma for each group of actions.                                    *)

\* Acceptance and the run of a message.
LEMMA DeliverPreserves ==
  ASSUME IInv, NEW m \in Messages, Deliver(m)
  PROVE  IInv'
<1> USE DEF process, runs, lock
<1>1. ASSUME NEW s \in {"queued", "running", "failed", "cancelled"}, host = "up", ~saving,
             queue # <<>>,
             Edit(WithStatus(state, m, s)), UNCHANGED <<bornIn, host>>
      PROVE  IInv'
  <2>1. s \in Statuses /\ s # "complete"
    BY DEF Statuses, Final
  <2>2. state \in AnyDocument /\ Replied(state)
    BY DEF IInv
  <2> QED BY <1>1, <2>1, <2>2, StatusEdit, EditPreserves
<1>2. CASE BeginAccept(m)
  BY <1>1, <1>2, SkipPreserves, SectionKinds DEF BeginAccept, Begins, Skip
<1>3. CASE EndAccept(m)
  BY <1>3, SavedPreserves, FailsPreserves, SectionKinds DEF EndAccept, Settles
<1>4. CASE Launch(m)
  BY <1>4, QuietPreserves, SectionKinds DEF Launch, Enqueue
<1>5. CASE BeginStart(m)
  BY <1>1, <1>5 DEF BeginStart, Begins
<1>6. CASE EndStart(m)
  <2>1. Ending(m, "fail") \in Seq(Sections) /\ <<>> \in Seq(Sections)
    BY SectionKinds DEF Ending
  <2> QED BY <1>6, <2>1, SavedPreserves, FailsPreserves, SectionKinds DEF EndStart, Settles
<1>7. CASE BeginComplete(m)
  <2> DEFINE d == [WithStatus(state, m, "complete") EXCEPT !.replied = @ \cup {m}]
  <2>1. CASE Current(m)
    <3>1. /\ d \in AnyDocument /\ Replied(d)
          /\ d.generation = state.generation /\ d.replied = state.replied \cup {m}
      BY CompleteEdit DEF IInv
    <3>2. /\ host = "up" /\ ~saving /\ bornIn[m] = state.generation
          /\ state' = d /\ previous' = state /\ disk' = disk /\ saving' = TRUE
          /\ queue # <<>> /\ Head(queue) # Close /\ queue' = queue
          /\ bornIn' = bornIn /\ host' = host
      BY SectionKinds, <1>7, <2>1 DEF BeginComplete, Begins, Edit, Current
    <3> HIDE DEF d
    <3> QED BY <3>1, <3>2 DEF IInv, LockInv, SameReplies, Replied
  <2>2. CASE ~Current(m)
    BY <1>7, <2>2, SkipPreserves, SectionKinds DEF BeginComplete, Begins, Skip
  <2> QED BY <2>1, <2>2
<1>8. CASE BeginFail(m)
  BY <1>1, <1>8 DEF BeginFail, Begins
<1>9. CASE BeginInterrupt(m)
  BY <1>1, <1>9, SkipPreserves, SectionKinds DEF BeginInterrupt, Begins, Skip
<1>10. CASE EndRun(m)
  BY <1>10, SavedPreserves, FailsPreserves, SectionKinds DEF EndRun, Settles
<1> QED BY <1>2, <1>3, <1>4, <1>5, <1>6, <1>7, <1>8, <1>9, <1>10 DEF Deliver

\* Permissions, steering and stops.
LEMMA ControlPreserves ==
  ASSUME IInv, CancelInv, NEW m \in Messages, Control(m)
  PROVE  IInv'
<1> USE DEF process, runs, lock
<1>1. ASSUME NEW s \in {"running", "needs_input", "cancelled", "error"}
      PROVE  /\ WithStatus(state, m, s) \in AnyDocument
             /\ SameReplies(WithStatus(state, m, s), state)
             /\ Replied(WithStatus(state, m, s))
  <2>1. s \in Statuses /\ s # "complete"
    BY DEF Statuses, Final
  <2> QED BY <2>1, StatusEdit DEF IInv
<1>2. ASSUME NEW d \in AnyDocument, SameReplies(d, state), Replied(d),
             NEW p \in {"pending", "resolved"}
      PROVE  LET e == [d EXCEPT !.permission[m] = p]
             IN  e \in AnyDocument /\ SameReplies(e, state) /\ Replied(e)
  BY <1>2 DEF AnyDocument, SameReplies, Replied
<1>3. CASE BeginAsk(m)
  <2>1. CASE m \notin terminal /\ Active(m) /\ Current(m)
    BY <1>1, <1>2, <1>3, <2>1, EditPreserves, SectionKinds DEF BeginAsk, Begins
  <2>2. CASE ~(m \notin terminal /\ Active(m) /\ Current(m))
    BY <1>3, <2>2, SkipPreserves, SectionKinds DEF BeginAsk, Begins, Skip
  <2> QED BY <2>1, <2>2
<1>4. CASE EndAsk(m)
  BY <1>4, SavedPreserves, FailsPreserves, SectionKinds DEF EndAsk, Settles
<1>5. CASE BeginAnswer(m)
  <2>1. CASE state.permission[m] = "pending" /\ m \in resolvers
    BY <1>1, <1>2, <1>5, <2>1, EditPreserves, SectionKinds DEF BeginAnswer, Begins
  <2>2. CASE ~(state.permission[m] = "pending" /\ m \in resolvers)
    BY <1>5, <2>2, SkipPreserves, SectionKinds DEF BeginAnswer, Begins, Skip
  <2> QED BY <2>1, <2>2
<1>6. CASE EndAnswer(m)
  BY <1>6, SavedPreserves, FailsPreserves, SectionKinds DEF EndAnswer, Settles
<1>7. CASE BeginSteer(m)
  BY <1>1, <1>7, EditPreserves, SkipPreserves, SectionKinds DEF BeginSteer, Begins, Skip
<1>8. CASE EndSteer(m)
  BY <1>8, SavedPreserves, FailsPreserves, SectionKinds DEF EndSteer, Settles
<1>9. CASE Cancelled(m)
  <2>1. cancelling[m] \in {"stop", "cancel"}
    BY <1>9 DEF CancelInv, Cancelled
  <2> QED BY <1>9, <2>1, QuietPreserves, SectionKinds DEF Cancelled, Enqueue
<1>10. CASE BeginOverwrite(m)
  BY <1>1, <1>10, EditPreserves, SectionKinds DEF BeginOverwrite, Begins
<1>11. CASE EndOverwrite(m)
  BY <1>11, SavedPreserves, FailsPreserves, SectionKinds DEF EndOverwrite, Settles
<1> QED BY <1>3, <1>4, <1>5, <1>6, <1>7, <1>8, <1>9, <1>10, <1>11 DEF Control

\* What people and Agents ask for; a send is born in the generation it finds.
LEMMA UserPreserves ==
  ASSUME IInv, NEW m \in Messages, User(m) \/ Agent(m)
  PROVE  IInv'
<1> USE DEF process, runs, lock
<1>1. CASE Prepare(m)
  <2>1. /\ host = "up" /\ bornIn' = [bornIn EXCEPT ![m] = state.generation]
        /\ UNCHANGED <<state, disk, previous, saving, host>>
        /\ queue' = Append(queue, Section("accept", m)) /\ Section("accept", m) \in Sections
    BY <1>1, SectionKinds DEF Prepare, Enqueue
  <2>2. state.generation \in Nat
    BY DEF IInv, AnyDocument
  <2>3. /\ queue' \in Seq(Sections) /\ queue' # <<>>
        /\ queue # <<>> => Head(queue') = Head(queue)
    BY <2>1 DEF IInv
  <2> QED BY <2>1, <2>2, <2>3 DEF IInv, LockInv, SameReplies, Replied, AnyDocument
<1>2. CASE Answer(m) \/ Stop(m) \/ Steer(m) \/ Ask(m)
  BY <1>2, QuietPreserves, SectionKinds DEF Answer, Stop, Steer, Ask, Enqueue
<1>3. CASE TurnEnds(m)
  <2>1. \A kind \in {"complete", "fail"} : Ending(m, kind)[1] \in Sections
    BY SectionKinds DEF Ending
  <2> QED BY <1>3, <2>1, QuietPreserves DEF TurnEnds, Enqueue
<1> QED BY <1>1, <1>2, <1>3 DEF User, Agent

\* /new, close(), death and start-up.
LEMMA HostingPreserves ==
  ASSUME IInv, Hosting \/ AskReset \/ AskClose \/ Crash
  PROVE  IInv'
<1> USE DEF process, runs, lock
<1>1. CASE BeginReset
  <2> DEFINE d == [SettleOpen(state) EXCEPT !.generation = @ + 1]
  <2>1. d \in AnyDocument /\ Replied(d) /\ d.replied = state.replied
    BY SettleEdit, ResetEdit DEF IInv, SameReplies
  <2>2. /\ host = "up" /\ ~saving
        /\ state' = d /\ previous' = state /\ disk' = disk /\ saving' = TRUE
        /\ queue # <<>> /\ Head(queue) # Close /\ queue' = queue
        /\ bornIn' = bornIn /\ host' = host
    BY SectionKinds, <1>1 DEF BeginReset, Begins, Edit
  <2> HIDE DEF d
  <2> QED BY <2>1, <2>2 DEF IInv, LockInv, SameReplies, Replied
<1>2. CASE EndReset
  BY <1>2, SavedPreserves, FailsPreserves, SectionKinds DEF EndReset, Settles
<1>3. CASE BeginClose
  <2>1. /\ InterruptPermissions(state) \in AnyDocument
        /\ SameReplies(InterruptPermissions(state), state)
        /\ Replied(InterruptPermissions(state))
    BY DEF IInv, InterruptPermissions, AnyDocument, SameReplies, Replied
  <2> QED BY <1>3, <2>1, EditPreserves, SectionKinds DEF BeginClose, Begins
<1>4. CASE EndClose
  <2>1. CASE Saved(<<>>)
    BY <1>4, <2>1, SavedPreserves, SectionKinds DEF EndClose, Settles
  <2>2. CASE ~Saved(<<>>)
    <3>1. /\ host = "up" /\ saving /\ Head(queue) = Close
          /\ saving' = FALSE /\ queue' = Tail(queue)
          /\ previous' = state /\ UNCHANGED <<state, disk, bornIn, host>>
      BY <1>4, <2>2 DEF EndClose, Settles
    <3>2. queue' \in Seq(Sections)
      BY <3>1 DEF IInv
    <3>3. SameReplies(state, disk)
      BY <3>1 DEF IInv, LockInv
    <3> QED BY <3>1, <3>2, <3>3 DEF IInv, LockInv, SameReplies, Replied
  <2> QED BY <2>1, <2>2
<1>5. CASE CloseIdle
  BY <1>5, QuietPreserves, SectionKinds DEF CloseIdle, Enqueue
<1>6. CASE BeginShutdown
  BY <1>6, SettleEdit, EditPreserves, SectionKinds DEF BeginShutdown, Begins, IInv
<1>7. CASE EndShutdown
  BY <1>7, ExitPreserves DEF EndShutdown
<1>8. CASE Crash
  BY <1>8, ExitPreserves DEF Crash
<1>9. CASE Restart
  <2>1. /\ InterruptPermissions(disk) \in AnyDocument /\ Replied(InterruptPermissions(disk))
    BY DEF IInv, InterruptPermissions, AnyDocument, Replied
  <2>2. state' \in AnyDocument /\ Replied(state') /\ disk' = state' /\ previous' = state'
    BY <1>9, <2>1, SettleEdit DEF Restart
  <2> QED BY <1>9, <2>2 DEF Restart, IInv, LockInv, SameReplies, Replied
<1>10. CASE AskReset \/ AskClose
  BY <1>10, QuietPreserves, SectionKinds DEF AskReset, AskClose, Enqueue
<1> QED BY <1>1, <1>2, <1>3, <1>4, <1>5, <1>6, <1>7, <1>8, <1>9, <1>10 DEF Hosting

\* A run is cancelled for a stop or for another message.
LEMMA CancelPreserves == CancelInv /\ [Next]_vars => CancelInv'
<1> SUFFICES ASSUME CancelInv, [Next]_vars
             PROVE  CancelInv'
    OBVIOUS
<1> USE DEF CancelInv, vars, runs, Next
<1>1. ASSUME NEW m \in Messages, Deliver(m) \/ User(m) \/ Agent(m)
      PROVE  CancelInv'
  BY <1>1 DEF Deliver, User, Agent, Prepare, BeginAccept, EndAccept, Launch, BeginStart,
      EndStart, BeginComplete, BeginFail, BeginInterrupt, EndRun, Answer, Stop, Steer, Ask,
      TurnEnds
<1>2. ASSUME NEW m \in Messages, Control(m)
      PROVE  CancelInv'
  BY <1>2 DEF Control, BeginAsk, EndAsk, BeginAnswer, EndAnswer, BeginSteer, EndSteer,
      Cancelled, BeginOverwrite, EndOverwrite
<1>3. CASE AskReset \/ AskClose \/ Hosting \/ Crash
  BY <1>3 DEF AskReset, AskClose, Hosting, BeginReset, EndReset, BeginClose, EndClose,
      CloseIdle, BeginShutdown, EndShutdown, Restart, Crash, Exit
<1> QED BY <1>1, <1>2, <1>3

-----------------------------------------------------------------------------
(* The invariant, and what follows from it.                                *)

\* Nothing was sent yet.
LEMMA InitInv == Init => IInv /\ CancelInv
<1> SUFFICES ASSUME Init
             PROVE  IInv /\ CancelInv
    OBVIOUS
<1>1. bornIn \in [Messages -> Nat] /\ queue \in Seq(Sections) /\ CancelInv
  BY DEF Init, CancelInv
<1> QED BY <1>1, EmptyDocument DEF Init, IInv, LockInv, SameReplies

\* Every step keeps the invariant.
LEMMA NextPreserves == IInv /\ CancelInv /\ [Next]_vars => IInv'
<1> SUFFICES ASSUME IInv, CancelInv, [Next]_vars
             PROVE  IInv'
    OBVIOUS
<1>1. CASE UNCHANGED vars
  BY <1>1, QuietPreserves DEF vars, lock, runs, process
<1> QED BY <1>1, DeliverPreserves, ControlPreserves, UserPreserves, HostingPreserves
           DEF Next

\* Whoever holds the lock, replies and generation on disk are those the holder began
\* with, in every state a direct conversation reaches.
THEOREM Invariance == Spec => [](IInv /\ CancelInv)
<1>1. IInv /\ CancelInv /\ [Next]_vars => (IInv /\ CancelInv)'
  BY NextPreserves, CancelPreserves
<1> QED BY InitInv, <1>1, PTL DEF Spec

\* A message is complete only together with its reply, in memory and on disk.
THEOREM CompleteTheorem == Spec => []CompleteHasReply
<1>1. IInv => CompleteHasReply
  BY DEF IInv, CompleteHasReply, Replied
<1> QED BY Invariance, <1>1, PTL

\* What a step may write to the disk.
LEMMA DiskSteps ==
  ASSUME IInv, [Next]_vars
  PROVE  \/ disk' = disk
         \/ host = "up" /\ saving /\ disk' = state
         \/ disk'.replied = disk.replied
<1> USE DEF lock, Settles, Saved, Fails, Edit, Skip, Enqueue
<1>1. ASSUME NEW m \in Messages, Deliver(m) \/ User(m) \/ Agent(m)
      PROVE  disk' = disk \/ (host = "up" /\ saving /\ disk' = state)
  BY <1>1 DEF Deliver, User, Agent, Prepare, BeginAccept, EndAccept, Launch, BeginStart,
      EndStart, BeginComplete, BeginFail, BeginInterrupt, EndRun, Answer, Stop, Steer, Ask,
      TurnEnds
<1>2. ASSUME NEW m \in Messages, Control(m)
      PROVE  disk' = disk \/ (host = "up" /\ saving /\ disk' = state)
  BY <1>2 DEF Control, BeginAsk, EndAsk, BeginAnswer, EndAnswer, BeginSteer, EndSteer,
      Cancelled, BeginOverwrite, EndOverwrite
<1>3. CASE AskReset \/ AskClose \/ (Hosting /\ ~Restart) \/ Crash
  BY <1>3 DEF AskReset, AskClose, Hosting, BeginReset, EndReset, BeginClose, EndClose,
      CloseIdle, BeginShutdown, EndShutdown, Crash, Exit
<1>4. CASE Restart
  <2>1. disk \in AnyDocument /\ Replied(disk)
    BY DEF IInv
  <2>2. /\ InterruptPermissions(disk) \in AnyDocument /\ Replied(InterruptPermissions(disk))
        /\ InterruptPermissions(disk).replied = disk.replied
    BY <2>1 DEF InterruptPermissions, AnyDocument, Replied
  <2>3. disk'.replied = InterruptPermissions(disk).replied
    BY <1>4, <2>2, SettleEdit DEF Restart, SameReplies
  <2> QED BY <2>2, <2>3
<1>5. CASE UNCHANGED vars
  BY <1>5 DEF vars
<1> QED BY <1>1, <1>2, <1>3, <1>4, <1>5 DEF Next

\* Once /new is saved, no message of an earlier generation gets a reply, whichever of
\* accept, start, completion, stop, steering, permission, close() and death interleave.
THEOREM BoundaryTheorem == Spec => BoundaryHolds
<1>1. ASSUME IInv, [Next]_vars, NEW m \in Messages, bornIn[m] < disk.generation,
             m \notin disk.replied
      PROVE  m \notin disk'.replied
  <2>1. CASE host = "up" /\ saving /\ disk' = state
    <3>1. m \in state.replied => bornIn[m] = disk.generation
      BY <1>1, <2>1 DEF IInv, LockInv
    <3>2. bornIn[m] \in Nat
      BY <1>1 DEF IInv
    <3> QED BY <1>1, <2>1, <3>1, <3>2
  <2> QED BY <1>1, <2>1, DiskSteps
<1>2. IInv /\ [Next]_vars =>
        [\A m \in Messages : bornIn[m] < disk.generation /\ m \notin disk.replied
             => m \notin disk'.replied]_vars
  BY <1>1
<1> QED BY Invariance, <1>2, PTL DEF Spec, BoundaryHolds


-----------------------------------------------------------------------------
(* The lock's queue: which sections stand in it.                           *)

\* The sections of the run of a message; it waits for one of them at a time.
RunKinds == {"accept", "start", "complete", "fail", "interrupt"}

\* An earlier section that keeps a later one out of the queue: a run waits for one
\* section at a time, a run asks once, one /new waits, and a run is steered only after
\* its start was queued.
Excludes(s, t) ==
    \/ s = Reset /\ t = Reset
    \/ \E m \in Messages :
         \/ \E k, l \in RunKinds : s = Section(k, m) /\ t = Section(l, m)
         \/ s = Section("ask", m) /\ t = Section("ask", m)
         \/ s = Section("steer", m) /\ t = Section("start", m)

\* A queue in which no section keeps a later one out, and what stands in a queue.
Ordered(q) == \A i, j \in 1..Len(q) : i < j => ~Excludes(q[i], q[j])
Members(q) == {q[i] : i \in 1..Len(q)}

\* Sections of different kinds or messages differ.
LEMMA SectionsApart ==
  /\ \A k, l \in Kinds, m, n \in Messages :
       Section(k, m) = Section(l, n) <=> k = l /\ m = n
  /\ \A k \in Kinds, m \in Messages :
       Section(k, m) # Reset /\ Section(k, m) # Close /\ Section(k, m) # Shutdown
  /\ Reset # Close /\ Reset # Shutdown /\ Close # Shutdown
<1>1. \A k, l \in Kinds, m, n \in Messages :
       Section(k, m) = Section(l, n) => k = l /\ m = n
  <2>1. \A k \in Kinds, m \in Messages : Section(k, m).kind = k /\ Section(k, m).message = m
    BY DEF Section
  <2> QED BY <2>1
<1>2. \A k \in Kinds, m \in Messages : Section(k, m).kind \in Kinds
  BY DEF Section
<1>3. Reset.kind \notin Kinds /\ Close.kind \notin Kinds /\ Shutdown.kind \notin Kinds
  BY DEF Reset, Close, Shutdown, Kinds
<1>4. Reset.kind # Close.kind /\ Reset.kind # Shutdown.kind /\ Close.kind # Shutdown.kind
  BY DEF Reset, Close, Shutdown
<1> QED BY <1>1, <1>2, <1>3, <1>4

\* What a queue holds when one more section asks for the lock,
LEMMA AppendQueue ==
  ASSUME NEW q \in Seq(Sections), NEW s \in Sections
  PROVE  LET r == Append(q, s)
         IN  /\ r \in Seq(Sections) /\ r # <<>>
             /\ Members(r) = Members(q) \cup {s}
             /\ q # <<>> => /\ Head(r) = Head(q)
                            /\ Members(Tail(r)) = Members(Tail(q)) \cup {s}
             /\ Ordered(q) /\ (\A t \in Members(q) : ~Excludes(t, s)) => Ordered(r)
<1> DEFINE r == Append(q, s)
<1>1. /\ r \in Seq(Sections) /\ r # <<>> /\ Len(r) = Len(q) + 1
      /\ \A i \in 1..Len(q) : r[i] = q[i]
      /\ r[Len(q) + 1] = s
  OBVIOUS
<1>2. Members(r) = Members(q) \cup {s}
  BY <1>1 DEF Members
<1>3. ASSUME q # <<>>
      PROVE  Head(r) = Head(q) /\ Members(Tail(r)) = Members(Tail(q)) \cup {s}
  <2>1. Head(r) = Head(q)
    BY <1>1, <1>3
  <2>2. /\ Len(Tail(q)) = Len(q) - 1 /\ Len(Tail(r)) = Len(q)
        /\ \A i \in 1..Len(q) - 1 : Tail(q)[i] = q[i + 1]
        /\ \A i \in 1..Len(q) : Tail(r)[i] = r[i + 1]
    BY <1>1, <1>3
  <2>3. \A i \in 1..Len(q) - 1 : Tail(r)[i] = Tail(q)[i]
    BY <1>1, <2>2
  <2>4. Tail(r)[Len(q)] = s
    BY <1>1, <1>3, <2>2
  <2>5. Len(q) \in Nat /\ Len(q) >= 1
    BY <1>3
  <2>6. ASSUME NEW n \in Nat, n >= 1, NEW a, NEW b, Len(a) = n - 1, Len(b) = n, b[n] = s,
               \A i \in 1..n - 1 : b[i] = a[i]
        PROVE  Members(b) = Members(a) \cup {s}
    <3>1. \A i \in 1..n : i = n \/ i \in 1..n - 1
      BY <2>6
    <3>2. n \in 1..n /\ \A i \in 1..n - 1 : i \in 1..n
      BY <2>6
    <3> QED BY <2>6, <3>1, <3>2 DEF Members
  <2> HIDE DEF r
  <2> QED BY <2>1, <2>2, <2>3, <2>4, <2>5, <2>6
<1>4. ASSUME Ordered(q), \A t \in Members(q) : ~Excludes(t, s)
      PROVE  Ordered(r)
  <2>1. \A i \in 1..Len(q) : q[i] \in Members(q)
    BY DEF Members
  <2> HIDE DEF r
  <2> QED BY <1>1, <1>4, <2>1 DEF Ordered
<1> QED BY <1>1, <1>2, <1>3, <1>4

\* and when the holder leaves.
LEMMA TailQueue ==
  ASSUME NEW q \in Seq(Sections), q # <<>>
  PROVE  /\ Tail(q) \in Seq(Sections)
         /\ Head(q) \in Sections
         /\ Members(q) = {Head(q)} \cup Members(Tail(q))
         /\ Ordered(q) => /\ Ordered(Tail(q))
                          /\ \A t \in Members(Tail(q)) : ~Excludes(Head(q), t)
         /\ Tail(q) \o <<>> = Tail(q)
         /\ \A s \in Sections : Tail(q) \o <<s>> = Append(Tail(q), s)
<1> DEFINE r == Tail(q)
<1>1. /\ r \in Seq(Sections) /\ Len(q) >= 1 /\ Len(r) = Len(q) - 1
      /\ \A i \in 1..Len(q) - 1 : r[i] = q[i + 1]
      /\ Head(q) = q[1] /\ Head(q) \in Sections
  OBVIOUS
<1>2. Members(q) = {Head(q)} \cup Members(r)
  <2>1. \A i \in 1..Len(q) : i = 1 \/ (i - 1 \in 1..Len(r) /\ q[i] = r[i - 1])
    BY <1>1
  <2>2. \A i \in 1..Len(r) : i + 1 \in 1..Len(q) /\ r[i] = q[i + 1]
    BY <1>1
  <2> HIDE DEF r
  <2> QED BY <1>1, <2>1, <2>2 DEF Members
<1>3. ASSUME Ordered(q)
      PROVE  Ordered(r) /\ \A t \in Members(r) : ~Excludes(Head(q), t)
  <2> HIDE DEF r
  <2>1. \A i \in 1..Len(r) : i + 1 \in 1..Len(q) /\ r[i] = q[i + 1]
    BY <1>1
  <2>2. \A i, j \in 1..Len(r) : i < j => i + 1 < j + 1
    OBVIOUS
  <2>3. Ordered(r)
    BY <1>3, <2>1, <2>2 DEF Ordered
  <2>4. ASSUME NEW i \in 1..Len(r)
        PROVE  ~Excludes(Head(q), r[i])
    <3>1. 1 < i + 1 /\ 1 \in 1..Len(q) /\ i + 1 \in 1..Len(q)
      BY <1>1, <2>1
    <3> QED BY <1>1, <1>3, <2>1, <3>1 DEF Ordered
  <2> QED BY <2>3, <2>4 DEF Members
<1>4. r \o <<>> = r /\ \A s \in Sections : r \o <<s>> = Append(r, s)
  BY <1>1
<1> QED BY <1>1, <1>2, <1>3, <1>4

\* What waits for the lock or holds it.
Queued == Members(queue)
Waits  == Members(IF saving THEN Tail(queue) ELSE queue)

\* The same of queue itself: a section asks,
LEMMA EnqueueSets ==
  ASSUME queue \in Seq(Sections), saving \in BOOLEAN, saving => queue # <<>>, Ordered(queue),
         NEW s \in Sections, Enqueue(s), \A t \in Queued : ~Excludes(t, s)
  PROVE  /\ queue' \in Seq(Sections) /\ Ordered(queue') /\ queue' # <<>>
         /\ Queued' = Queued \cup {s} /\ Waits' = Waits \cup {s}
         /\ saving => Head(queue') = Head(queue)
<1>1. queue' = Append(queue, s) /\ saving' = saving
  BY DEF Enqueue
<1> QED BY <1>1, AppendQueue DEF Queued, Waits

\* the holder edits,
LEMMA EditSets ==
  ASSUME queue \in Seq(Sections), queue # <<>>, Ordered(queue), ~saving,
         queue' = queue, saving'
  PROVE  /\ Queued' = Queued /\ Waits = Queued
         /\ Queued = {Head(queue)} \cup Waits'
         /\ \A t \in Waits' : ~Excludes(Head(queue), t)
BY TailQueue DEF Queued, Waits

\* and the holder leaves, perhaps to ask again.
LEMMA LeaveSets ==
  ASSUME queue \in Seq(Sections), queue # <<>>, Ordered(queue),
         NEW next, queue' = Tail(queue) \o next, ~saving',
         \/ next = <<>>
         \/ \E s \in Sections : /\ next = <<s>>
                                /\ \A t \in Members(Tail(queue)) : ~Excludes(t, s)
  PROVE  /\ queue' \in Seq(Sections) /\ Ordered(queue')
         /\ Queued = {Head(queue)} \cup Members(Tail(queue))
         /\ \A t \in Members(Tail(queue)) : ~Excludes(Head(queue), t)
         /\ saving => Waits = Members(Tail(queue))
         /\ ~saving => Waits = Queued
         /\ Waits' = Queued'
         /\ next = <<>> => Queued' = Members(Tail(queue))
         /\ \A s : next = <<s>> => Queued' = Members(Tail(queue)) \cup {s}
<1>1. /\ Tail(queue) \in Seq(Sections) /\ Ordered(Tail(queue))
      /\ Queued = {Head(queue)} \cup Members(Tail(queue))
      /\ \A t \in Members(Tail(queue)) : ~Excludes(Head(queue), t)
  BY TailQueue DEF Queued
<1>2. Waits' = Queued' /\ (saving => Waits = Members(Tail(queue))) /\ (~saving => Waits = Queued)
  BY DEF Waits, Queued
<1>3. CASE next = <<>>
  <2>1. queue' = Tail(queue)
    BY <1>3, TailQueue
  <2>2. \A s : next # <<s>>
    BY <1>3
  <2> QED BY <1>1, <1>2, <1>3, <2>1, <2>2 DEF Queued
<1>4. ASSUME NEW s \in Sections, next = <<s>>,
             \A t \in Members(Tail(queue)) : ~Excludes(t, s)
      PROVE  /\ queue' \in Seq(Sections) /\ Ordered(queue') /\ next # <<>>
             /\ \A t : next = <<t>> => t = s
             /\ Queued' = Members(Tail(queue)) \cup {s}
  <2>1. queue' = Append(Tail(queue), s)
    BY <1>4, TailQueue
  <2>2. next # <<>> /\ \A t : next = <<t>> => t = s
    BY <1>4
  <2> QED BY <1>1, <1>4, <2>1, <2>2, AppendQueue DEF Queued
<1> QED BY <1>1, <1>2, <1>3, <1>4

\* A section that nothing in the queue keeps out.
LEMMA NotExcluded ==
  ASSUME NEW Q \in SUBSET Sections, NEW m \in Messages
  PROVE  /\ (\A k \in RunKinds : Section(k, m) \notin Q) =>
              /\ \A k \in RunKinds \ {"start"} : \A t \in Q : ~Excludes(t, Section(k, m))
              /\ Section("steer", m) \notin Q => \A t \in Q : ~Excludes(t, Section("start", m))
         /\ Section("ask", m) \notin Q => \A t \in Q : ~Excludes(t, Section("ask", m))
         /\ \A k \in {"stop", "steer", "cancel", "answer"} : \A t \in Q : ~Excludes(t, Section(k, m))
         /\ Reset \notin Q => \A t \in Q : ~Excludes(t, Reset)
         /\ \A t \in Q : ~Excludes(t, Close) /\ ~Excludes(t, Shutdown)
<1>1. /\ RunKinds \subseteq Kinds /\ {"stop", "steer", "cancel", "answer", "ask"} \subseteq Kinds
      /\ "start" \in RunKinds
      /\ {"stop", "steer", "cancel", "answer"} \cap (RunKinds \cup {"ask", "start"}) = {}
      /\ "ask" \notin RunKinds
  BY DEF RunKinds, Kinds
<1> QED BY <1>1, SectionsApart DEF Excludes

\* What a section keeps out of the rest of the queue.
LEMMA ExcludedByHead ==
  ASSUME NEW Q \in SUBSET Sections, NEW m \in Messages
  PROVE  /\ \A k \in RunKinds : (\A t \in Q : ~Excludes(Section(k, m), t))
                => \A l \in RunKinds : Section(l, m) \notin Q
         /\ (\A t \in Q : ~Excludes(Section("ask", m), t)) => Section("ask", m) \notin Q
         /\ (\A t \in Q : ~Excludes(Section("steer", m), t)) => Section("start", m) \notin Q
         /\ (\A t \in Q : ~Excludes(Reset, t)) => Reset \notin Q
BY DEF Excludes

-----------------------------------------------------------------------------
(* Where a run stands while a section of it waits for the lock.            *)

\* The run of a message has started.
Launched(m) == phase[m] \notin {"none", "prepared", "waiting"}

\* Where the run of a message must be for a section of it to wait for the lock.
Placed(m) ==
    /\ Section("accept", m) \in Queued => phase[m] = "prepared"
    /\ Section("start", m) \in Queued => phase[m] = "starting"
    /\ Section("complete", m) \in Queued => phase[m] = "recording"
    /\ Section("fail", m) \in Queued => phase[m] = "recording"
    /\ Section("interrupt", m) \in Queued => phase[m] \in {"starting", "recording"}
    /\ Section("ask", m) \in Queued => m \in asked
    /\ \A kind \in Kinds \ RunKinds : Section(kind, m) \in Queued => Launched(m)
    /\ cancelling[m] # "no" => Launched(m)
    /\ m \in asked \cup terminal => Launched(m)
    /\ m \in terminal => Section("start", m) \notin Queued

PlaceInv ==
    /\ Ordered(queue)
    /\ \A m \in Messages : Placed(m)
    /\ Shutdown \in Queued => closing

\* A permission the document shows was asked for.
AskedInv ==
    \A m \in Messages \ asked : \A d \in {state, disk, previous} : d.permission[m] = "none"

\* The queue is one of sections.
LEMMA QueueTyped ==
  ASSUME TypeOK, PlaceInv
  PROVE  /\ queue \in Seq(Sections) /\ Queued \in SUBSET Sections /\ saving \in BOOLEAN
         /\ Members(Tail(queue)) \subseteq Queued
<1>1. queue \in Seq(Sections) /\ saving \in BOOLEAN
  BY DEF TypeOK, Sections
<1>2. \A i \in 1..Len(queue) : queue[i] \in Sections
  BY <1>1
<1>3. CASE queue = <<>>
  <2>1. Queued = {} /\ Tail(queue) = <<>>
    BY <1>3 DEF Queued, Members
  <2> QED BY <1>1, <1>2, <2>1 DEF Queued, Members
<1>4. CASE queue # <<>>
  BY <1>1, <1>2, <1>4, TailQueue DEF Queued, Members
<1> QED BY <1>3, <1>4

\* A run that ends asks for one section.
LEMMA EndingSection ==
  \A m \in Messages, k \in {"complete", "fail"} :
      \E l \in {k, "interrupt"} : Ending(m, k) = <<Section(l, m)>>
BY DEF Ending

\* The holder edits the document.
LEMMA PlaceEdit ==
  ASSUME TypeOK, PlaceInv, UNCHANGED <<queue, phase, asked, cancelling, terminal, closing>>
  PROVE  PlaceInv'
BY DEF PlaceInv, Placed, Launched, Queued

\* One more section of a message waits.
LEMMA PlaceAppend ==
  ASSUME TypeOK, PlaceInv, NEW m \in Messages, NEW k \in Kinds,
         Enqueue(Section(k, m)), \A t \in Queued : ~Excludes(t, Section(k, m)),
         UNCHANGED <<closing, terminal>>,
         \A n \in Messages \ {m} : /\ phase'[n] = phase[n] /\ cancelling'[n] = cancelling[n]
                                   /\ n \in asked' => n \in asked
                                   /\ n \in asked => n \in asked',
         Queued' = Queued \cup {Section(k, m)} => Placed(m)'
  PROVE  PlaceInv'
<1>1. Section(k, m) \in Sections
  BY SectionKinds
<1>2. /\ queue \in Seq(Sections) /\ saving \in BOOLEAN
      /\ saving => queue # <<>> /\ Ordered(queue)
  BY QueueTyped DEF TypeOK, PlaceInv
<1>3. Ordered(queue') /\ Queued' = Queued \cup {Section(k, m)}
  BY <1>1, <1>2, EnqueueSets DEF PlaceInv
<1>4. Placed(m)'
  BY <1>3
<1>5. ASSUME NEW n \in Messages \ {m}
      PROVE  Placed(n)'
  BY <1>3, <1>5, SectionsApart DEF PlaceInv, Placed, Launched, RunKinds, Kinds
<1>6. Shutdown \in Queued' => Shutdown \in Queued
  BY <1>3, SectionsApart
<1> QED BY <1>3, <1>4, <1>5, <1>6 DEF PlaceInv

\* The steps in which a section of a message asks for the lock keep PlaceInv,
LEMMA PlaceEnqueue ==
  ASSUME TypeOK, PlaceInv, AskedInv, NEW m \in Messages,
         Prepare(m) \/ Launch(m) \/ TurnEnds(m) \/ Ask(m) \/ Answer(m) \/ Steer(m)
           \/ Cancelled(m)
  PROVE  PlaceInv'
<1> USE DEF process, runs, lock
<1>0. /\ Queued \in SUBSET Sections
      /\ phase \in [Messages -> {"none", "prepared", "waiting", "starting", "working",
                               "asking", "recording", "over"}]
      /\ cancelling \in [Messages -> {"no", "stop", "cancel"}]
  BY QueueTyped DEF TypeOK
<1>p. Placed(m)
  BY DEF PlaceInv
<1>1. CASE Prepare(m)
  <2>1. \A k \in RunKinds : Section(k, m) \notin Queued
    BY <1>1, <1>p DEF Prepare, Placed, RunKinds
  <2>2. \A t \in Queued : ~Excludes(t, Section("accept", m))
    BY <1>0, <2>1, NotExcluded DEF RunKinds
  <2>3. ASSUME Queued' = Queued \cup {Section("accept", m)}
        PROVE  Placed(m)'
    BY <1>0, <1>1, <1>p, <2>1, <2>3, SectionsApart
       DEF Prepare, Goes, Placed, Launched, RunKinds, Kinds
  <2> QED BY <1>0, <1>1, <2>2, <2>3, PlaceAppend DEF Prepare, Goes, Kinds
<1>2. CASE Launch(m)
  <2>1. /\ \A k \in RunKinds : Section(k, m) \notin Queued
        /\ Section("steer", m) \notin Queued
    BY <1>2, <1>p DEF Launch, Placed, RunKinds, Kinds, Launched
  <2>2. PICK k \in {"start", "interrupt"} : Enqueue(Section(k, m))
    BY <1>2 DEF Launch
  <2>3. \A t \in Queued : ~Excludes(t, Section(k, m))
    BY <1>0, <2>1, NotExcluded DEF RunKinds, Kinds
  <2>4. ASSUME Queued' = Queued \cup {Section(k, m)}
        PROVE  Placed(m)'
    BY <1>0, <1>2, <1>p, <2>1, <2>4, SectionsApart
       DEF Launch, Goes, Placed, Launched, RunKinds, Kinds
  <2> QED BY <1>0, <1>2, <2>2, <2>3, <2>4, PlaceAppend DEF Launch, Goes, Kinds
<1>3. CASE TurnEnds(m)
  <2>1. \A k \in RunKinds : Section(k, m) \notin Queued
    BY <1>3, <1>p DEF TurnEnds, Placed, RunKinds
  <2>2. PICK k \in {"complete", "fail", "interrupt"} : Enqueue(Section(k, m))
    BY <1>3 DEF TurnEnds, Ending
  <2>3. \A t \in Queued : ~Excludes(t, Section(k, m))
    BY <1>0, <2>1, NotExcluded DEF RunKinds, Kinds
  <2>4. ASSUME Queued' = Queued \cup {Section(k, m)}
        PROVE  Placed(m)'
    BY <1>0, <1>3, <1>p, <2>1, <2>4, SectionsApart
       DEF TurnEnds, Goes, Placed, Launched, RunKinds, Kinds
  <2> QED BY <1>0, <1>3, <2>2, <2>3, <2>4, PlaceAppend DEF TurnEnds, Goes, Kinds
<1>4. CASE Ask(m)
  <2>1. \A t \in Queued : ~Excludes(t, Section("ask", m))
    BY <1>0, <1>4, <1>p, NotExcluded DEF Ask, Placed
  <2>2. ASSUME Queued' = Queued \cup {Section("ask", m)}
        PROVE  Placed(m)'
    BY <1>0, <1>4, <1>p, <2>2, SectionsApart
       DEF Ask, Goes, Placed, Launched, RunKinds, Kinds
  <2> QED BY <1>0, <1>4, <2>1, <2>2, PlaceAppend DEF Ask, Goes, Kinds
<1>5. ASSUME NEW k \in {"stop", "steer", "cancel", "answer"}, Enqueue(Section(k, m)),
             Launched(m), UNCHANGED <<phase, asked, terminal, closing>>,
             cancelling' \in {cancelling, [cancelling EXCEPT ![m] = "no"]}
      PROVE  PlaceInv'
  <2>1. \A t \in Queued : ~Excludes(t, Section(k, m))
    BY <1>0, NotExcluded
  <2>2. ASSUME Queued' = Queued \cup {Section(k, m)}
        PROVE  Placed(m)'
    BY <1>0, <1>5, <1>p, <2>2, SectionsApart DEF Placed, Launched, RunKinds, Kinds
  <2> QED BY <1>0, <1>5, <2>1, <2>2, PlaceAppend DEF Kinds
<1>6. CASE Answer(m)
  <2>1. Launched(m)
    BY <1>6, <1>p DEF Answer, AskedInv, Placed
  <2> QED BY <1>5, <1>6, <2>1 DEF Answer
<1>7. CASE Steer(m)
  BY <1>5, <1>7 DEF Steer, Launched
<1>8. CASE Cancelled(m)
  <2>1. Launched(m) /\ cancelling[m] \in {"stop", "cancel"}
    BY <1>0, <1>8, <1>p DEF Cancelled, Placed
  <2> QED BY <1>5, <1>8, <2>1 DEF Cancelled
<1> QED BY <1>1, <1>2, <1>3, <1>4, <1>6, <1>7, <1>8

\* What the runs of other messages are not touched by.
Apart(m) ==
    \A n \in Messages \ {m} :
        /\ phase'[n] = phase[n] /\ cancelling'[n] = cancelling[n]
        /\ n \in asked' <=> n \in asked
        /\ n \in terminal' <=> n \in terminal

\* The holder is done.
LEMMA PlaceLeave ==
  ASSUME TypeOK, PlaceInv, NEW m \in Messages, NEW k \in Kinds,
         queue # <<>>, Head(queue) = Section(k, m), queue' = Tail(queue) \o <<>>, ~saving',
         UNCHANGED closing, Apart(m),
         /\ Queued' \subseteq Queued
         /\ k \in RunKinds => \A l \in RunKinds : Section(l, m) \notin Queued'
         /\ k = "steer" => Section("start", m) \notin Queued'
         => Placed(m)'
  PROVE  PlaceInv'
<1>1. queue \in Seq(Sections) /\ Ordered(queue) /\ Queued \subseteq Sections
  BY QueueTyped DEF PlaceInv
<1>2. /\ Ordered(queue') /\ Queued' \subseteq Queued
      /\ \A t \in Queued' : ~Excludes(Section(k, m), t)
  BY <1>1, LeaveSets
<1>3. Placed(m)'
  BY <1>1, <1>2, ExcludedByHead
<1>4. ASSUME NEW n \in Messages \ {m}
      PROVE  Placed(n)'
  BY <1>2, <1>4 DEF PlaceInv, Placed, Launched, Apart
<1> QED BY <1>2, <1>3, <1>4 DEF PlaceInv

\* The holder is done and its run asks for the lock again.
LEMMA PlaceLeaveNext ==
  ASSUME TypeOK, PlaceInv, NEW m \in Messages, NEW k \in RunKinds,
         NEW l \in RunKinds \ {"start"},
         queue # <<>>, Head(queue) = Section(k, m),
         queue' = Tail(queue) \o <<Section(l, m)>>, ~saving',
         UNCHANGED <<closing, terminal>>, Apart(m),
         /\ \A s \in Queued' : s \in Queued \/ s = Section(l, m)
         /\ \A j \in RunKinds \ {l} : Section(j, m) \notin Queued'
         => Placed(m)'
  PROVE  PlaceInv'
<1>1. /\ queue \in Seq(Sections) /\ Ordered(queue) /\ Queued \subseteq Sections
      /\ Members(Tail(queue)) \subseteq Queued
      /\ k \in Kinds /\ l \in Kinds /\ Section(l, m) \in Sections
  BY QueueTyped, SectionKinds DEF PlaceInv, RunKinds, Kinds
<1>2. \A t \in Members(Tail(queue)) : ~Excludes(Section(k, m), t)
  BY <1>1, TailQueue
<1>3. \A j \in RunKinds : Section(j, m) \notin Members(Tail(queue))
  BY <1>1, <1>2, ExcludedByHead
<1>4. \A t \in Members(Tail(queue)) : ~Excludes(t, Section(l, m))
  BY <1>1, <1>3, NotExcluded
<1>5. Ordered(queue') /\ Queued' = Members(Tail(queue)) \cup {Section(l, m)}
  BY <1>1, <1>4, LeaveSets
<1>6. Placed(m)'
  BY <1>1, <1>3, <1>5, SectionsApart DEF RunKinds, Kinds
<1>7. ASSUME NEW n \in Messages \ {m}
      PROVE  Placed(n)'
  BY <1>1, <1>5, <1>7, SectionsApart DEF PlaceInv, Placed, Launched, Apart, RunKinds, Kinds
<1>8. Shutdown \in Queued' => Shutdown \in Queued
  BY <1>1, <1>5, SectionsApart
<1> QED BY <1>5, <1>6, <1>7, <1>8 DEF PlaceInv

\* so do the sections of its run,
LEMMA PlaceDeliver ==
  ASSUME TypeOK, PlaceInv, NEW m \in Messages,
         \/ BeginAccept(m) \/ EndAccept(m) \/ BeginStart(m) \/ EndStart(m)
         \/ BeginComplete(m) \/ BeginFail(m) \/ BeginInterrupt(m) \/ EndRun(m)
  PROVE  PlaceInv'
<1> USE DEF process, runs, lock, Begins, Settles
<1>0. /\ phase \in [Messages -> {"none", "prepared", "waiting", "starting", "working",
                               "asking", "recording", "over"}]
      /\ RunKinds \subseteq Kinds
      /\ saving => queue # <<>>
  BY DEF TypeOK, RunKinds, Kinds
<1>p. Placed(m)
  BY DEF PlaceInv
<1>1. ASSUME NEW k \in RunKinds, Head(queue) = Section(k, m), queue # <<>>,
             queue' = Tail(queue) \o <<>>, ~saving',
             \E to \in {"over", "working", "waiting"} : 
                Goes(m, to) /\ (to = "waiting" => k = "accept"),
             terminal' \in {terminal} \cup (IF k = "accept" THEN {} ELSE {terminal \cup {m}}),
             UNCHANGED <<cancelling, asked, closing>>
      PROVE  PlaceInv'
  <2>1. Section(k, m) \in Queued
    BY <1>0, <1>1, TailQueue, QueueTyped DEF Queued
  <2>2. ASSUME Queued' \subseteq Queued, \A l \in RunKinds : Section(l, m) \notin Queued'
        PROVE  Placed(m)'
    BY <1>0, <1>1, <1>p, <2>1, <2>2 DEF Goes, Placed, Launched, RunKinds
  <2>3. Apart(m)
    BY <1>0, <1>1 DEF Goes, Apart
  <2> QED BY <1>0, <1>1, <2>2, <2>3, PlaceLeave
<1>2. ASSUME NEW k \in {"start", "complete"}, NEW l \in {"fail", "interrupt"},
             Head(queue) = Section(k, m), queue # <<>>,
             queue' = Tail(queue) \o <<Section(l, m)>>, ~saving',
             phase' \in {phase, [phase EXCEPT ![m] = "recording"]},
             k = "start" => Goes(m, "recording"), k = "complete" => UNCHANGED phase,
             UNCHANGED <<cancelling, asked, terminal, closing>>
      PROVE  PlaceInv'
  <2>1. Section(k, m) \in Queued
    BY <1>0, <1>2, TailQueue, QueueTyped DEF Queued
  <2>2. ASSUME \A s \in Queued' : s \in Queued \/ s = Section(l, m),
               \A j \in RunKinds \ {l} : Section(j, m) \notin Queued'
        PROVE  Placed(m)'
    BY <1>0, <1>2, <1>p, <2>1, <2>2, SectionsApart
       DEF Goes, Placed, Launched, RunKinds, Kinds
  <2>3. Apart(m) /\ k \in RunKinds /\ l \in RunKinds \ {"start"}
    BY <1>0, <1>2 DEF Goes, Apart, RunKinds
  <2> QED BY <1>0, <1>2, <2>2, <2>3, PlaceLeaveNext
<1>3. CASE BeginAccept(m)
  BY <1>0, <1>1, <1>3, PlaceEdit DEF BeginAccept, Edit, Skip, RunKinds
<1>4. CASE EndAccept(m)
  BY <1>0, <1>1, <1>4 DEF EndAccept, Saved, Fails, RunKinds
<1>5. CASE BeginStart(m) \/ BeginFail(m)
  BY <1>0, <1>5, PlaceEdit DEF BeginStart, BeginFail, Edit
<1>6. CASE EndStart(m)
  <2>1. CASE Saved(<<>>) /\ Goes(m, "working")
    BY <1>0, <1>1, <1>6, <2>1 DEF EndStart, Saved, RunKinds
  <2>2. CASE Fails(Ending(m, "fail")) /\ Goes(m, "recording")
    <3>1. PICK l \in {"fail", "interrupt"} : Ending(m, "fail") = <<Section(l, m)>>
      BY DEF Ending
    <3> QED BY <1>0, <1>2, <1>6, <2>2, <3>1 DEF EndStart, Fails, Goes
  <2> QED BY <1>6, <2>1, <2>2 DEF EndStart
<1>7. CASE BeginComplete(m)
  BY <1>0, <1>2, <1>7, PlaceEdit DEF BeginComplete, Edit, Skip
<1>8. CASE BeginInterrupt(m)
  BY <1>0, <1>1, <1>8, PlaceEdit DEF BeginInterrupt, Edit, Skip, RunKinds
<1>9. CASE EndRun(m)
  BY <1>0, <1>1, <1>9 DEF EndRun, Saved, Fails, RunKinds
<1> QED BY <1>3, <1>4, <1>5, <1>6, <1>7, <1>8, <1>9

\* those of its permission, its steering and its stop,
LEMMA PlaceControl ==
  ASSUME TypeOK, PlaceInv, NEW m \in Messages,
         \/ BeginAsk(m) \/ EndAsk(m) \/ BeginAnswer(m) \/ EndAnswer(m)
         \/ BeginSteer(m) \/ EndSteer(m) \/ BeginOverwrite(m) \/ EndOverwrite(m) \/ Stop(m)
  PROVE  PlaceInv'
<1> USE DEF process, runs, lock, Begins, Settles
<1>0. /\ phase \in [Messages -> {"none", "prepared", "waiting", "starting", "working",
                               "asking", "recording", "over"}]
      /\ cancelling \in [Messages -> {"no", "stop", "cancel"}]
      /\ Kinds \ RunKinds = {"ask", "answer", "stop", "steer", "cancel"}
      /\ saving => queue # <<>>
  BY DEF TypeOK, RunKinds, Kinds
<1>p. Placed(m)
  BY DEF PlaceInv
<1>1. ASSUME NEW k \in Kinds \ RunKinds, Head(queue) = Section(k, m), queue # <<>>,
             queue' = Tail(queue) \o <<>>, ~saving',
             phase' = phase \/ Resume(m),
             terminal' = terminal \/ (k = "steer" /\ terminal' = terminal \cup {m}),
             cancelling' \in {cancelling, [cancelling EXCEPT ![m] = "cancel"]},
             UNCHANGED <<asked, closing>>
      PROVE  PlaceInv'
  <2>1. Section(k, m) \in Queued
    BY <1>0, <1>1, TailQueue, QueueTyped DEF Queued
  <2>2. Launched(m) /\ Launched(m)'
    BY <1>0, <1>1, <1>p, <2>1 DEF Placed, Launched, Resume, Goes
  <2>3. ASSUME Queued' \subseteq Queued,
               k = "steer" => Section("start", m) \notin Queued'
        PROVE  Placed(m)'
    <3>1. phase'[m] = phase[m] \/ phase[m] = "asking"
      BY <1>0, <1>1 DEF Resume, Goes
    <3>2. m \in terminal' => m \in terminal \/ Section("start", m) \notin Queued'
      BY <1>1, <2>3
    <3> QED BY <1>0, <1>1, <1>p, <2>2, <2>3, <3>1, <3>2 DEF Placed
  <2>4. Apart(m)
    BY <1>0, <1>1 DEF Goes, Resume, Apart
  <2> QED BY <1>0, <1>1, <2>3, <2>4, PlaceLeave
<1>2. CASE BeginAsk(m)
  BY <1>0, <1>1, <1>2, PlaceEdit DEF BeginAsk, Edit, Skip
<1>3. CASE EndAsk(m)
  BY <1>0, <1>1, <1>3 DEF EndAsk, Saved, Fails
<1>4. CASE BeginAnswer(m)
  BY <1>0, <1>1, <1>4, PlaceEdit DEF BeginAnswer, Edit, Skip
<1>5. CASE EndAnswer(m)
  BY <1>0, <1>1, <1>5 DEF EndAnswer, Saved, Fails
<1>6. CASE BeginSteer(m)
  BY <1>0, <1>1, <1>6, PlaceEdit DEF BeginSteer, Edit, Skip
<1>7. CASE EndSteer(m)
  BY <1>0, <1>1, <1>7 DEF EndSteer, Saved, Fails
<1>8. CASE BeginOverwrite(m)
  BY <1>0, <1>8, PlaceEdit DEF BeginOverwrite, Edit
<1>9. CASE EndOverwrite(m)
  BY <1>0, <1>1, <1>9 DEF EndOverwrite, Saved, Fails
<1>10. CASE Stop(m)
  BY <1>0, <1>p, <1>10 DEF Stop, Active, PlaceInv, Placed, Launched, Queued
<1> QED BY <1>2, <1>3, <1>4, <1>5, <1>6, <1>7, <1>8, <1>9, <1>10

\* and what is done to every run at once.
LEMMA PlaceHosting ==
  ASSUME TypeOK, PlaceInv, AskReset \/ AskClose \/ Hosting \/ Crash
  PROVE  PlaceInv'
<1> USE DEF process, runs, lock, Begins, Settles
<1>0. /\ queue \in Seq(Sections) /\ Queued \in SUBSET Sections /\ Ordered(queue)
      /\ saving \in BOOLEAN /\ (saving => queue # <<>>)
      /\ Reset \in Sections /\ Close \in Sections /\ Shutdown \in Sections
      /\ phase \in [Messages -> {"none", "prepared", "waiting", "starting", "working",
                               "asking", "recording", "over"}]
      /\ cancelling \in [Messages -> {"no", "stop", "cancel"}]
  BY QueueTyped, SectionKinds DEF TypeOK, PlaceInv
<1>1. ASSUME NEW s \in {Reset, Close, Shutdown}, Enqueue(s), s = Reset => Reset \notin Queued,
             UNCHANGED runs, closing => closing', s = Shutdown => closing'
      PROVE  PlaceInv'
  <2>1. \A t \in Queued : ~Excludes(t, s)
    BY <1>1, SectionsApart DEF Excludes, RunKinds, Kinds
  <2>2. Ordered(queue') /\ Queued' = Queued \cup {s}
    BY <1>0, <1>1, <2>1, EnqueueSets
  <2>3. \A m \in Messages, k \in Kinds : Section(k, m) \in Queued' => Section(k, m) \in Queued
    BY <1>1, <2>2, SectionsApart
  <2>4. \A m \in Messages : Placed(m)'
    BY <1>1, <2>3 DEF PlaceInv, Placed, Launched, RunKinds, Kinds
  <2> QED BY <1>1, <2>2, <2>4, SectionsApart DEF PlaceInv
<1>2. CASE AskReset
  <2>1. Reset \notin Queued
    BY <1>2 DEF AskReset, Queued, Members, Contains
  <2> QED BY <1>1, <1>2, <2>1, SectionsApart DEF AskReset
<1>3. CASE AskClose
  BY <1>1, <1>3, SectionsApart DEF AskClose
<1>4. CASE CloseIdle
  BY <1>1, <1>4, SectionsApart DEF CloseIdle
<1>5. CASE BeginReset \/ BeginClose \/ BeginShutdown
  BY <1>5, PlaceEdit DEF BeginReset, BeginClose, BeginShutdown, Edit
<1>6. CASE EndReset \/ EndClose
  <2>1. queue' = Tail(queue) \o <<>> /\ ~saving'
    <3>1. Tail(queue) = Tail(queue) \o <<>>
      BY <1>0, <1>6, TailQueue DEF EndReset, EndClose
    <3> QED BY <1>6, <3>1 DEF EndReset, EndClose, Saved, Fails
  <2>2. Ordered(queue') /\ Queued' \subseteq Queued
    BY <1>0, <1>6, <2>1, LeaveSets DEF EndReset, EndClose
  <2>3. /\ UNCHANGED <<cancelling, terminal, asked, closing>>
        /\ \A m \in Messages : /\ phase[m] \notin {"waiting", "asking"} => phase'[m] = phase[m]
                               /\ Launched(m) => Launched(m)'
    BY <1>0, <1>6 DEF EndReset, EndClose, Launched
  <2>4. \A m \in Messages : Placed(m)'
    BY <1>0, <2>2, <2>3 DEF PlaceInv, Placed
  <2> QED BY <2>2, <2>3, <2>4 DEF PlaceInv
<1>7. CASE EndShutdown \/ Crash
  <2>1. /\ queue' = <<>> /\ terminal' = {} /\ asked' = asked
        /\ cancelling' = [m \in Messages |-> "no"]
        /\ phase' = [m \in Messages |-> IF phase[m] = "none" THEN "none" ELSE "over"]
    BY <1>7 DEF EndShutdown, Crash, Exit
  <2>2. Ordered(queue') /\ Queued' = {}
    BY <2>1 DEF Ordered, Queued, Members
  <2> QED BY <1>0, <2>1, <2>2 DEF PlaceInv, Placed, Launched
<1>8. CASE Restart
  BY <1>8, PlaceEdit DEF Restart
<1> QED BY <1>2, <1>3, <1>4, <1>5, <1>6, <1>7, <1>8 DEF Hosting

\* Every step keeps every section in its place.
LEMMA PlaceNext ==
  ASSUME TypeOK, PlaceInv, AskedInv, [Next]_vars
  PROVE  PlaceInv'
<1>1. CASE UNCHANGED vars
  BY <1>1, PlaceEdit DEF vars, lock, runs, process
<1> QED BY <1>1, PlaceEnqueue, PlaceDeliver, PlaceControl, PlaceHosting
        DEF Next, Deliver, Control, User, Agent

-----------------------------------------------------------------------------
(* The type invariant and the bounds.                                      *)

\* What the bounds rest on.
BoundInv ==
    /\ Reset \in Waits => state.generation < MaxResets /\ previous.generation < MaxResets
    /\ closing => crashes < MaxCrashes
    /\ ~saving => previous = state
    /\ previous.generation <= state.generation

\* Nothing runs and nothing waits while no process is there.
DownInv ==
    host = "down" => queue = <<>> /\ \A m \in Messages : phase[m] \in {"none", "over"}

\* A document is a document of the invariant above with a bounded generation.
LEMMA DocumentsBounded ==
  /\ \A d \in Documents : d \in AnyDocument /\ d.generation \in 0..MaxResets
  /\ \A d \in AnyDocument : d.generation \in 0..MaxResets => d \in Documents
<1>1. 0..MaxResets \subseteq Nat
  BY BoundAssumption
<1> QED BY <1>1 DEF Documents, AnyDocument

\* The edits keep a document a document.
LEMMA EditsTyped ==
  ASSUME NEW d \in Documents
  PROVE  /\ \A m \in Messages, s \in Statuses :
              WithStatus(d, m, s) \in Documents /\ SameReplies(WithStatus(d, m, s), d)
         /\ SettleOpen(d) \in Documents /\ SettleOpen(d).generation = d.generation
         /\ SettleOpen(d).permission = d.permission
         /\ InterruptPermissions(d) \in Documents
         /\ InterruptPermissions(d).generation = d.generation
         /\ \A m \in Messages, p \in {"none", "pending", "resolved", "interrupted"} :
              [d EXCEPT !.permission[m] = p] \in Documents
         /\ \A m \in Messages : [d EXCEPT !.replied = @ \cup {m}] \in Documents
         /\ d.generation < MaxResets => [d EXCEPT !.generation = @ + 1] \in Documents
<1>1. \A m \in Messages, s \in Statuses :
              WithStatus(d, m, s) \in Documents /\ SameReplies(WithStatus(d, m, s), d)
  BY DEF Documents, WithStatus, SameReplies
<1>2. /\ SettleOpen(d) \in Documents /\ SettleOpen(d).generation = d.generation
      /\ SettleOpen(d).permission = d.permission
  BY DEF Documents, SettleOpen, Statuses, Final
<1>3. /\ InterruptPermissions(d) \in Documents
      /\ InterruptPermissions(d).generation = d.generation
  BY DEF Documents, InterruptPermissions
<1>4. \A m \in Messages, p \in {"none", "pending", "resolved", "interrupted"} :
              [d EXCEPT !.permission[m] = p] \in Documents
  BY DEF Documents
<1>5. \A m \in Messages : [d EXCEPT !.replied = @ \cup {m}] \in Documents
  BY DEF Documents
<1>6. d.generation < MaxResets => [d EXCEPT !.generation = @ + 1] \in Documents
  BY BoundAssumption DEF Documents
<1> QED BY <1>1, <1>2, <1>3, <1>4, <1>5, <1>6

\* What a step does to the documents, the lock and the failures, whichever section it is.
LockTyped ==
    /\ {state, disk, previous} \subseteq Documents
    /\ queue \in Seq(Sections)
    /\ saving \in BOOLEAN /\ (saving => queue # <<>>)
    /\ failures \in 0..MaxFailures

\* Every operation on the lock keeps them typed.
LEMMA LockOperationsTyped ==
  ASSUME LockTyped
  PROVE  /\ \A s \in Sections : Enqueue(s) /\ UNCHANGED failures => LockTyped'
         /\ \A d \in Documents : queue # <<>> /\ Edit(d) => LockTyped'
         /\ \A next \in Seq(Sections) : queue # <<>> /\ Skip(next) /\ ~saving => LockTyped'
         /\ \A next \in Seq(Sections) : queue # <<>> /\ Saved(next) => LockTyped'
         /\ \A next \in Seq(Sections) : queue # <<>> /\ Fails(next) => LockTyped'
<1>1. \A s \in Sections : Enqueue(s) /\ UNCHANGED failures => LockTyped'
  <2>1. \A s \in Sections : Append(queue, s) \in Seq(Sections) /\ Append(queue, s) # <<>>
    BY AppendQueue DEF LockTyped
  <2> QED BY <2>1 DEF LockTyped, Enqueue
<1>2. \A d \in Documents : queue # <<>> /\ Edit(d) => LockTyped'
  BY DEF LockTyped, Edit
<1>3. \A next \in Seq(Sections) : queue # <<>> => Tail(queue) \o next \in Seq(Sections)
  BY TailAndNext DEF LockTyped
<1>4. \A next \in Seq(Sections) : queue # <<>> /\ Skip(next) /\ ~saving => LockTyped'
  BY <1>3 DEF LockTyped, Skip
<1>5. \A next \in Seq(Sections) : queue # <<>> /\ Saved(next) => LockTyped'
  BY <1>3 DEF LockTyped, Saved
<1>6. \A next \in Seq(Sections) : queue # <<>> /\ Fails(next) => LockTyped'
  <2>1. failures < MaxFailures => failures + 1 \in 0..MaxFailures
    BY BoundAssumption DEF LockTyped
  <2> QED BY <1>3, <2>1 DEF LockTyped, Fails
<1> QED BY <1>1, <1>2, <1>4, <1>5, <1>6

\* The rest of the type invariant: the runs and the process.
RunsTyped ==
    /\ phase \in [Messages -> {"none", "prepared", "waiting", "starting", "working",
                               "asking", "recording", "over"}]
    /\ bornIn \in [Messages -> 0..MaxResets]
    /\ aborted \subseteq Messages /\ terminal \subseteq Messages
    /\ cancelling \in [Messages -> {"no", "stop", "cancel"}]
    /\ resolvers \subseteq Messages /\ asked \subseteq Messages
    /\ closing \in BOOLEAN
    /\ host \in {"up", "down"}
    /\ crashes \in 0..MaxCrashes

\* The type invariant is the two together.
LEMMA TypeParts == TypeOK <=> LockTyped /\ RunsTyped
BY DEF TypeOK, LockTyped, RunsTyped, Sections

\* The steps of one message keep it,
LEMMA TypeMessages ==
  ASSUME TypeOK, NEW m \in Messages, Deliver(m) \/ Control(m) \/ User(m) \/ Agent(m)
  PROVE  TypeOK'
<1> USE DEF process, runs, lock, Begins, Settles
<1>0. LockTyped /\ RunsTyped
  BY TypeParts
<1>1. /\ RunsTyped'
  <2>1. ASSUME Deliver(m)
        PROVE  RunsTyped'
    BY <1>0, <2>1
       DEF RunsTyped, Deliver, BeginAccept, EndAccept, Launch, BeginStart, EndStart,
           BeginComplete, BeginFail,
       BeginInterrupt, EndRun, Goes
  <2>2. ASSUME Control(m)
        PROVE  RunsTyped'
    BY <1>0, <2>2
       DEF RunsTyped, Control, BeginAsk, EndAsk, BeginAnswer, EndAnswer, BeginSteer,
           EndSteer,
      Cancelled, BeginOverwrite, EndOverwrite, Goes, Resume
  <2>3. ASSUME User(m) \/ Agent(m)
        PROVE  RunsTyped'
    <3>1. state.generation \in 0..MaxResets
      BY <1>0, DocumentsBounded DEF LockTyped
    <3> QED BY <1>0, <2>3, <3>1
               DEF RunsTyped, User, Agent, Prepare, Answer, Stop, Steer, Ask, TurnEnds, Goes
  <2> QED BY <2>1, <2>2, <2>3
<1>2. LockTyped'
  <2>0. /\ state \in Documents
        /\ <<>> \in Seq(Sections)
        /\ \A k \in Kinds : Section(k, m) \in Sections /\ <<Section(k, m)>> \in Seq(Sections)
        /\ \A k \in {"complete", "fail"} : Ending(m, k) \in Seq(Sections) /\ Ending(m, k)[1] \in Sections
        /\ saving => queue # <<>>
        /\ \A s \in Statuses : WithStatus(state, m, s) \in Documents
        /\ {"queued", "running", "needs_input", "complete", "cancelled", "failed", "error"} \subseteq Statuses
    BY <1>0, SectionKinds, EditsTyped DEF LockTyped, Ending, Kinds, Statuses, Final
  <2>1. CASE Deliver(m)
    <3>1. CASE BeginAccept(m) \/ BeginStart(m) \/ BeginFail(m) \/ BeginInterrupt(m)
      BY <1>0, <2>0, <3>1, LockOperationsTyped
         DEF BeginAccept, BeginStart, BeginFail, BeginInterrupt
    <3>2. CASE EndAccept(m) \/ EndStart(m) \/ EndRun(m)
      BY <1>0, <2>0, <3>2, LockOperationsTyped DEF EndAccept, EndStart, EndRun
    <3>3. CASE Launch(m)
      BY <1>0, <2>0, <3>3, LockOperationsTyped DEF Launch, Kinds
    <3>4. CASE BeginComplete(m)
      <4>1. [WithStatus(state, m, "complete") EXCEPT !.replied = @ \cup {m}] \in Documents
        BY <2>0, EditsTyped
      <4> QED BY <1>0, <2>0, <3>4, <4>1, LockOperationsTyped DEF BeginComplete, Kinds
    <3> QED BY <2>1, <3>1, <3>2, <3>3, <3>4 DEF Deliver
  <2>2. CASE Control(m)
    <3>1. \A s \in Statuses, p \in {"pending", "resolved"} :
             [WithStatus(state, m, s) EXCEPT !.permission[m] = p] \in Documents
      BY <2>0, EditsTyped
    <3>2. CASE BeginAsk(m) \/ BeginAnswer(m)
      BY <1>0, <2>0, <3>1, <3>2, LockOperationsTyped DEF BeginAsk, BeginAnswer
    <3>3. CASE EndAsk(m) \/ EndAnswer(m) \/ EndSteer(m) \/ EndOverwrite(m)
      BY <1>0, <2>0, <3>3, LockOperationsTyped DEF EndAsk, EndAnswer, EndSteer, EndOverwrite
    <3>4. CASE BeginSteer(m) \/ BeginOverwrite(m)
      BY <1>0, <2>0, <3>4, LockOperationsTyped DEF BeginSteer, BeginOverwrite
    <3>5. CASE Cancelled(m)
      <4>1. cancelling[m] \in Kinds
        BY <1>0, <3>5 DEF RunsTyped, Cancelled, Kinds
      <4> QED BY <1>0, <2>0, <3>5, <4>1, LockOperationsTyped DEF Cancelled
    <3> QED BY <2>2, <3>2, <3>3, <3>4, <3>5 DEF Control
  <2>3. CASE User(m) \/ Agent(m)
    <3>1. CASE Stop(m)
      BY <1>0, <3>1 DEF Stop, LockTyped
    <3>2. CASE ~Stop(m)
      BY <1>0, <2>0, <2>3, <3>2, LockOperationsTyped
         DEF User, Agent, Prepare, Answer, Steer, Ask, TurnEnds, Kinds
    <3> QED BY <3>1, <3>2
  <2> QED BY <2>1, <2>2, <2>3
<1> QED BY <1>1, <1>2 DEF TypeOK, LockTyped, RunsTyped, Sections

\* those of all runs,
LEMMA TypeHosting ==
  ASSUME TypeOK, BoundInv, PlaceInv, AskReset \/ AskClose \/ Hosting \/ Crash
  PROVE  TypeOK'
<1> USE DEF process, runs, lock, Begins, Settles
<1>0. LockTyped /\ RunsTyped
  BY TypeParts
<1>1. RunsTyped'
  <2>1. CASE EndShutdown \/ Crash
    <3>1. crashes < MaxCrashes
      <4>1. Shutdown \in Queued => closing
        BY DEF PlaceInv
      <4>2. EndShutdown => Shutdown \in Queued
        BY <1>0, TailQueue DEF EndShutdown, LockTyped, Queued
      <4> QED BY <2>1, <4>1, <4>2 DEF BoundInv, Crash
    <3>2. crashes + 1 \in 0..MaxCrashes
      BY <1>0, <3>1, BoundAssumption DEF RunsTyped
    <3> QED BY <1>0, <2>1, <3>2 DEF EndShutdown, Crash, Exit, RunsTyped
  <2>2. CASE EndReset \/ EndClose
    BY <1>0, <2>2 DEF EndReset, EndClose, RunsTyped
  <2>3. CASE AskReset \/ AskClose \/ BeginReset \/ BeginClose \/ CloseIdle \/ BeginShutdown \/ Restart
    BY <1>0, <2>3
       DEF AskReset, AskClose, BeginReset, BeginClose, CloseIdle, BeginShutdown, Restart,
           RunsTyped
  <2> QED BY <2>1, <2>2, <2>3 DEF Hosting
<1>2. LockTyped'
  <2>0. /\ state \in Documents /\ disk \in Documents
        /\ <<>> \in Seq(Sections)
        /\ Reset \in Sections /\ Close \in Sections /\ Shutdown \in Sections
        /\ saving => queue # <<>>
    BY <1>0, SectionKinds DEF LockTyped
  <2>1. CASE AskReset \/ AskClose \/ CloseIdle
    BY <1>0, <2>0, <2>1, LockOperationsTyped DEF AskReset, AskClose, CloseIdle
  <2>2. CASE BeginReset
    <3>1. state.generation < MaxResets
      BY <1>0, <2>2, TailQueue DEF BeginReset, BoundInv, Waits, LockTyped
    <3>2. [SettleOpen(state) EXCEPT !.generation = @ + 1] \in Documents
      BY <2>0, <3>1, EditsTyped
    <3> QED BY <1>0, <2>0, <2>2, <3>2, LockOperationsTyped DEF BeginReset
  <2>3. CASE BeginClose \/ BeginShutdown
    BY <1>0, <2>0, <2>3, EditsTyped, LockOperationsTyped DEF BeginClose, BeginShutdown
  <2>4. CASE EndReset
    BY <1>0, <2>0, <2>4, LockOperationsTyped DEF EndReset
  <2>5. CASE EndClose
    <3>1. CASE Saved(<<>>)
      BY <1>0, <2>0, <2>5, <3>1, LockOperationsTyped DEF EndClose
    <3>2. CASE ~Saved(<<>>)
      <4>1. Tail(queue) \in Seq(Sections)
        BY <1>0, <2>5, TailQueue DEF EndClose, LockTyped
      <4>2. failures' \in 0..MaxFailures
        BY <1>0, <2>5, <3>2, BoundAssumption DEF EndClose, LockTyped
      <4>3. UNCHANGED <<state, disk>> /\ previous' = state /\ saving' = FALSE /\ queue' = Tail(queue)
        BY <2>5, <3>2 DEF EndClose
      <4> QED BY <1>0, <4>1, <4>2, <4>3 DEF LockTyped
    <3> QED BY <3>1, <3>2
  <2>6. CASE EndShutdown \/ Crash
    <3>1. Empty \in Documents
      BY BoundAssumption DEF Empty, Documents, Statuses
    <3>2. failures' \in 0..MaxFailures
      BY <1>0, <2>6, BoundAssumption DEF EndShutdown, Crash, LockTyped
    <3>3. disk' \in Documents
      BY <1>0, <2>6 DEF EndShutdown, Crash, LockTyped
    <3>4. state' = Empty /\ previous' = Empty /\ queue' = <<>> /\ saving' = FALSE
      BY <2>6 DEF EndShutdown, Crash, Exit
    <3> QED BY <2>0, <3>1, <3>2, <3>3, <3>4 DEF LockTyped
  <2>7. CASE Restart
    BY <1>0, <2>0, <2>7, EditsTyped DEF Restart, LockTyped
  <2> QED BY <2>1, <2>2, <2>3, <2>4, <2>5, <2>6, <2>7 DEF Hosting
<1> QED BY <1>1, <1>2 DEF TypeOK, LockTyped, RunsTyped, Sections

\* and so every step.
LEMMA TypeNext ==
  ASSUME TypeOK, BoundInv, PlaceInv, [Next]_vars
  PROVE  TypeOK'
<1>1. CASE UNCHANGED vars
  BY <1>1 DEF vars, lock, runs, process, TypeOK
<1> QED BY <1>1, TypeMessages, TypeHosting DEF Next

\* What waits after one more section asked for the lock,
LEMMA WaitsEnqueue ==
  ASSUME TypeOK, NEW s \in Sections, Enqueue(s)
  PROVE  /\ Queued' = Queued \cup {s} /\ Waits' = Waits \cup {s}
         /\ saving' = saving /\ (saving => Head(queue') = Head(queue))
<1>1. queue \in Seq(Sections) /\ saving \in BOOLEAN /\ (saving => queue # <<>>)
  BY DEF TypeOK, Sections
<1>2. queue' = Append(queue, s) /\ saving' = saving
  BY DEF Enqueue
<1> QED BY <1>1, <1>2, AppendQueue DEF Queued, Waits

\* after the holder edited the document,
LEMMA WaitsEdit ==
  ASSUME TypeOK, PlaceInv, queue # <<>>, ~saving, NEW d, Edit(d)
  PROVE  /\ Queued' = Queued /\ Waits = Queued /\ Waits' \subseteq Waits /\ saving'
         /\ Head(queue') = Head(queue) /\ Head(queue) \in Queued
         /\ \A t \in Waits' : ~Excludes(Head(queue), t)
<1>1. queue \in Seq(Sections) /\ Ordered(queue) /\ queue' = queue /\ saving'
  BY DEF TypeOK, Sections, PlaceInv, Edit
<1> QED BY <1>1, EditSets

\* and after it left, its run asking for the lock again or not.
LEMMA WaitsLeave ==
  ASSUME TypeOK, PlaceInv, queue # <<>>, NEW next, queue' = Tail(queue) \o next, ~saving',
         next = <<>> \/ \E s \in Sections : next = <<s>>
  PROVE  /\ saving => /\ next = <<>> => Waits' = Waits
                      /\ \A s : next = <<s>> => Waits' = Waits \cup {s}
         /\ Waits' = Queued' /\ Head(queue) \in Queued
         /\ next = <<>> => Queued' \subseteq Queued /\ Waits' \subseteq Waits
         /\ \A s : next = <<s>> => Queued' \subseteq Queued \cup {s} /\ Waits' \subseteq Waits \cup {s}
<1>1. queue \in Seq(Sections) /\ Ordered(queue)
  BY DEF TypeOK, Sections, PlaceInv
<1>2. /\ Tail(queue) \in Seq(Sections)
      /\ Queued = {Head(queue)} \cup Members(Tail(queue))
  BY <1>1, TailQueue DEF Queued
<1>3. Waits' = Queued' /\ (saving => Waits = Members(Tail(queue))) /\ (~saving => Waits = Queued)
  BY DEF Waits, Queued
<1>4. CASE next = <<>>
  <2>1. queue' = Tail(queue)
    BY <1>1, <1>4, TailQueue
  <2>2. \A s : next # <<s>>
    BY <1>4
  <2> QED BY <1>2, <1>3, <1>4, <2>1, <2>2 DEF Queued
<1>5. ASSUME NEW s \in Sections, next = <<s>>
      PROVE  /\ next # <<>> /\ \A t : next = <<t>> => t = s
             /\ Queued' = Members(Tail(queue)) \cup {s}
  <2>1. queue' = Append(Tail(queue), s)
    BY <1>1, <1>5, TailQueue
  <2>2. next # <<>> /\ \A t : next = <<t>> => t = s
    BY <1>5
  <2> QED BY <1>2, <2>1, <2>2, AppendQueue DEF Queued
<1> QED BY <1>2, <1>3, <1>4, <1>5

\* A process that died left nothing behind.
LEMMA DownNext ==
  ASSUME DownInv, [Next]_vars
  PROVE  DownInv'
<1> USE DEF process, runs, lock, DownInv, Begins, Settles
<1>1. ASSUME NEW m \in Messages, Deliver(m) \/ Control(m) \/ User(m) \/ Agent(m)
      PROVE  host = "up" /\ host' = "up"
  <2>1. ASSUME Deliver(m)
        PROVE  host = "up" /\ host' = "up"
    BY <2>1
       DEF Deliver, BeginAccept, EndAccept, Launch, BeginStart, EndStart, BeginComplete,
           BeginFail,
       BeginInterrupt, EndRun
  <2>2. ASSUME Control(m)
        PROVE  host = "up" /\ host' = "up"
    BY <2>2 DEF Control, BeginAsk, EndAsk, BeginAnswer, EndAnswer, BeginSteer, EndSteer,
      Cancelled, BeginOverwrite, EndOverwrite
  <2>3. ASSUME User(m) \/ Agent(m)
        PROVE  host = "up" /\ host' = "up"
    BY <2>3 DEF User, Agent, Prepare, Answer, Stop, Steer, Ask, TurnEnds
  <2> QED BY <1>1, <2>1, <2>2, <2>3
<1>2. CASE AskReset \/ AskClose \/ BeginReset \/ EndReset \/ BeginClose \/ EndClose
             \/ CloseIdle \/ BeginShutdown
  BY <1>2
     DEF AskReset, AskClose, BeginReset, EndReset, BeginClose, EndClose, CloseIdle,
         BeginShutdown
<1>3. CASE EndShutdown \/ Crash
  BY <1>3 DEF EndShutdown, Crash, Exit
<1>4. CASE Restart
  BY <1>4 DEF Restart
<1>5. CASE UNCHANGED vars
  BY <1>5 DEF vars
<1> QED BY <1>1, <1>2, <1>3, <1>4, <1>5 DEF Next, Hosting

\* Every step keeps the generations and the process deaths within their bounds.
LEMMA BoundNext ==
  ASSUME TypeOK, PlaceInv, DownInv, BoundInv, [Next]_vars
  PROVE  BoundInv'
<1> USE DEF process, runs, lock, Begins, Settles
<1>0. /\ state \in Documents /\ state.generation \in Int /\ previous.generation \in Int
      /\ <<>> \in Seq(Sections) /\ saving \in BOOLEAN /\ (saving => queue # <<>>)
      /\ Reset \in Sections /\ Close \in Sections /\ Shutdown \in Sections
      /\ MaxResets \in Int
  BY DocumentsBounded, BoundAssumption, SectionKinds DEF TypeOK
<1>1. ASSUME NEW s \in Sections, Enqueue(s), s = Reset => state.generation < MaxResets,
             closing' => crashes' < MaxCrashes
      PROVE  BoundInv'
  BY <1>0, <1>1, WaitsEnqueue DEF Enqueue, BoundInv
<1>2. ASSUME queue # <<>>, ~saving, NEW d, Edit(d), d.generation = state.generation,
             UNCHANGED <<closing, crashes>>
      PROVE  BoundInv'
  <2>1. Waits' \subseteq Waits
    BY <1>2, WaitsEdit
  <2> QED BY <1>0, <1>2, <2>1 DEF Edit, BoundInv
<1>3. ASSUME queue # <<>>, NEW next, Skip(next), ~saving, 
             next = <<>> \/ \E m \in Messages : next = <<Section("interrupt", m)>>,
             UNCHANGED <<closing, crashes>>
      PROVE  BoundInv'
  <2>1. Reset \in Waits' => Reset \in Waits
    BY <1>3, WaitsLeave, SectionsApart, SectionKinds DEF Skip, Kinds
  <2> QED BY <1>0, <1>3, <2>1 DEF Skip, BoundInv
<1>4. ASSUME queue # <<>>, saving, NEW next, Saved(next) \/ Fails(next),
             next = <<>> \/ \E m \in Messages, k \in {"fail", "interrupt"} : next = <<Section(k, m)>>,
             UNCHANGED <<closing, crashes>>
      PROVE  BoundInv'
  <2>1. Reset \in Waits' => Reset \in Waits
    BY <1>4, WaitsLeave, SectionsApart, SectionKinds DEF Saved, Fails, Kinds
  <2> QED BY <1>0, <1>4, <2>1 DEF Saved, Fails, BoundInv
<1>5. ASSUME NEW m \in Messages, Deliver(m)
      PROVE  BoundInv'
  <2>1. \A s \in Statuses : WithStatus(state, m, s).generation = state.generation
    BY <1>0, EditsTyped DEF SameReplies
  <2>2. {"queued", "running", "needs_input", "complete", "cancelled", "failed", "error"} \subseteq Statuses
    BY DEF Statuses, Final
  <2>3. \A k \in Kinds : Section(k, m) \in Sections /\ Section(k, m) # Reset
    BY SectionKinds, SectionsApart
  <2>4. CASE BeginAccept(m) \/ BeginInterrupt(m)
    BY <1>0, <1>2, <1>3, <2>1, <2>2, <2>4 DEF BeginAccept, BeginInterrupt
  <2>5. CASE BeginStart(m) \/ BeginFail(m)
    BY <1>0, <1>2, <2>1, <2>2, <2>5 DEF BeginStart, BeginFail
  <2>6. CASE BeginComplete(m)
    <3>1. [WithStatus(state, m, "complete") EXCEPT !.replied = @ \cup {m}].generation = state.generation
      BY <1>0, <2>1, <2>2, EditsTyped DEF Documents
    <3> QED BY <1>0, <1>2, <1>3, <2>6, <3>1 DEF BeginComplete
  <2>7. CASE EndAccept(m) \/ EndRun(m)
    BY <1>0, <1>4, <2>7 DEF EndAccept, EndRun
  <2>8. CASE EndStart(m)
    BY <1>0, <1>4, <2>8 DEF EndStart, Ending
  <2>9. CASE Launch(m)
    BY <1>1, <2>3, <2>9 DEF Launch, BoundInv, Kinds
  <2> QED BY <1>5, <2>4, <2>5, <2>6, <2>7, <2>8, <2>9 DEF Deliver
<1>6. ASSUME NEW m \in Messages, Control(m) \/ User(m) \/ Agent(m)
      PROVE  BoundInv'
  <2>1. \A s \in Statuses : /\ WithStatus(state, m, s).generation = state.generation
                            /\ \A p : [WithStatus(state, m, s) EXCEPT !.permission[m] = p].generation = state.generation
    <3>1. \A d \in Documents : \A p : [d EXCEPT !.permission[m] = p].generation = d.generation
      BY DEF Documents
    <3>2. \A s \in Statuses : /\ WithStatus(state, m, s) \in Documents
                              /\ WithStatus(state, m, s).generation = state.generation
      BY <1>0, EditsTyped DEF SameReplies
    <3> QED BY <3>1, <3>2
  <2>2. {"queued", "running", "needs_input", "complete", "cancelled", "failed", "error"} \subseteq Statuses
    BY DEF Statuses, Final
  <2>3. \A k \in Kinds : Section(k, m) \in Sections /\ Section(k, m) # Reset
    BY SectionKinds, SectionsApart
  <2>4. CASE BeginAsk(m) \/ BeginAnswer(m) \/ BeginSteer(m) \/ BeginOverwrite(m)
    BY <1>0, <1>2, <1>3, <2>1, <2>2, <2>4
       DEF BeginAsk, BeginAnswer, BeginSteer, BeginOverwrite
  <2>5. CASE EndAsk(m) \/ EndAnswer(m) \/ EndSteer(m) \/ EndOverwrite(m)
    BY <1>0, <1>4, <2>5 DEF EndAsk, EndAnswer, EndSteer, EndOverwrite
  <2>6. CASE Cancelled(m)
    <3>1. cancelling[m] \in Kinds
      BY <2>6 DEF TypeOK, Cancelled, Kinds
    <3> QED BY <1>1, <2>3, <2>6, <3>1 DEF Cancelled, BoundInv
  <2>7. CASE Stop(m)
    BY <2>7 DEF Stop, BoundInv, Waits
  <2>8. CASE TurnEnds(m)
    BY <1>1, <2>3, <2>8 DEF TurnEnds, Ending, BoundInv, Kinds
  <2>9. CASE Prepare(m) \/ Answer(m) \/ Steer(m) \/ Ask(m)
    BY <1>1, <2>3, <2>9 DEF Prepare, Answer, Steer, Ask, BoundInv, Kinds
  <2> QED BY <1>6, <2>4, <2>5, <2>6, <2>7, <2>8, <2>9 DEF Control, User, Agent
<1>7. CASE AskReset \/ AskClose \/ CloseIdle
  BY <1>0, <1>1, <1>7, SectionsApart DEF AskReset, AskClose, CloseIdle, BoundInv
<1>8. CASE BeginReset
  <2>1. Reset \notin Waits'
    BY <1>8, WaitsEdit, ExcludedByHead DEF BeginReset, Excludes
  <2>2. state' = [SettleOpen(state) EXCEPT !.generation = @ + 1] /\ previous' = state /\ saving'
    BY <1>8 DEF BeginReset, Edit
  <2>3. state'.generation = state.generation + 1
    <3>1. SettleOpen(state) \in Documents /\ SettleOpen(state).generation = state.generation
      BY <1>0, EditsTyped
    <3>2. \A d \in Documents : [d EXCEPT !.generation = @ + 1].generation = d.generation + 1
      BY DEF Documents
    <3> QED BY <2>2, <3>1, <3>2
  <2> QED BY <1>0, <1>8, <2>1, <2>2, <2>3 DEF BeginReset, BoundInv
<1>9. CASE BeginClose \/ BeginShutdown
  BY <1>0, <1>2, <1>9, EditsTyped DEF BeginClose, BeginShutdown
<1>10. CASE EndReset
  BY <1>0, <1>4, <1>10 DEF EndReset
<1>11. CASE EndClose
  <2>1. CASE Saved(<<>>)
    BY <1>0, <1>4, <1>11, <2>1 DEF EndClose
  <2>2. CASE ~Saved(<<>>)
    <3>1. /\ queue' = Tail(queue) /\ ~saving' /\ UNCHANGED <<state, disk>> /\ previous' = state
          /\ UNCHANGED <<closing, crashes>> /\ queue # <<>> /\ saving
      BY <1>0, <1>11, <2>2 DEF EndClose
    <3>2. Waits' = Waits
      BY <3>1 DEF Waits
    <3> QED BY <1>0, <3>1, <3>2 DEF BoundInv
  <2> QED BY <2>1, <2>2
<1>12. CASE EndShutdown \/ Crash
  <2>1. queue' = <<>> /\ ~saving' /\ ~closing' /\ state' = Empty /\ previous' = Empty
    BY <1>12 DEF EndShutdown, Crash, Exit
  <2>2. Waits' = {}
    BY <2>1 DEF Waits, Members
  <2> QED BY <2>1, <2>2 DEF BoundInv, Empty
<1>13. CASE Restart
  <2>1. queue' = <<>> /\ ~saving'
    BY <1>0, <1>13 DEF Restart, DownInv
  <2>2. Waits' = {}
    BY <2>1 DEF Waits, Members
  <2>3. state' \in Documents
    <3>1. disk \in Documents
      BY DEF TypeOK
    <3>2. InterruptPermissions(disk) \in Documents
      BY <3>1, EditsTyped
    <3> QED BY <1>13, <3>2, EditsTyped DEF Restart
  <2> QED BY <1>13, <2>1, <2>2, <2>3, DocumentsBounded DEF Restart, BoundInv
<1>14. CASE UNCHANGED vars
  BY <1>14 DEF vars, BoundInv, Waits
<1> QED BY <1>5, <1>6, <1>7, <1>8, <1>9, <1>10, <1>11, <1>12, <1>13, <1>14 DEF Next, Hosting

-----------------------------------------------------------------------------
(* The permissions.                                                        *)

\* A permission is asked for once, and what is pending can be answered: in memory and
\* in what memory returns to when the persist rejects.
PermInv ==
    \A m \in Messages :
        /\ Section("ask", m) \in Queued => previous.permission[m] = "none"
        /\ Section("ask", m) \in Waits => state.permission[m] = "none"
        /\ \A d \in {state, previous} : d.permission[m] = "pending" => m \in resolvers
        /\ saving /\ Head(queue) = Section("answer", m) => state.permission[m] = "resolved"
        /\ saving /\ Head(queue) = Close => state.permission[m] # "pending"

Asking == AskedInv /\ PermInv

\* What each edit does to the permissions.
LEMMA PermissionEdits ==
  ASSUME NEW d \in Documents, NEW m \in Messages
  PROVE  /\ \A s \in Statuses : WithStatus(d, m, s).permission = d.permission
         /\ [WithStatus(d, m, "complete") EXCEPT !.replied = @ \cup {m}].permission = d.permission
         /\ \A s \in Statuses, p \in {"pending", "resolved"} :
              LET e == [WithStatus(d, m, s) EXCEPT !.permission[m] = p]
              IN  /\ e.permission[m] = p
                  /\ \A n \in Messages \ {m} : e.permission[n] = d.permission[n]
         /\ [SettleOpen(d) EXCEPT !.generation = @ + 1].permission = d.permission
         /\ SettleOpen(d).permission = d.permission
<1>1. \A s \in Statuses : WithStatus(d, m, s) \in Documents /\ WithStatus(d, m, s).permission = d.permission
  BY DEF Documents, WithStatus
<1>2. \A e \in Documents : [e EXCEPT !.replied = @ \cup {m}].permission = e.permission
  BY DEF Documents
<1>3. \A e \in Documents, p \in {"pending", "resolved"} :
         /\ [e EXCEPT !.permission[m] = p].permission[m] = p
         /\ \A n \in Messages \ {m} : [e EXCEPT !.permission[m] = p].permission[n] = e.permission[n]
  BY DEF Documents
<1>4. SettleOpen(d) \in Documents /\ SettleOpen(d).permission = d.permission
  BY EditsTyped
<1>5. \A e \in Documents : [e EXCEPT !.generation = @ + 1].permission = e.permission
  BY DEF Documents
<1>6. "complete" \in Statuses
  BY DEF Statuses, Final
<1> QED BY <1>1, <1>2, <1>3, <1>4, <1>5, <1>6

\* Start-up interrupts the pending permissions and no other.
LEMMA Interrupted ==
  ASSUME NEW d \in Documents
  PROVE  \A m \in Messages : InterruptPermissions(d).permission[m] =
                IF d.permission[m] = "pending" THEN "interrupted" ELSE d.permission[m]
BY DEF Documents, InterruptPermissions

\* The permissions after one more section asked for the lock,
LEMMA AskingEnqueue ==
  ASSUME TypeOK, Asking, NEW s \in Sections, Enqueue(s), UNCHANGED resolvers,
         asked \subseteq asked', 
         \A m \in Messages : s = Section("ask", m) => m \notin asked
  PROVE  Asking'
<1>1. /\ Queued' = Queued \cup {s} /\ Waits' = Waits \cup {s}
      /\ saving' = saving /\ (saving => Head(queue') = Head(queue))
      /\ UNCHANGED <<state, disk, previous>>
  BY WaitsEnqueue DEF Enqueue
<1> QED BY <1>1 DEF Asking, AskedInv, PermInv

\* after an edit that leaves them alone,
LEMMA AskingEdit ==
  ASSUME TypeOK, PlaceInv, BoundInv, Asking, queue # <<>>, ~saving,
         NEW d \in Documents, Edit(d), d.permission = state.permission,
         \A m \in Messages : Head(queue) # Section("answer", m),
         Head(queue) # Close, UNCHANGED <<resolvers, asked>>
  PROVE  Asking'
<1>1. /\ Queued' = Queued /\ Waits = Queued /\ Waits' \subseteq Waits
      /\ Head(queue') = Head(queue)
  BY WaitsEdit
<1>2. previous' = state /\ state' = d /\ disk' = disk
  BY DEF Edit
<1> QED BY <1>1, <1>2 DEF Asking, AskedInv, PermInv

\* a section with nothing to do,
LEMMA AskingSkip ==
  ASSUME TypeOK, PlaceInv, Asking, queue # <<>>, ~saving, NEW next, Skip(next),
         next = <<>> \/ \E m \in Messages : next = <<Section("interrupt", m)>>,
         UNCHANGED <<resolvers, asked>>
  PROVE  Asking'
<1>1. \A m \in Messages : /\ Section("ask", m) \in Queued' => Section("ask", m) \in Queued
                          /\ Section("ask", m) \in Waits' => Section("ask", m) \in Waits
  BY WaitsLeave, SectionsApart, SectionKinds DEF Skip, Kinds
<1>2. UNCHANGED <<state, disk, previous>> /\ ~saving'
  BY DEF Skip
<1> QED BY <1>1, <1>2 DEF Asking, AskedInv, PermInv

\* a persist that resolves,
LEMMA AskingSaved ==
  ASSUME TypeOK, PlaceInv, Asking, queue # <<>>, saving, Saved(<<>>), UNCHANGED asked,
         \A m \in Messages : state.permission[m] = "pending" => m \in resolvers'
  PROVE  Asking'
<1>1. Queued' = Waits /\ Waits' = Waits
  BY WaitsLeave DEF Saved
<1>2. state' = state /\ disk' = state /\ previous' = state /\ ~saving'
  BY DEF Saved
<1> QED BY <1>1, <1>2 DEF Asking, AskedInv, PermInv

\* and one that rejects.
LEMMA AskingFails ==
  ASSUME TypeOK, PlaceInv, Asking, queue # <<>>, saving, NEW next, Fails(next), UNCHANGED asked,
         next = <<>> \/ \E m \in Messages, k \in {"fail", "interrupt"} : next = <<Section(k, m)>>,
         \A m \in Messages : previous.permission[m] = "pending" => m \in resolvers'
  PROVE  Asking'
<1>1. \A m \in Messages : /\ Section("ask", m) \in Queued' => Section("ask", m) \in Queued
                          /\ Section("ask", m) \in Waits' => Section("ask", m) \in Queued
  BY WaitsLeave, SectionsApart, SectionKinds DEF Fails, Kinds
<1>2. state' = previous /\ disk' = disk /\ previous' = previous /\ ~saving'
  BY DEF Fails
<1> QED BY <1>1, <1>2 DEF Asking, AskedInv, PermInv

\* The sections of a run keep its permission answerable,
LEMMA AskingDeliver ==
  ASSUME TypeOK, PlaceInv, BoundInv, Asking, NEW m \in Messages, Deliver(m)
  PROVE  Asking'
<1> USE DEF process, runs, lock, Begins, Settles
<1>0. /\ state \in Documents /\ (saving => queue # <<>>)
      /\ \A n \in Messages : previous.permission[n] = "pending" => n \in resolvers
      /\ \A n \in Messages : state.permission[n] = "pending" => n \in resolvers
      /\ \A k \in Kinds : Section(k, m) \in Sections
      /\ {"queued", "running", "needs_input", "complete", "cancelled", "failed", "error"} \subseteq Statuses
  BY SectionKinds DEF TypeOK, Asking, PermInv, Statuses, Final
<1>a. /\ \A s \in Statuses : /\ WithStatus(state, m, s) \in Documents
                             /\ WithStatus(state, m, s).permission = state.permission
  <2>1. state \in Documents
    BY <1>0
  <2>2. \A s \in Statuses : WithStatus(state, m, s) \in Documents
    BY <2>1, EditsTyped
  <2>3. \A s \in Statuses : WithStatus(state, m, s).permission = state.permission
    BY <2>1, PermissionEdits
  <2> QED BY <2>2, <2>3
<1>1. ASSUME NEW k \in RunKinds
      PROVE  Section(k, m) # Close /\ \A n \in Messages : Section(k, m) # Section("answer", n) /\ Section(k, m) # Section("ask", n)
  BY SectionsApart DEF RunKinds, Kinds
<1>2. CASE BeginAccept(m)
  BY <1>0, <1>a, <1>1, <1>2, AskingEdit, AskingSkip DEF BeginAccept, RunKinds
<1>3. CASE BeginStart(m) \/ BeginFail(m)
  BY <1>0, <1>a, <1>1, <1>3, AskingEdit DEF BeginStart, BeginFail, RunKinds
<1>4. CASE BeginComplete(m)
  <2> DEFINE d == [WithStatus(state, m, "complete") EXCEPT !.replied = @ \cup {m}]
  <2>1. d \in Documents /\ d.permission = state.permission
    <3>1. WithStatus(state, m, "complete") \in Documents
      BY <1>0, <1>a
    <3>2. d \in Documents
      BY <3>1, EditsTyped
    <3> QED BY <1>0, <3>2, PermissionEdits
  <2>2. CASE Current(m)
    <3>1. Edit(d) /\ queue # <<>> /\ ~saving /\ Head(queue) = Section("complete", m) /\ UNCHANGED <<resolvers, asked>>
      BY <1>4, <2>2 DEF BeginComplete
    <3> HIDE DEF d
    <3> QED BY <1>1, <2>1, <3>1, AskingEdit DEF RunKinds
  <2>3. CASE ~Current(m)
    BY <1>0, <1>4, <2>3, AskingSkip DEF BeginComplete
  <2> QED BY <2>2, <2>3
<1>5. CASE BeginInterrupt(m)
  BY <1>0, <1>a, <1>1, <1>5, AskingEdit, AskingSkip DEF BeginInterrupt, RunKinds
<1>6. CASE EndAccept(m) \/ EndRun(m)
  BY <1>0, <1>6, AskingSaved, AskingFails DEF EndAccept, EndRun
<1>7. CASE EndStart(m)
  BY <1>0, <1>7, AskingSaved, AskingFails DEF EndStart, Ending
<1>8. CASE Launch(m)
  BY <1>0, <1>1, <1>8, AskingEnqueue DEF Launch, Kinds, RunKinds
<1> QED BY <1>2, <1>3, <1>4, <1>5, <1>6, <1>7, <1>8 DEF Deliver

\* those that ask and answer do,
LEMMA AskingControl ==
  ASSUME TypeOK, PlaceInv, BoundInv, Asking, NEW m \in Messages, Control(m)
  PROVE  Asking'
<1> USE DEF process, runs, lock, Begins, Settles
<1>0. /\ state \in Documents /\ (saving => queue # <<>>)
      /\ \A n \in Messages : previous.permission[n] = "pending" => n \in resolvers
      /\ \A n \in Messages : state.permission[n] = "pending" => n \in resolvers
      /\ \A k \in Kinds : Section(k, m) \in Sections
      /\ {"queued", "running", "needs_input", "complete", "cancelled", "failed", "error"} \subseteq Statuses
  BY SectionKinds DEF TypeOK, Asking, PermInv, Statuses, Final
<1>a. /\ \A s \in Statuses : /\ WithStatus(state, m, s) \in Documents
                             /\ WithStatus(state, m, s).permission = state.permission
  <2>1. state \in Documents
    BY <1>0
  <2>2. \A s \in Statuses : WithStatus(state, m, s) \in Documents
    BY <2>1, EditsTyped
  <2>3. \A s \in Statuses : WithStatus(state, m, s).permission = state.permission
    BY <2>1, PermissionEdits
  <2> QED BY <2>2, <2>3
<1>1. ASSUME NEW k \in Kinds \ {"ask", "answer"}
      PROVE  Section(k, m) # Close /\ \A n \in Messages : Section(k, m) # Section("answer", n) /\ Section(k, m) # Section("ask", n)
  BY SectionsApart DEF RunKinds, Kinds
<1>b. \A s \in Statuses, p \in {"pending", "resolved"} :
              LET e == [WithStatus(state, m, s) EXCEPT !.permission[m] = p]
              IN  /\ e.permission[m] = p
                  /\ \A n \in Messages \ {m} : e.permission[n] = state.permission[n]
  BY <1>0, PermissionEdits
<1>2. CASE BeginAsk(m)
  <2> DEFINE d == [WithStatus(state, m, "needs_input") EXCEPT !.permission[m] = "pending"]
  <2>1. CASE Edit(d) /\ resolvers' = resolvers \cup {m}
    <3>1. d.permission[m] = "pending" /\ \A n \in Messages \ {m} : d.permission[n] = state.permission[n]
      BY <1>0, <1>b
    <3>2. /\ Queued' = Queued /\ Waits = Queued /\ Waits' \subseteq Waits
          /\ Head(queue') = Head(queue) /\ Head(queue) = Section("ask", m)
          /\ \A t \in Waits' : ~Excludes(Section("ask", m), t)
          /\ Section("ask", m) \in Queued
      BY <1>2, <2>1, WaitsEdit DEF BeginAsk
    <3>3. Section("ask", m) \notin Waits'
      BY <3>2, ExcludedByHead DEF Excludes
    <3>4. m \in asked /\ asked' = asked
      BY <1>2, <3>2 DEF BeginAsk, PlaceInv, Placed
    <3>5. previous' = state /\ state' = d /\ disk' = disk
      BY <2>1 DEF Edit
    <3>6. \A n \in Messages : Section("ask", m) # Section("answer", n) /\ Section("ask", m) # Close
      BY SectionsApart DEF Kinds
    <3> HIDE DEF d
    <3> QED BY <2>1, <3>1, <3>2, <3>3, <3>4, <3>5, <3>6 DEF Asking, AskedInv, PermInv
  <2>2. CASE ~(Edit(d) /\ resolvers' = resolvers \cup {m})
    BY <1>0, <1>2, <2>2, AskingSkip DEF BeginAsk
  <2> QED BY <2>1, <2>2
<1>3. CASE EndAsk(m)
  <2>1. CASE Saved(<<>>) /\ UNCHANGED resolvers
    BY <1>0, <1>3, <2>1, AskingSaved DEF EndAsk
  <2>2. CASE Fails(<<>>) /\ resolvers' = resolvers \ {m}
    <3>1. queue # <<>> /\ Section("ask", m) \in Queued
      BY <1>0, <1>3, <2>2, WaitsLeave DEF EndAsk, Fails
    <3>2. previous.permission[m] = "none"
      BY <3>1 DEF Asking, PermInv
    <3> QED BY <1>0, <1>3, <2>2, <3>1, <3>2, AskingFails DEF EndAsk
  <2> QED BY <1>3, <2>1, <2>2 DEF EndAsk
<1>4. CASE BeginAnswer(m)
  <2> DEFINE d == [WithStatus(state, m, "running") EXCEPT !.permission[m] = "resolved"]
  <2>1. CASE Edit(d) /\ state.permission[m] = "pending"
    <3>1. d.permission[m] = "resolved" /\ \A n \in Messages \ {m} : d.permission[n] = state.permission[n]
      BY <1>0, <1>b
    <3>2. /\ Queued' = Queued /\ Waits = Queued /\ Waits' \subseteq Waits
          /\ Head(queue') = Head(queue) /\ Head(queue) = Section("answer", m)
      BY <1>4, <2>1, WaitsEdit DEF BeginAnswer
    <3>3. UNCHANGED <<resolvers, asked>>
      BY <1>4 DEF BeginAnswer
    <3>5. previous' = state /\ state' = d /\ disk' = disk
      BY <2>1 DEF Edit
    <3>6. \A n \in Messages \ {m} : Section("answer", m) # Section("answer", n)
      BY SectionsApart DEF Kinds
    <3>7. Section("answer", m) # Close
      BY SectionsApart DEF Kinds
    <3> HIDE DEF d
    <3> QED BY <2>1, <3>1, <3>2, <3>3, <3>5, <3>6, <3>7 DEF Asking, AskedInv, PermInv
  <2>2. CASE ~(Edit(d) /\ state.permission[m] = "pending")
    BY <1>0, <1>4, <2>2, AskingSkip DEF BeginAnswer
  <2> QED BY <2>1, <2>2
<1>5. CASE EndAnswer(m)
  <2>1. CASE Saved(<<>>) /\ resolvers' = resolvers \ {m}
    <3>1. state.permission[m] = "resolved"
      BY <1>5 DEF EndAnswer, Asking, PermInv
    <3> QED BY <1>0, <1>5, <2>1, <3>1, AskingSaved DEF EndAnswer
  <2>2. CASE Fails(<<>>) /\ UNCHANGED resolvers
    BY <1>0, <1>5, <2>2, AskingFails DEF EndAnswer
  <2> QED BY <1>5, <2>1, <2>2 DEF EndAnswer
<1>6. CASE BeginSteer(m)
  BY <1>0, <1>a, <1>1, <1>6, AskingEdit, AskingSkip DEF BeginSteer, Kinds
<1>7. CASE BeginOverwrite(m)
  BY <1>0, <1>a, <1>1, <1>7, AskingEdit DEF BeginOverwrite, Kinds
<1>8. CASE EndSteer(m) \/ EndOverwrite(m)
  BY <1>0, <1>8, AskingSaved, AskingFails DEF EndSteer, EndOverwrite
<1>9. CASE Cancelled(m)
  <2>1. cancelling[m] \in Kinds \ {"ask", "answer"}
    BY <1>9 DEF TypeOK, Cancelled, Kinds
  <2> QED BY <1>0, <1>1, <1>9, <2>1, AskingEnqueue DEF Cancelled
<1> QED BY <1>2, <1>3, <1>4, <1>5, <1>6, <1>7, <1>8, <1>9 DEF Control

\* and every other step.
LEMMA AskingRest ==
  ASSUME TypeOK, PlaceInv, DownInv, BoundInv, Asking,
         (\E m \in Messages : User(m) \/ Agent(m)) \/ AskReset \/ AskClose \/ Hosting \/ Crash
           \/ UNCHANGED vars
  PROVE  Asking'
<1> USE DEF process, runs, lock, Begins, Settles
<1>0. /\ state \in Documents /\ disk \in Documents /\ (saving => queue # <<>>)
      /\ \A n \in Messages : previous.permission[n] = "pending" => n \in resolvers
      /\ \A n \in Messages : state.permission[n] = "pending" => n \in resolvers
      /\ \A k \in Kinds, m \in Messages : Section(k, m) \in Sections
      /\ Reset \in Sections /\ Close \in Sections /\ Shutdown \in Sections
  BY SectionKinds DEF TypeOK, Asking, PermInv
<1>1. ASSUME NEW m \in Messages, User(m) \/ Agent(m)
      PROVE  Asking'
  <2>1. CASE Stop(m)
    BY <2>1 DEF Stop, Asking, AskedInv, PermInv, Queued, Waits
  <2>2. CASE Prepare(m) \/ Answer(m) \/ Steer(m) \/ TurnEnds(m)
    <3>1. PICK k \in Kinds \ {"ask"} : Enqueue(Section(k, m))
      BY <2>2 DEF Prepare, Answer, Steer, TurnEnds, Ending, Kinds
    <3>2. \A n \in Messages : Section(k, m) # Section("ask", n)
      BY SectionsApart DEF Kinds
    <3>3. UNCHANGED <<resolvers, asked>>
      BY <2>2 DEF Prepare, Answer, Steer, TurnEnds
    <3> QED BY <1>0, <3>1, <3>2, <3>3, AskingEnqueue
  <2>3. CASE Ask(m)
    <3>1. \A n \in Messages : Section("ask", m) = Section("ask", n) => m = n
      BY SectionsApart DEF Kinds
    <3> QED BY <1>0, <2>3, <3>1, AskingEnqueue DEF Ask, Kinds
  <2> QED BY <1>1, <2>1, <2>2, <2>3 DEF User, Agent
<1>2. CASE AskReset \/ AskClose \/ CloseIdle
  <2>1. PICK s \in {Reset, Close, Shutdown} : Enqueue(s)
    BY <1>2 DEF AskReset, AskClose, CloseIdle
  <2>2. \A n \in Messages : s # Section("ask", n)
    BY SectionsApart DEF Kinds
  <2>3. UNCHANGED <<resolvers, asked>>
    BY <1>2 DEF AskReset, AskClose, CloseIdle
  <2> QED BY <1>0, <2>1, <2>2, <2>3, AskingEnqueue
<1>3. CASE BeginReset
  <2> DEFINE d == [SettleOpen(state) EXCEPT !.generation = @ + 1]
  <2>1. Edit(d) /\ queue # <<>> /\ ~saving /\ Head(queue) = Reset /\ UNCHANGED <<resolvers, asked>>
    BY <1>3 DEF BeginReset
  <2>2. d \in Documents
    <3>1. state.generation < MaxResets
      BY <2>1, WaitsEdit DEF BoundInv
    <3>2. SettleOpen(state) \in Documents /\ SettleOpen(state).generation = state.generation
      BY <1>0, EditsTyped
    <3> QED BY <3>1, <3>2, EditsTyped
  <2>3. \A m \in Messages : Reset # Section("answer", m) /\ Reset # Close
    BY SectionsApart DEF Kinds
  <2>4. \A m \in Messages : d.permission = state.permission
    BY <1>0, PermissionEdits
  <2>5. CASE Messages = {}
    BY <2>1, <2>5 DEF Asking, AskedInv, PermInv
  <2>6. CASE Messages # {}
    <3>1. d.permission = state.permission
      BY <2>4, <2>6
    <3>2. Head(queue) # Close
      BY <2>1, <2>3, <2>6
    <3> HIDE DEF d
    <3> QED BY <2>1, <2>2, <2>3, <3>1, <3>2, AskingEdit
  <2> QED BY <2>5, <2>6
<1>4. CASE BeginClose
  <2>1. /\ previous' = state /\ state' = InterruptPermissions(state) /\ disk' = disk
        /\ UNCHANGED <<resolvers, asked>>
    BY <1>4 DEF BeginClose, Edit
  <2>2. \A m \in Messages : state'.permission[m] =
                IF state.permission[m] = "pending" THEN "interrupted" ELSE state.permission[m]
    BY <1>0, <2>1, Interrupted
  <2>3. /\ Queued' = Queued /\ Waits = Queued /\ Waits' \subseteq Waits
        /\ Head(queue') = Head(queue) /\ Head(queue) = Close
    BY <1>4, WaitsEdit DEF BeginClose
  <2>4. \A m \in Messages : Close # Section("answer", m)
    BY SectionsApart DEF Kinds
  <2> QED BY <2>1, <2>2, <2>3, <2>4 DEF Asking, AskedInv, PermInv
<1>5. CASE BeginShutdown
  <2>1. SettleOpen(state) \in Documents /\ SettleOpen(state).permission = state.permission
    BY <1>0, EditsTyped
  <2>2. Shutdown # Close /\ \A m \in Messages : Shutdown # Section("answer", m)
    BY SectionsApart DEF Kinds
  <2> QED BY <1>5, <2>1, <2>2, AskingEdit DEF BeginShutdown
<1>6. CASE EndReset
  BY <1>0, <1>6, AskingSaved, AskingFails DEF EndReset
<1>7. CASE EndClose
  <2>1. \A m \in Messages : state.permission[m] # "pending"
    BY <1>7 DEF EndClose, Asking, PermInv
  <2>2. CASE Saved(<<>>)
    BY <1>0, <1>7, <2>1, <2>2, AskingSaved DEF EndClose
  <2>3. CASE ~Saved(<<>>)
    <3>1. /\ queue' = Tail(queue) /\ saving /\ ~saving' /\ UNCHANGED <<state, disk, asked>> /\ previous' = state
      BY <1>7, <2>3 DEF EndClose
    <3>2. Waits' = Waits /\ Queued' = Waits
      BY <3>1 DEF Waits, Queued
    <3> QED BY <2>1, <3>1, <3>2 DEF Asking, AskedInv, PermInv
  <2> QED BY <2>2, <2>3
<1>8. CASE EndShutdown \/ Crash
  <2>1. /\ queue' = <<>> /\ ~saving' /\ state' = Empty /\ previous' = Empty /\ asked' = asked
        /\ disk' \in {disk, state}
    BY <1>8 DEF EndShutdown, Crash, Exit
  <2>2. Waits' = {} /\ Queued' = {}
    BY <2>1 DEF Waits, Queued, Members
  <2>3. \A m \in Messages : Empty.permission[m] = "none"
    BY DEF Empty
  <2> QED BY <2>1, <2>2, <2>3 DEF Asking, AskedInv, PermInv
<1>9. CASE Restart
  <2>1. queue' = <<>> /\ ~saving' /\ asked' = asked /\ disk' = state' /\ previous' = state'
    BY <1>0, <1>9 DEF Restart, DownInv
  <2>2. Waits' = {} /\ Queued' = {}
    BY <2>1 DEF Waits, Queued, Members
  <2>3. InterruptPermissions(disk) \in Documents
    BY <1>0, EditsTyped
  <2>4. state'.permission = InterruptPermissions(disk).permission
    BY <1>9, <2>3, EditsTyped DEF Restart
  <2>5. \A m \in Messages : state'.permission[m] =
                IF disk.permission[m] = "pending" THEN "interrupted" ELSE disk.permission[m]
    BY <1>0, <2>4, Interrupted
  <2> QED BY <2>1, <2>2, <2>5 DEF Asking, AskedInv, PermInv
<1>10. CASE UNCHANGED vars
  BY <1>10 DEF vars, Asking, AskedInv, PermInv, Queued, Waits
<1> QED BY <1>1, <1>2, <1>3, <1>4, <1>5, <1>6, <1>7, <1>8, <1>9, <1>10 DEF Hosting

-----------------------------------------------------------------------------
(* The status of a message and its run.                                    *)

\* The message needs no run any more.
Settled(m) ==
    state.status[m] \notin {"queued", "running"} \/ state.permission[m] = "resolved"

\* How the status of a message goes with its run, until a persist rejects: an
\* interruption waits only for a run that is not current any more, and a run ends
\* only with its message settled.
StatusOf(m) ==
    /\ phase[m] = "none" => state.status[m] = "none" /\ disk.status[m] = "none"
    /\ Section("accept", m) \in Waits => state.status[m] = "none"
    /\ Section("interrupt", m) \in Queued /\ ~closing
         => m \in aborted \/ bornIn[m] < state.generation
    /\ phase[m] \notin {"none", "over"} => bornIn[m] <= state.generation
    /\ m \in terminal => Settled(m)
    /\ \A k \in {"complete", "fail", "interrupt", "steer"} :
         saving /\ Head(queue) = Section(k, m) => Settled(m)
    /\ saving /\ Head(queue) = Reset => Settled(m)
    /\ host = "up" /\ ~closing /\ ~Settled(m) =>
         phase[m] \in {"prepared", "waiting"} \/ Active(m)

StatusInv == failures = 0 => \A m \in Messages : StatusOf(m)

\* What a step leaves of the queue, and of a message, that it has nothing to do with.
QueueKept(n) ==
    /\ Section("accept", n) \in Waits' => Section("accept", n) \in Waits
    /\ Section("interrupt", n) \in Queued' => Section("interrupt", n) \in Queued
    /\ \A k \in {"complete", "fail", "interrupt", "steer"} :
         saving' /\ Head(queue') = Section(k, n) => saving /\ Head(queue) = Section(k, n)
    /\ saving' /\ Head(queue') = Reset => saving /\ Head(queue) = Reset

Kept(n) ==
    /\ state'.status[n] = state.status[n] /\ state'.permission[n] = state.permission[n]
    /\ state.generation <= state'.generation
    /\ disk'.status[n] \in {disk.status[n], state.status[n]}
    /\ phase'[n] = phase[n] /\ bornIn'[n] = bornIn[n]
    /\ n \in aborted => n \in aborted'
    /\ n \in terminal' => n \in terminal
    /\ closing => closing'
    /\ host' = host

\* A message that a step leaves alone keeps its status in step with its run.
LEMMA StatusKept ==
  ASSUME NEW n \in Messages, TypeOK, TypeOK', StatusOf(n), QueueKept(n), Kept(n)
  PROVE  StatusOf(n)'
<1>1. /\ state.generation \in Int /\ state'.generation \in Int /\ bornIn[n] \in Int
      /\ closing \in BOOLEAN /\ closing' \in BOOLEAN
  BY BoundAssumption DEF TypeOK, Documents
<1>2. Settled(n)' <=> Settled(n)
  BY DEF Kept, Settled
<1>3. Active(n)' <=> Active(n)
  BY DEF Kept, Active
<1> QED BY <1>1, <1>2, <1>3 DEF StatusOf, Kept, QueueKept

\* What the edits do to one message.
LEMMA StatusEdits ==
  ASSUME NEW d \in Documents, NEW m \in Messages
  PROVE  /\ \A s \in Statuses :
              LET e == WithStatus(d, m, s)
              IN  /\ e \in Documents /\ e.status[m] = s /\ e.permission = d.permission
                  /\ e.generation = d.generation
                  /\ \A n \in Messages \ {m} : e.status[n] = d.status[n]
         /\ LET e == [WithStatus(d, m, "complete") EXCEPT !.replied = @ \cup {m}]
            IN  /\ e.status[m] = "complete" /\ e.permission = d.permission
                /\ e.generation = d.generation
                /\ \A n \in Messages \ {m} : e.status[n] = d.status[n]
         /\ \A s \in Statuses, p \in {"pending", "resolved"} :
              LET e == [WithStatus(d, m, s) EXCEPT !.permission[m] = p]
              IN  /\ e.status[m] = s /\ e.permission[m] = p /\ e.generation = d.generation
                  /\ \A n \in Messages \ {m} : /\ e.status[n] = d.status[n]
                                               /\ e.permission[n] = d.permission[n]
<1>1. \A s \in Statuses :
              LET e == WithStatus(d, m, s)
              IN  /\ e \in Documents /\ e.status[m] = s /\ e.permission = d.permission
                  /\ e.generation = d.generation
                  /\ \A n \in Messages \ {m} : e.status[n] = d.status[n]
  BY DEF Documents, WithStatus
<1>2. \A e \in Documents :
         LET f == [e EXCEPT !.replied = @ \cup {m}]
         IN  f.status = e.status /\ f.permission = e.permission /\ f.generation = e.generation
  BY DEF Documents
<1>3. \A e \in Documents, p \in {"pending", "resolved"} :
         LET f == [e EXCEPT !.permission[m] = p]
         IN  /\ f.status = e.status /\ f.generation = e.generation /\ f.permission[m] = p
             /\ \A n \in Messages \ {m} : f.permission[n] = e.permission[n]
  BY DEF Documents
<1>4. "complete" \in Statuses
  BY DEF Statuses, Final
<1> QED BY <1>1, <1>2, <1>3, <1>4

\* What the queue holds of the other messages
LEMMA QueueKeptEnqueue ==
  ASSUME TypeOK, NEW m \in Messages, NEW k \in Kinds, Enqueue(Section(k, m))
  PROVE  \A n \in Messages \ {m} : QueueKept(n)
BY WaitsEnqueue, SectionsApart, SectionKinds DEF QueueKept, Kinds

\* is left alone when a section of this one asks, edits
LEMMA QueueKeptEdit ==
  ASSUME TypeOK, PlaceInv, queue # <<>>, ~saving, NEW d, Edit(d),
         NEW m \in Messages, NEW k \in Kinds, Head(queue) = Section(k, m)
  PROVE  \A n \in Messages \ {m} : QueueKept(n)
BY WaitsEdit, SectionsApart DEF QueueKept, Kinds

\* and leaves.
LEMMA QueueKeptLeave ==
  ASSUME TypeOK, PlaceInv, queue # <<>>, NEW next, queue' = Tail(queue) \o next, ~saving',
         NEW m \in Messages,
         next = <<>> \/ \E k \in Kinds : next = <<Section(k, m)>>
  PROVE  \A n \in Messages \ {m} : QueueKept(n)
BY WaitsLeave, SectionsApart, SectionKinds DEF QueueKept, Kinds

\* The sections of a run keep every status in step,
LEMMA StatusDeliver ==
  ASSUME TypeOK, TypeOK', PlaceInv, StatusInv, failures = 0, failures' = 0,
         NEW m \in Messages, Deliver(m)
  PROVE  \A n \in Messages : StatusOf(n)'
<1> USE DEF process, runs, lock, Begins, Settles
<1>0. /\ state \in Documents /\ (saving => queue # <<>>)
      /\ state.generation \in Int /\ bornIn[m] \in Int
      /\ phase \in [Messages -> {"none", "prepared", "waiting", "starting", "working",
                               "asking", "recording", "over"}]
      /\ \A n \in Messages : StatusOf(n)
      /\ Placed(m)
      /\ {"queued", "running", "needs_input", "complete", "cancelled", "failed", "error"} \subseteq Statuses
  BY BoundAssumption, SectionKinds
     DEF TypeOK, Documents, StatusInv, PlaceInv, Statuses, Final
<1>a. \A n \in Messages \ {m} : QueueKept(n) /\ Kept(n) => StatusOf(n)'
  BY <1>0, StatusKept
<1>2. ASSUME NEW k \in RunKinds, NEW s \in Statuses, queue # <<>>, ~saving, Head(queue) = Section(k, m),
             NEW d, Edit(d), d.status[m] = s, d.permission = state.permission,
             d.generation = state.generation,
             \A n \in Messages \ {m} : d.status[n] = state.status[n],
             UNCHANGED <<phase, bornIn, aborted, terminal, closing, host>>,
             s \in {"queued", "running"} => /\ k \in {"accept", "start"}
                                            /\ Active(m) \/ phase[m] = "prepared"
                                            /\ m \notin terminal
      PROVE  \A n \in Messages : StatusOf(n)'
  <2>1. k \in Kinds
    BY DEF RunKinds, Kinds
  <2>2. ASSUME NEW n \in Messages \ {m}
        PROVE  StatusOf(n)'
    <3>1. QueueKept(n)
      BY <1>2, <2>1, QueueKeptEdit
    <3>2. Kept(n)
      BY <1>0, <1>2 DEF Kept, Edit
    <3> QED BY <1>a, <3>1, <3>2
  <2>3. StatusOf(m)'
    <3>1. /\ Queued' = Queued /\ Waits = Queued /\ Waits' \subseteq Waits
          /\ Head(queue') = Section(k, m) /\ Section(k, m) \in Queued
          /\ \A t \in Waits' : ~Excludes(Section(k, m), t)
      BY <1>2, WaitsEdit
    <3>2. Section("accept", m) \notin Waits'
      BY <3>1, ExcludedByHead DEF Excludes, RunKinds
    <3>3. phase[m] # "none"
      BY <1>0, <3>1 DEF Placed, RunKinds
    <3>4. \A l \in {"complete", "fail", "interrupt", "steer"} : Section(k, m) = Section(l, m) => k = l
      BY <2>1, SectionsApart DEF Kinds
    <3>5. Section(k, m) # Reset
      BY <2>1, SectionsApart
    <3>6. state'.status[m] = s /\ state'.permission = state.permission /\ state'.generation = state.generation
      BY <1>2 DEF Edit
    <3>7. s \notin {"queued", "running"} => Settled(m)'
      BY <3>6 DEF Settled
    <3> QED BY <1>0, <1>2, <3>1, <3>2, <3>3, <3>4, <3>5, <3>6, <3>7 DEF StatusOf, Active
  <2> QED BY <2>2, <2>3
<1>3. ASSUME queue # <<>>, NEW next, queue' = Tail(queue) \o next, ~saving',
             next = <<>> \/ (~Current(m) /\ next = <<Section("interrupt", m)>>),
             UNCHANGED <<state, bornIn, aborted, closing, host>>,
             disk' \in {disk, state},
             NEW to \in {"over", "waiting", "working"},
             phase' = phase \/ Goes(m, to), phase[m] \notin {"none", "over"},
             terminal' = terminal \/ (terminal' = terminal \cup {m} /\ Settled(m)),
             phase' # phase /\ to = "over" /\ ~closing => Settled(m)
      PROVE  \A n \in Messages : StatusOf(n)'
  <2>1. ASSUME NEW n \in Messages \ {m}
        PROVE  StatusOf(n)'
    <3>1. QueueKept(n)
      BY <1>3, QueueKeptLeave DEF Kinds
    <3>2. Kept(n)
      BY <1>0, <1>3 DEF Kept, Goes
    <3> QED BY <1>a, <3>1, <3>2
  <2>2. StatusOf(m)'
    <3>1. /\ Section("accept", m) \in Waits' => Section("accept", m) \in Waits
          /\ Section("interrupt", m) \in Queued' => Section("interrupt", m) \in Queued \/ ~Current(m)
      BY <1>3, WaitsLeave, SectionsApart, SectionKinds DEF Kinds
    <3>2. ~closing /\ ~Current(m) => m \in aborted \/ bornIn[m] < state.generation
      BY <1>0, <1>3 DEF Current, StatusOf
    <3>3. Settled(m)' <=> Settled(m)
      BY <1>3 DEF Settled
    <3>4. phase'[m] = phase[m] \/ phase'[m] = to
      BY <1>0, <1>3 DEF Goes
    <3>5. phase' # phase \/ phase'[m] = phase[m]
      OBVIOUS
    <3> QED BY <1>0, <1>3, <3>1, <3>2, <3>3, <3>4, <3>5 DEF StatusOf, Active
  <2> QED BY <2>1, <2>2
<1>b. /\ \A s \in Statuses :
              LET e == WithStatus(state, m, s)
              IN  /\ e \in Documents /\ e.status[m] = s /\ e.permission = state.permission
                  /\ e.generation = state.generation
                  /\ \A n \in Messages \ {m} : e.status[n] = state.status[n]
  BY <1>0, StatusEdits
<1>c. ASSUME queue # <<>>, NEW k \in RunKinds, Head(queue) = Section(k, m)
      PROVE  Section(k, m) \in Queued
  BY <1>c, TailQueue, QueueTyped DEF Queued
<1>4. CASE BeginAccept(m)
  <2>1. phase[m] = "prepared" /\ m \notin terminal /\ state.status[m] = "none"
    <3>1. Section("accept", m) \in Queued /\ Waits = Queued
      BY <1>4, <1>c DEF BeginAccept, RunKinds, Waits, Queued
    <3> QED BY <1>0, <3>1 DEF Placed, StatusOf, Launched
  <2>2. CASE bornIn[m] = state.generation
    BY <1>0, <1>b, <1>2, <1>4, <2>1, <2>2 DEF BeginAccept, RunKinds
  <2>3. CASE bornIn[m] # state.generation
    <3>1. /\ queue # <<>> /\ queue' = Tail(queue) \o <<>> /\ ~saving'
          /\ UNCHANGED <<state, disk, bornIn, aborted, terminal, closing, host>>
          /\ Goes(m, "over") /\ Settled(m)
      BY <1>4, <2>1, <2>3 DEF BeginAccept, Skip, Settled
    <3> QED BY <1>3, <2>1, <3>1
  <2> QED BY <2>2, <2>3
<1>5. CASE EndAccept(m)
  <2>1. Saved(<<>>) /\ Goes(m, "waiting")
    BY <1>5 DEF EndAccept, Fails
  <2>2. phase[m] = "prepared"
    BY <1>0, <1>5, <1>c DEF EndAccept, RunKinds, Placed
  <2> QED BY <1>0, <1>3, <1>5, <2>1, <2>2 DEF EndAccept, Saved
<1>6. CASE BeginStart(m)
  <2>1. phase[m] = "starting" /\ m \notin terminal
    BY <1>0, <1>6, <1>c DEF BeginStart, RunKinds, Placed
  <2> QED BY <1>0, <1>b, <1>2, <1>6, <2>1 DEF BeginStart, RunKinds, Active
<1>7. CASE EndStart(m)
  <2>1. Saved(<<>>) /\ Goes(m, "working")
    BY <1>7 DEF EndStart, Fails
  <2>2. phase[m] = "starting"
    BY <1>0, <1>7, <1>c DEF EndStart, RunKinds, Placed
  <2> QED BY <1>0, <1>3, <1>7, <2>1, <2>2 DEF EndStart, Saved
<1>8. CASE BeginComplete(m)
  <2> DEFINE d == [WithStatus(state, m, "complete") EXCEPT !.replied = @ \cup {m}]
  <2>1. /\ d.status[m] = "complete" /\ d.permission = state.permission
        /\ d.generation = state.generation
        /\ \A n \in Messages \ {m} : d.status[n] = state.status[n]
    BY <1>0, StatusEdits
  <2>2. phase[m] = "recording"
    BY <1>0, <1>8, <1>c DEF BeginComplete, RunKinds, Placed
  <2>3. CASE Current(m)
    <3>1. /\ Edit(d) /\ queue # <<>> /\ ~saving /\ Head(queue) = Section("complete", m)
          /\ UNCHANGED <<phase, bornIn, aborted, terminal, closing, host>>
      BY <1>8, <2>3 DEF BeginComplete
    <3> HIDE DEF d
    <3> QED BY <1>0, <1>2, <2>1, <3>1 DEF RunKinds
  <2>4. CASE ~Current(m)
    <3>1. /\ queue # <<>> /\ queue' = Tail(queue) \o <<Section("interrupt", m)>> /\ ~saving'
          /\ UNCHANGED <<state, disk, phase, bornIn, aborted, terminal, closing, host>>
      BY <1>8, <2>4 DEF BeginComplete, Skip
    <3> QED BY <1>3, <2>2, <2>4, <3>1
  <2> QED BY <2>3, <2>4
<1>9. CASE BeginFail(m)
  BY <1>0, <1>b, <1>2, <1>9 DEF BeginFail, RunKinds
<1>10. CASE BeginInterrupt(m)
  <2>1. phase[m] \in {"starting", "recording"} /\ Section("interrupt", m) \in Queued
    BY <1>0, <1>10, <1>c DEF BeginInterrupt, RunKinds, Placed
  <2>2. CASE ~closing /\ ~Current(m) /\ Interruptible(m)
    BY <1>0, <1>b, <1>2, <1>10, <2>2 DEF BeginInterrupt, RunKinds
  <2>3. CASE ~(~closing /\ ~Current(m) /\ Interruptible(m))
    <3>1. ~closing => ~Current(m)
      BY <1>0, <2>1 DEF StatusOf, Current
    <3>2. ~closing => Settled(m)
      BY <1>0, <2>3, <3>1 DEF Interruptible, StatusOf, Settled
    <3>3. /\ queue # <<>> /\ queue' = Tail(queue) \o <<>> /\ ~saving'
          /\ UNCHANGED <<state, disk, bornIn, aborted, terminal, closing, host>>
          /\ Goes(m, "over")
      BY <1>10, <2>3 DEF BeginInterrupt, Skip
    <3> QED BY <1>3, <2>1, <3>2, <3>3
  <2> QED BY <2>2, <2>3
<1>11. CASE EndRun(m)
  <2>1. PICK k \in {"complete", "fail", "interrupt"} : Settles(Section(k, m))
    BY <1>11 DEF EndRun
  <2>2. Saved(<<>>) /\ terminal' = terminal \cup {m} /\ Goes(m, "over")
    BY <1>11 DEF EndRun, Fails
  <2>3. phase[m] \in {"starting", "recording"}
    BY <1>0, <2>1, <1>c DEF RunKinds, Placed
  <2>4. Settled(m)
    BY <1>0, <2>1 DEF StatusOf
  <2> QED BY <1>0, <1>3, <1>11, <2>1, <2>2, <2>3, <2>4 DEF EndRun, Saved
<1>12. CASE Launch(m)
  <2>1. PICK k \in {"start", "interrupt"} : Enqueue(Section(k, m)) /\ (k = "interrupt" => ~Current(m))
    BY <1>12 DEF Launch
  <2>2. /\ phase[m] = "waiting" /\ Goes(m, "starting") /\ k \in Kinds
        /\ UNCHANGED <<state, disk, bornIn, aborted, terminal, closing, host>>
    BY <1>12, <2>1 DEF Launch, Enqueue, Kinds
  <2>3. ASSUME NEW n \in Messages \ {m}
        PROVE  StatusOf(n)'
    <3>1. QueueKept(n)
      BY <2>1, <2>2, QueueKeptEnqueue
    <3>2. Kept(n)
      BY <1>0, <2>2 DEF Kept, Goes
    <3> QED BY <1>a, <3>1, <3>2
  <2>4. StatusOf(m)'
    <3>1. /\ Section("accept", m) \in Waits' => Section("accept", m) \in Waits
          /\ Section("interrupt", m) \in Queued' => Section("interrupt", m) \in Queued \/ k = "interrupt"
          /\ saving' = saving /\ (saving => Head(queue') = Head(queue))
      BY <2>1, <2>2, WaitsEnqueue, SectionsApart, SectionKinds DEF Kinds
    <3>2. ~closing /\ ~Current(m) => m \in aborted \/ bornIn[m] < state.generation
      BY <1>0, <2>2 DEF Current, StatusOf
    <3>3. Settled(m)' <=> Settled(m)
      BY <2>2 DEF Settled
    <3> QED BY <1>0, <2>1, <2>2, <3>1, <3>2, <3>3 DEF StatusOf, Active, Goes
  <2> QED BY <2>3, <2>4
<1> QED BY <1>4, <1>5, <1>6, <1>7, <1>8, <1>9, <1>10, <1>11, <1>12 DEF Deliver

\* those of a permission, of steering and of a stop do,
LEMMA StatusControl ==
  ASSUME TypeOK, TypeOK', PlaceInv, Asking, StatusInv, failures = 0, failures' = 0,
         NEW m \in Messages, Control(m)
  PROVE  \A n \in Messages : StatusOf(n)'
<1> USE DEF process, runs, lock, Begins, Settles
<1>0. /\ state \in Documents /\ (saving => queue # <<>>)
      /\ state.generation \in Int /\ bornIn[m] \in Int
      /\ phase \in [Messages -> {"none", "prepared", "waiting", "starting", "working",
                               "asking", "recording", "over"}]
      /\ \A n \in Messages : StatusOf(n)
      /\ Placed(m)
      /\ {"queued", "running", "needs_input", "complete", "cancelled", "failed", "error"} \subseteq Statuses
  BY BoundAssumption, SectionKinds
     DEF TypeOK, Documents, StatusInv, PlaceInv, Statuses, Final
<1>a. \A n \in Messages \ {m} : QueueKept(n) /\ Kept(n) => StatusOf(n)'
  BY <1>0, StatusKept
<1>b. /\ \A s \in Statuses :
              LET e == WithStatus(state, m, s)
              IN  /\ e \in Documents /\ e.status[m] = s /\ e.permission = state.permission
                  /\ e.generation = state.generation
                  /\ \A n \in Messages \ {m} : e.status[n] = state.status[n]
  BY <1>0, StatusEdits
<1>c. ASSUME queue # <<>>, NEW k \in Kinds \ RunKinds, Head(queue) = Section(k, m)
      PROVE  Launched(m) /\ Section("accept", m) \notin Queued
  <2>1. Section(k, m) \in Queued
    BY <1>c, TailQueue, QueueTyped DEF Queued
  <2> QED BY <1>0, <2>1 DEF Placed, Launched
<1>2. ASSUME NEW k \in Kinds \ RunKinds, queue # <<>>, ~saving, Head(queue) = Section(k, m),
             NEW d, Edit(d), d.generation = state.generation,
             \A n \in Messages \ {m} : d.status[n] = state.status[n] /\ d.permission[n] = state.permission[n],
             d.status[m] \notin {"queued", "running"} \/ d.permission[m] = "resolved",
             UNCHANGED <<phase, bornIn, aborted, terminal, closing, host>>
      PROVE  \A n \in Messages : StatusOf(n)'
  <2>1. ASSUME NEW n \in Messages \ {m}
        PROVE  StatusOf(n)'
    <3>1. QueueKept(n)
      BY <1>2, QueueKeptEdit
    <3>2. Kept(n)
      BY <1>0, <1>2 DEF Kept, Edit
    <3> QED BY <1>a, <3>1, <3>2
  <2>2. StatusOf(m)'
    <3>1. /\ Queued' = Queued /\ Waits = Queued /\ Waits' \subseteq Waits
          /\ Head(queue') = Section(k, m)
      BY <1>2, WaitsEdit
    <3>2. Launched(m) /\ Section("accept", m) \notin Queued
      BY <1>2, <1>c
    <3>3. Settled(m)' /\ state'.generation = state.generation
      BY <1>2 DEF Settled, Edit
    <3> QED BY <1>0, <1>2, <3>1, <3>2, <3>3 DEF StatusOf, Launched
  <2> QED BY <2>1, <2>2
<1>3. ASSUME queue # <<>>, queue' = Tail(queue) \o <<>>, ~saving',
             NEW k \in Kinds \ RunKinds, Head(queue) = Section(k, m),
             UNCHANGED <<state, bornIn, aborted, closing, host>>,
             disk' \in {disk, state}, phase' = phase \/ Resume(m),
             terminal' = terminal \/ (terminal' = terminal \cup {m} /\ Settled(m))
      PROVE  \A n \in Messages : StatusOf(n)'
  <2>1. ASSUME NEW n \in Messages \ {m}
        PROVE  StatusOf(n)'
    <3>1. QueueKept(n)
      BY <1>3, QueueKeptLeave
    <3>2. Kept(n)
      BY <1>0, <1>3 DEF Kept, Resume, Goes
    <3> QED BY <1>a, <3>1, <3>2
  <2>2. StatusOf(m)'
    <3>1. /\ Section("accept", m) \in Waits' => Section("accept", m) \in Waits
          /\ Section("interrupt", m) \in Queued' => Section("interrupt", m) \in Queued
      BY <1>3, WaitsLeave
    <3>2. Launched(m) /\ Section("accept", m) \notin Queued
      BY <1>3, <1>c
    <3>3. Settled(m)' <=> Settled(m)
      BY <1>3 DEF Settled
    <3>4. phase'[m] = phase[m] \/ (phase[m] = "asking" /\ phase'[m] = "working")
      BY <1>0, <1>3 DEF Resume, Goes
    <3> QED BY <1>0, <1>3, <3>1, <3>2, <3>3, <3>4 DEF StatusOf, Active, Launched
  <2> QED BY <2>1, <2>2
<1>4. "ask" \in Kinds \ RunKinds /\ "answer" \in Kinds \ RunKinds /\ "steer" \in Kinds \ RunKinds
      /\ "stop" \in Kinds \ RunKinds /\ "cancel" \in Kinds \ RunKinds
  BY DEF Kinds, RunKinds
<1>d. \A s \in Statuses, p \in {"pending", "resolved"} :
              LET e == [WithStatus(state, m, s) EXCEPT !.permission[m] = p]
              IN  /\ e.status[m] = s /\ e.permission[m] = p /\ e.generation = state.generation
                  /\ \A n \in Messages \ {m} : /\ e.status[n] = state.status[n]
                                               /\ e.permission[n] = state.permission[n]
  <2>1. state \in Documents
    BY <1>0
  <2>2. ASSUME NEW s \in Statuses, NEW p \in {"pending", "resolved"}
        PROVE  LET e == [WithStatus(state, m, s) EXCEPT !.permission[m] = p]
               IN  /\ e.status[m] = s /\ e.permission[m] = p /\ e.generation = state.generation
                   /\ \A n \in Messages \ {m} : /\ e.status[n] = state.status[n]
                                                /\ e.permission[n] = state.permission[n]
    BY <2>1, StatusEdits
  <2> QED BY <2>2
<1>5. CASE BeginAsk(m)
  <2> DEFINE d == [WithStatus(state, m, "needs_input") EXCEPT !.permission[m] = "pending"]
  <2>1. CASE Edit(d) /\ UNCHANGED phase
    <3>1. /\ d.status[m] = "needs_input" /\ d.generation = state.generation
          /\ \A n \in Messages \ {m} : d.status[n] = state.status[n] /\ d.permission[n] = state.permission[n]
      BY <1>0, <1>d
    <3>2. queue # <<>> /\ ~saving /\ Head(queue) = Section("ask", m)
          /\ UNCHANGED <<bornIn, aborted, terminal, closing, host>>
      BY <1>5 DEF BeginAsk
    <3> HIDE DEF d
    <3> QED BY <1>2, <1>4, <2>1, <3>1, <3>2
  <2>2. CASE Skip(<<>>) /\ Resume(m)
    BY <1>3, <1>4, <1>5, <2>2 DEF BeginAsk, Skip
  <2> QED BY <1>5, <2>1, <2>2 DEF BeginAsk
<1>6. CASE EndAsk(m)
  <2>1. Saved(<<>>) /\ UNCHANGED phase
    BY <1>6 DEF EndAsk, Fails
  <2> QED BY <1>0, <1>3, <1>4, <1>6, <2>1 DEF EndAsk, Saved
<1>7. CASE BeginAnswer(m)
  <2> DEFINE d == [WithStatus(state, m, "running") EXCEPT !.permission[m] = "resolved"]
  <2>1. CASE Edit(d)
    <3>1. /\ d.permission[m] = "resolved" /\ d.generation = state.generation
          /\ \A n \in Messages \ {m} : d.status[n] = state.status[n] /\ d.permission[n] = state.permission[n]
      BY <1>0, <1>d
    <3>2. queue # <<>> /\ ~saving /\ Head(queue) = Section("answer", m)
          /\ UNCHANGED <<phase, bornIn, aborted, terminal, closing, host>>
      BY <1>7 DEF BeginAnswer
    <3> HIDE DEF d
    <3> QED BY <1>2, <1>4, <2>1, <3>1, <3>2
  <2>2. CASE Skip(<<>>)
    BY <1>3, <1>4, <1>7, <2>2 DEF BeginAnswer, Skip
  <2> QED BY <1>7, <2>1, <2>2 DEF BeginAnswer
<1>8. CASE EndAnswer(m)
  <2>1. Saved(<<>>) /\ Resume(m)
    BY <1>8 DEF EndAnswer, Fails
  <2> QED BY <1>0, <1>3, <1>4, <1>8, <2>1 DEF EndAnswer, Saved
<1>9. CASE BeginSteer(m)
  <2>1. CASE Edit(WithStatus(state, m, "cancelled"))
    BY <1>0, <1>2, <1>4, <1>b, <1>9, <2>1 DEF BeginSteer
  <2>2. CASE Skip(<<>>)
    BY <1>3, <1>4, <1>9, <2>2 DEF BeginSteer, Skip
  <2> QED BY <1>9, <2>1, <2>2 DEF BeginSteer
<1>10. CASE EndSteer(m)
  <2>1. Saved(<<>>) /\ terminal' = terminal \cup {m}
    BY <1>10 DEF EndSteer, Fails
  <2>2. Settled(m)
    BY <1>0, <1>10 DEF EndSteer, StatusOf
  <2> QED BY <1>0, <1>3, <1>4, <1>10, <2>1, <2>2 DEF EndSteer, Saved
<1>11. CASE BeginOverwrite(m)
  <2>1. PICK s \in {"cancelled", "error"}, k \in {"cancel", "stop"} :
             Edit(WithStatus(state, m, s)) /\ Begins(Section(k, m))
    BY <1>11 DEF BeginOverwrite
  <2> QED BY <1>0, <1>2, <1>4, <1>b, <1>11, <2>1 DEF BeginOverwrite
<1>12. CASE EndOverwrite(m)
  <2>1. Saved(<<>>)
    BY <1>12 DEF EndOverwrite, Fails
  <2>2. PICK k \in {"cancel", "stop"} : Settles(Section(k, m))
    BY <1>12 DEF EndOverwrite
  <2> QED BY <1>0, <1>3, <1>4, <1>12, <2>1, <2>2 DEF EndOverwrite, Saved
<1>13. CASE Cancelled(m)
  <2>0. cancelling[m] \in {"stop", "cancel"}
    BY <1>13 DEF Cancelled, TypeOK
  <2>1. PICK k \in {"stop", "cancel"} : Enqueue(Section(k, m))
    BY <1>13, <2>0 DEF Cancelled
  <2>2. UNCHANGED <<state, disk, phase, bornIn, aborted, terminal, closing, host>>
    BY <1>13, <2>1 DEF Cancelled, Enqueue
  <2>3. ASSUME NEW n \in Messages \ {m}
        PROVE  StatusOf(n)'
    <3>1. QueueKept(n)
      BY <1>4, <2>1, QueueKeptEnqueue
    <3>2. Kept(n)
      BY <1>0, <2>2 DEF Kept
    <3> QED BY <1>a, <3>1, <3>2
  <2>4. StatusOf(m)'
    <3>1. QueueKept(m)
      BY <1>4, <2>1, WaitsEnqueue, SectionsApart, SectionKinds DEF Kinds, QueueKept
    <3>2. Kept(m)
      BY <1>0, <2>2 DEF Kept
    <3> QED BY <1>0, <3>1, <3>2, StatusKept
  <2> QED BY <2>3, <2>4
<1> QED BY <1>5, <1>6, <1>7, <1>8, <1>9, <1>10, <1>11, <1>12, <1>13 DEF Control

\* the steps of the user and of the agent,
LEMMA StatusUser ==
  ASSUME TypeOK, TypeOK', PlaceInv, Asking, StatusInv, failures = 0, failures' = 0,
         NEW m \in Messages, User(m) \/ Agent(m)
  PROVE  \A n \in Messages : StatusOf(n)'
<1> USE DEF process, runs, lock
<1>0. /\ state \in Documents
      /\ state.generation \in Int /\ bornIn \in [Messages -> 0..MaxResets]
      /\ phase \in [Messages -> {"none", "prepared", "waiting", "starting", "working",
                               "asking", "recording", "over"}]
      /\ \A n \in Messages : StatusOf(n)
      /\ Placed(m) /\ saving \in BOOLEAN
  BY BoundAssumption, SectionKinds
     DEF TypeOK, Documents, StatusInv, PlaceInv, Statuses, Final
<1>a. \A n \in Messages : QueueKept(n) /\ Kept(n) => StatusOf(n)'
  BY <1>0, StatusKept
<1>1. ASSUME NEW k \in Kinds, Enqueue(Section(k, m)), UNCHANGED <<terminal, closing, host>>,
             \A n \in Messages \ {m} : phase'[n] = phase[n] /\ bornIn'[n] = bornIn[n],
             aborted \subseteq aborted',
             /\ k # "accept" => (Section("accept", m) \in Waits' => Section("accept", m) \in Waits)
             /\ k # "interrupt" => (Section("interrupt", m) \in Queued' => Section("interrupt", m) \in Queued)
             /\ saving' = saving /\ (saving => Head(queue') = Head(queue))
             => StatusOf(m)'
      PROVE  \A n \in Messages : StatusOf(n)'
  <2>1. ASSUME NEW n \in Messages \ {m}
        PROVE  StatusOf(n)'
    <3>1. QueueKept(n)
      BY <1>1, QueueKeptEnqueue
    <3>2. Kept(n)
      BY <1>0, <1>1 DEF Kept, Enqueue
    <3> QED BY <1>a, <3>1, <3>2
  <2>2. StatusOf(m)'
    BY <1>1, WaitsEnqueue, SectionsApart, SectionKinds DEF Kinds
  <2> QED BY <2>1, <2>2
<1>2. CASE Prepare(m)
  <2>1. /\ Enqueue(Section("accept", m)) /\ "accept" \in Kinds
        /\ UNCHANGED <<state, disk, aborted, terminal, closing, host>>
        /\ \A n \in Messages \ {m} : phase'[n] = phase[n] /\ bornIn'[n] = bornIn[n]
        /\ phase[m] = "none" /\ phase'[m] = "prepared" /\ bornIn'[m] = state.generation
    BY <1>0, <1>2 DEF Prepare, Enqueue, Goes, Kinds
  <2>2. ASSUME Section("interrupt", m) \in Queued' => Section("interrupt", m) \in Queued
        PROVE  StatusOf(m)'
    <3>1. Section("interrupt", m) \notin Queued'
      BY <1>0, <2>1, <2>2 DEF Placed
    <3>2. state.status[m] = "none" /\ m \notin terminal
      BY <1>0, <2>1 DEF StatusOf, Placed, Launched
    <3>3. Settled(m)'
      BY <2>1, <3>2 DEF Settled
    <3> QED BY <1>0, <2>1, <3>1, <3>2, <3>3 DEF StatusOf
  <2> QED BY <1>1, <2>1, <2>2
<1>3. CASE Stop(m)
  BY <1>0, <1>a, <1>3 DEF Stop, QueueKept, Kept, Queued, Waits
<1>4. CASE Answer(m) \/ Steer(m)
  <2>1. PICK k \in {"answer", "steer"} : Enqueue(Section(k, m))
    BY <1>4 DEF Answer, Steer
  <2>2. /\ UNCHANGED <<state, disk, phase, bornIn, terminal, closing, host>>
        /\ aborted \subseteq aborted' /\ k \in Kinds
    BY <1>4, <2>1 DEF Answer, Steer, Enqueue, Kinds
  <2>3. Kept(m)
    BY <1>0, <2>2 DEF Kept
  <2>4. QueueKept(m)
    BY <2>1, <2>2, WaitsEnqueue, SectionsApart, SectionKinds DEF Kinds, QueueKept
  <2> QED BY <1>1, <1>a, <2>1, <2>2, <2>3, <2>4
<1>5. CASE Ask(m) \/ TurnEnds(m)
  <2>1. PICK k \in {"ask", "complete", "fail", "interrupt"} :
             Enqueue(Section(k, m)) /\ (k = "interrupt" => ~Current(m))
    BY <1>5 DEF Ask, TurnEnds, Ending
  <2>2. /\ UNCHANGED <<state, disk, bornIn, aborted, terminal, closing, host>>
        /\ \A n \in Messages \ {m} : phase'[n] = phase[n]
        /\ phase[m] \in {"working", "asking"} /\ phase'[m] \in {"asking", "recording"}
        /\ k \in Kinds
    BY <1>0, <1>5, <2>1 DEF Ask, TurnEnds, Enqueue, Goes, Kinds
  <2>3. ASSUME Section("accept", m) \in Waits' => Section("accept", m) \in Waits,
               k # "interrupt" => (Section("interrupt", m) \in Queued' => Section("interrupt", m) \in Queued),
               saving' = saving, saving => Head(queue') = Head(queue)
        PROVE  StatusOf(m)'
    <3>1. ~closing /\ ~Current(m) => m \in aborted \/ bornIn[m] < state.generation
      BY <1>0, <2>2 DEF Current, StatusOf
    <3>2. Settled(m)' <=> Settled(m)
      BY <2>2 DEF Settled
    <3> QED BY <1>0, <2>1, <2>2, <2>3, <3>1, <3>2 DEF StatusOf, Active
  <2> QED BY <1>1, <2>1, <2>2, <2>3
<1> QED BY <1>2, <1>3, <1>4, <1>5 DEF User, Agent

\* and /new, close(), death and restart.
LEMMA StatusHosting ==
  ASSUME TypeOK, TypeOK', PlaceInv, DownInv, StatusInv, failures = 0, failures' = 0,
         AskReset \/ AskClose \/ Hosting \/ Crash
  PROVE  \A n \in Messages : StatusOf(n)'
<1> USE DEF process, runs, lock, Begins, Settles
<1>0. /\ state \in Documents /\ disk \in Documents /\ (saving => queue # <<>>)
      /\ state.generation \in Int /\ bornIn \in [Messages -> 0..MaxResets]
      /\ phase \in [Messages -> {"none", "prepared", "waiting", "starting", "working",
                               "asking", "recording", "over"}]
      /\ \A n \in Messages : StatusOf(n)
      /\ \A n \in Messages : Placed(n)
      /\ saving \in BOOLEAN /\ failures \in Int
  BY BoundAssumption, SectionKinds DEF TypeOK, Documents, StatusInv, PlaceInv
<1>a. \A n \in Messages : QueueKept(n) /\ Kept(n) => StatusOf(n)'
  BY <1>0, StatusKept
<1>b. \A d \in Documents, n \in Messages :
         LET e == SettleOpen(d)
         IN  /\ e.status[n] \notin {"queued", "running"}
             /\ d.status[n] \notin {"queued", "running"} => e.status[n] = d.status[n]
  BY DEF Documents, SettleOpen
<1>1. CASE AskReset \/ AskClose \/ CloseIdle
  <2>1. PICK s \in {Reset, Close, Shutdown} : Enqueue(s)
    BY <1>1 DEF AskReset, AskClose, CloseIdle
  <2>2. /\ \A n \in Messages, k \in Kinds : Section(k, n) # s
        /\ s \in Sections
    BY SectionsApart, SectionKinds
  <2>3. \A n \in Messages : QueueKept(n)
    BY <2>1, <2>2, WaitsEnqueue DEF QueueKept, Kinds
  <2>4. \A n \in Messages : Kept(n)
    BY <1>0, <1>1, <2>1 DEF AskReset, AskClose, CloseIdle, Enqueue, Kept
  <2> QED BY <1>a, <2>3, <2>4
<1>2. CASE BeginReset \/ BeginShutdown
  <2>1. /\ queue # <<>> /\ ~saving /\ Head(queue) \in {Reset, Shutdown}
        /\ UNCHANGED <<runs, process>>
    BY <1>2 DEF BeginReset, BeginShutdown
  <2>2. PICK d : /\ Edit(d) /\ d.status = SettleOpen(state).status
                 /\ d.generation \in {state.generation, state.generation + 1}
                 /\ d.permission = state.permission
    <3>1. SettleOpen(state) \in Documents /\ SettleOpen(state).generation = state.generation
          /\ SettleOpen(state).permission = state.permission
      BY <1>0, EditsTyped
    <3>2. \A e \in Documents : LET f == [e EXCEPT !.generation = @ + 1]
                               IN  f.status = e.status /\ f.permission = e.permission /\ f.generation = e.generation + 1
      BY DEF Documents
    <3>3. CASE BeginReset
      BY <3>1, <3>2, <3>3 DEF BeginReset
    <3>4. CASE BeginShutdown
      BY <3>1, <3>4 DEF BeginShutdown
    <3> QED BY <1>2, <3>3, <3>4
  <2>3. /\ Queued' = Queued /\ Waits = Queued /\ Waits' \subseteq Waits
        /\ Head(queue') = Head(queue)
    BY <2>1, <2>2, WaitsEdit
  <2>4. ASSUME NEW n \in Messages
        PROVE  StatusOf(n)'
    <3>1. /\ state'.status[n] \notin {"queued", "running"}
          /\ state.status[n] \notin {"queued", "running"} => state'.status[n] = state.status[n]
          /\ state'.permission = state.permission /\ state.generation <= state'.generation
          /\ disk' = disk
      BY <1>0, <1>b, <2>2 DEF Edit
    <3>2. Settled(n)'
      BY <3>1 DEF Settled
    <3>3. state'.generation \in Int /\ bornIn[n] \in Int
      BY <1>0, BoundAssumption DEF TypeOK, Documents
    <3> QED BY <1>0, <2>1, <2>3, <3>1, <3>2, <3>3 DEF StatusOf
  <2> QED BY <2>4
<1>3. CASE EndReset
  <2>1. /\ Saved(<<>>) /\ queue # <<>> /\ saving
        /\ phase' = [m \in Messages |-> IF phase[m] = "waiting" THEN "over" ELSE phase[m]]
        /\ aborted' = aborted \cup {m \in Messages : Active(m)}
        /\ UNCHANGED <<bornIn, terminal, process>>
    BY <1>0, <1>3 DEF EndReset, Fails
  <2>2. ASSUME NEW n \in Messages
        PROVE  StatusOf(n)'
    <3>1. Settled(n)
      BY <1>0, <1>3 DEF EndReset, StatusOf
    <3>2. UNCHANGED state /\ disk' = state /\ ~saving' /\ Settled(n)'
      BY <2>1, <3>1 DEF Saved, Settled
    <3>3. /\ Section("accept", n) \in Waits' => Section("accept", n) \in Waits
          /\ Section("interrupt", n) \in Queued' => Section("interrupt", n) \in Queued
      BY <2>1, WaitsLeave DEF Saved
    <3>4. /\ phase[n] # "waiting" => phase'[n] = phase[n]
          /\ phase[n] = "waiting" => phase'[n] = "over"
      BY <1>0, <2>1
    <3> QED BY <1>0, <2>1, <3>1, <3>2, <3>3, <3>4 DEF StatusOf
  <2> QED BY <2>2
<1>4. CASE BeginClose
  <2>1. /\ queue # <<>> /\ ~saving /\ Head(queue) = Close /\ Edit(InterruptPermissions(state))
        /\ UNCHANGED <<runs, process>>
    BY <1>4 DEF BeginClose
  <2>2. /\ InterruptPermissions(state).status = state.status
        /\ InterruptPermissions(state).generation = state.generation
        /\ \A n \in Messages : InterruptPermissions(state).permission[n] = "resolved"
                                <=> state.permission[n] = "resolved"
    BY <1>0 DEF Documents, InterruptPermissions
  <2>3. /\ Queued' = Queued /\ Waits = Queued /\ Waits' \subseteq Waits
        /\ Head(queue') = Close
    BY <2>1, WaitsEdit
  <2>4. \A n \in Messages, k \in Kinds : Section(k, n) # Close /\ Reset # Close
    BY SectionsApart
  <2>5. ASSUME NEW n \in Messages
        PROVE  StatusOf(n)'
    <3>1. state'.status = state.status /\ disk' = disk /\ (Settled(n)' <=> Settled(n))
          /\ state'.generation = state.generation
      BY <2>1, <2>2 DEF Edit, Settled
    <3> QED BY <1>0, <2>1, <2>3, <2>4, <3>1 DEF StatusOf, Active, Kinds
  <2> QED BY <2>5
<1>5. CASE EndClose
  <2>1. /\ Saved(<<>>) /\ queue # <<>> /\ saving
        /\ phase' = [m \in Messages |-> IF phase[m] = "asking" THEN "working" ELSE phase[m]]
        /\ aborted' = aborted \cup {m \in Messages : Active(m)}
        /\ UNCHANGED <<bornIn, terminal, process>>
    BY <1>0, <1>5 DEF EndClose
  <2>2. ASSUME NEW n \in Messages
        PROVE  StatusOf(n)'
    <3>2. UNCHANGED state /\ disk' = state /\ ~saving' /\ (Settled(n)' <=> Settled(n))
      BY <2>1 DEF Saved, Settled
    <3>3. /\ Section("accept", n) \in Waits' => Section("accept", n) \in Waits
          /\ Section("interrupt", n) \in Queued' => Section("interrupt", n) \in Queued
      BY <2>1, WaitsLeave DEF Saved
    <3>4. /\ phase[n] # "asking" => phase'[n] = phase[n]
          /\ phase[n] = "asking" => phase'[n] = "working"
      BY <1>0, <2>1
    <3> QED BY <1>0, <2>1, <3>2, <3>3, <3>4 DEF StatusOf, Active
  <2> QED BY <2>2
<1>6. CASE EndShutdown \/ Crash
  <2>1. /\ queue' = <<>> /\ ~saving' /\ state' = Empty /\ terminal' = {} /\ host' = "down"
        /\ disk' \in {disk, state}
        /\ phase' = [m \in Messages |-> IF phase[m] = "none" THEN "none" ELSE "over"]
    BY <1>6 DEF EndShutdown, Crash, Exit
  <2>2. Waits' = {} /\ Queued' = {}
    BY <2>1 DEF Waits, Queued, Members
  <2>3. ASSUME NEW n \in Messages
        PROVE  StatusOf(n)'
    <3>1. /\ state'.status[n] = "none" /\ phase'[n] \in {"none", "over"}
          /\ phase'[n] = "none" => phase[n] = "none"
      BY <1>0, <2>1 DEF Empty
    <3>2. phase'[n] = "none" => disk'.status[n] = "none"
      BY <1>0, <2>1, <3>1 DEF StatusOf
    <3>3. Settled(n)' /\ phase'[n] \in {"none", "over"}
      BY <3>1 DEF Settled
    <3>4. /\ host' # "up" /\ n \notin terminal' /\ ~saving'
          /\ Section("accept", n) \notin Waits' /\ Section("interrupt", n) \notin Queued'
      BY <2>1, <2>2
    <3> QED BY <3>1, <3>2, <3>3, <3>4 DEF StatusOf
  <2> QED BY <2>3
<1>7. CASE Restart
  <2>1. queue' = <<>> /\ ~saving' /\ disk' = state' /\ UNCHANGED runs
    BY <1>0, <1>7 DEF Restart, DownInv
  <2>2. Waits' = {} /\ Queued' = {}
    BY <2>1 DEF Waits, Queued, Members
  <2>3. InterruptPermissions(disk) \in Documents /\ InterruptPermissions(disk).status = disk.status
    BY <1>0 DEF Documents, InterruptPermissions
  <2>4. ASSUME NEW n \in Messages
        PROVE  StatusOf(n)'
    <3>1. /\ state'.status[n] \notin {"queued", "running"}
          /\ disk.status[n] \notin {"queued", "running"} => state'.status[n] = disk.status[n]
      BY <1>7, <1>b, <2>3 DEF Restart
    <3>2. phase'[n] = phase[n] /\ phase[n] \in {"none", "over"}
      BY <1>7, <2>1 DEF Restart, DownInv
    <3>3. Settled(n)'
      BY <3>1 DEF Settled
    <3>4. phase[n] = "none" => disk.status[n] = "none"
      BY <1>0 DEF StatusOf
    <3>5. phase'[n] = "none" => state'.status[n] = "none" /\ disk'.status[n] = "none"
      BY <2>1, <3>1, <3>2, <3>4
    <3> QED BY <2>1, <2>2, <3>2, <3>3, <3>5 DEF StatusOf
  <2> QED BY <2>4
<1> QED BY <1>1, <1>2, <1>3, <1>4, <1>5, <1>6, <1>7 DEF Hosting

\* A persist that rejected is not forgotten.
LEMMA FailuresKept ==
  ASSUME TypeOK, [Next]_vars, failures' = 0
  PROVE  failures = 0
<1> USE DEF process, runs, lock, Enqueue, Edit, Skip, Saved, Fails
<1>0. failures \in Nat
  BY BoundAssumption DEF TypeOK
<1>1. ASSUME NEW m \in Messages, Deliver(m)
      PROVE  failures' = failures \/ failures' = failures + 1
  BY <1>1
     DEF Deliver, BeginAccept, EndAccept, Launch, BeginStart, EndStart, BeginComplete,
         BeginFail,
       BeginInterrupt, EndRun
<1>2. ASSUME NEW m \in Messages, Control(m)
      PROVE  failures' = failures \/ failures' = failures + 1
  BY <1>2 DEF Control, BeginAsk, EndAsk, BeginAnswer, EndAnswer, BeginSteer, EndSteer,
      Cancelled, BeginOverwrite, EndOverwrite
<1>3. ASSUME NEW m \in Messages, User(m) \/ Agent(m)
      PROVE  failures' = failures
  BY <1>3 DEF User, Agent, Prepare, Answer, Stop, Steer, Ask, TurnEnds
<1>4. CASE AskReset \/ AskClose \/ Hosting \/ Crash
  <2>1. failures' = failures \/ failures' = failures + 1
    BY <1>4 DEF AskReset, AskClose, Hosting, BeginReset, EndReset, BeginClose, EndClose,
      CloseIdle, BeginShutdown, EndShutdown, Crash, Exit, Restart
  <2> QED BY <1>0, <2>1
<1>5. CASE UNCHANGED vars
  BY <1>5 DEF vars
<1> QED BY <1>0, <1>1, <1>2, <1>3, <1>4, <1>5 DEF Next

\* Until a persist rejects, every step keeps every status in step with its run.
LEMMA StatusNext ==
  ASSUME TypeOK, TypeOK', PlaceInv, DownInv, Asking, StatusInv, [Next]_vars
  PROVE  StatusInv'
<1> SUFFICES ASSUME failures' = 0
             PROVE  \A n \in Messages : StatusOf(n)'
    BY DEF StatusInv
<1>1. failures = 0
  BY FailuresKept
<1>2. CASE UNCHANGED vars
  BY <1>1, <1>2
     DEF vars, process, runs, lock, StatusInv, StatusOf, Settled, Active, Queued, Waits
<1> QED BY <1>1, <1>2, StatusDeliver, StatusControl, StatusUser, StatusHosting DEF Next

\* The strengthened invariant: the place of every section in the queue, the bounds and
\* the permissions are what the type invariant and the statuses rest on.
RunsInv == TypeOK /\ PlaceInv /\ DownInv /\ BoundInv /\ Asking /\ StatusInv

\* It holds of a new host.
LEMMA RunsInit == Init => RunsInv
<1> SUFFICES ASSUME Init
             PROVE  RunsInv
    OBVIOUS
<1>1. TypeOK
  <2>1. Empty \in Documents /\ 0 \in 0..MaxResets /\ 0 \in 0..MaxFailures /\ 0 \in 0..MaxCrashes
    BY BoundAssumption DEF Empty, Documents, Statuses
  <2>2. queue \in Seq(Sections)
    BY DEF Init
  <2>3. /\ phase \in [Messages -> {"none", "prepared", "waiting", "starting", "working",
                                   "asking", "recording", "over"}]
        /\ bornIn \in [Messages -> 0..MaxResets]
        /\ cancelling \in [Messages -> {"no", "stop", "cancel"}]
    BY <2>1 DEF Init
  <2>4. LockTyped /\ RunsTyped
    BY <2>1, <2>2, <2>3 DEF Init, LockTyped, RunsTyped
  <2> QED BY <2>4, TypeParts
<1>2. Queued = {} /\ Waits = {} /\ Ordered(queue)
  BY DEF Init, Queued, Waits, Members, Ordered
<1>3. PlaceInv /\ DownInv
  BY <1>2 DEF Init, PlaceInv, Placed, DownInv
<1>4. BoundInv /\ Asking
  BY <1>2 DEF Init, BoundInv, Asking, AskedInv, PermInv, Empty
<1>5. StatusInv
  BY <1>2 DEF Init, StatusInv, StatusOf, Settled, Empty
<1> QED BY <1>1, <1>3, <1>4, <1>5 DEF RunsInv

\* Every state is well typed, a complete message has its reply, what the client shows as
\* pending can be answered and, until a persist rejects or close() begins, an open
\* message has a run: whichever sections of accept, start, completion, failure, stop,
\* steering, permission, /new, close(), shutdown and death interleave.
THEOREM RunsTheorem == Spec => []RunsConsistent
<1>1. RunsInv /\ [Next]_vars => RunsInv'
  <2> SUFFICES ASSUME RunsInv, [Next]_vars
               PROVE  RunsInv'
      OBVIOUS
  <2>1. TypeOK /\ PlaceInv /\ DownInv /\ BoundInv /\ Asking /\ AskedInv /\ StatusInv
    BY DEF RunsInv, Asking
  <2>2. TypeOK' /\ PlaceInv' /\ DownInv' /\ BoundInv'
    BY <2>1, TypeNext, PlaceNext, DownNext, BoundNext
  <2>3. Asking'
    BY <2>1, AskingDeliver, AskingControl, AskingRest DEF Next
  <2>4. StatusInv'
    BY <2>1, <2>2, StatusNext
  <2> QED BY <2>2, <2>3, <2>4 DEF RunsInv
<1>2. RunsInv /\ IInv => RunsConsistent
  <2> SUFFICES ASSUME RunsInv, IInv
               PROVE  RunsConsistent
      OBVIOUS
  <2>1. TypeOK /\ CompleteHasReply
    BY DEF RunsInv, IInv, CompleteHasReply, Replied
  <2>2. PendingIsAnswerable
    BY DEF RunsInv, Asking, PermInv, PendingIsAnswerable
  <2>3. OpenHasARun
    BY DEF RunsInv, StatusInv, StatusOf, Settled, OpenHasARun
  <2> QED BY <2>1, <2>2, <2>3 DEF RunsConsistent
<1> QED BY RunsInit, Invariance, <1>1, <1>2, PTL DEF Spec

=============================================================================
