---------------------------- MODULE DirectMessage ----------------------------
(***************************************************************************)
(* A direct conversation with one Agent: what becomes of each message once *)
(* it is sent.  Its replyStatus is written by the run that works on it, by *)
(* the user who stops the run or interrupts it with another message, by    *)
(* permission requests and their answers, by /new (reset-dm), by close()   *)
(* and by the next start-up.  Each of them takes the FIFO lock, decides,   *)
(* edits the document and waits for persist(); what they decided from may  *)
(* be old by the time the lock is theirs.                                  *)
(*                                                                         *)
(* Here complete stands for silent too, and failed for timeout.            *)
(* The order in which waiting messages are taken, and what a rejected      *)
(* persist does to the ones still waiting, is in Conversation; here it      *)
(* rejects before state.json is replaced.                                  *)
(***************************************************************************)
EXTENDS Naturals, Sequences, SequencesExt

CONSTANTS
    Messages,     \* messages the user sends
    MaxResets,    \* bound on /new
    MaxFailures,  \* bound on persists that reject
    MaxCrashes    \* bound on process deaths and orderly stops

ASSUME BoundAssumption ==
    MaxResets \in Nat /\ MaxFailures \in Nat /\ MaxCrashes \in Nat

VARIABLES
    state, disk, previous,  \* the document: in memory, on disk, before the edit
    queue,                  \* stateChangeTail: sections in order, the holder first
    saving,                 \* the holder waits for its persist
    phase,                  \* where each message and its run stand
    bornIn,                 \* the generation its send was prepared in (dmSessionName)
    aborted,                \* runs whose abortController has fired
    cancelling,             \* runs whose session is being cancelled, and for what
    terminal,               \* runs with phase "terminal"
    resolvers,              \* permissionResolvers
    asked,                  \* runs that asked for permission, once each
    closing, host,
    failures, crashes

lock     == <<state, disk, previous, queue, saving>>
runs     == <<phase, bornIn, aborted, cancelling, terminal, resolvers, asked>>
process  == <<closing, host>>
vars     == <<lock, runs, process, failures, crashes>>

Final    == {"complete", "cancelled", "failed", "error"}
Statuses == {"none", "queued", "running", "needs_input"} \cup Final

\* generation stands for dmSessions: /new gives the conversation a new session.
Documents ==
    [status     : [Messages -> Statuses],
     replied    : SUBSET Messages,
     permission : [Messages -> {"none", "pending", "resolved", "interrupted"}],
     generation : 0..MaxResets]

Section(kind, m) == [kind |-> kind, message |-> m]
Reset    == [kind |-> "reset"]
Close    == [kind |-> "close"]
Shutdown == [kind |-> "shutdown"]

Kinds == {"accept", "start", "complete", "fail", "interrupt", "stop", "steer",
          "cancel", "ask", "answer"}

TypeOK ==
    /\ {state, disk, previous} \subseteq Documents
    /\ queue \in Seq({Section(kind, m) : kind \in Kinds, m \in Messages}
                       \cup {Reset, Close, Shutdown})
    /\ saving \in BOOLEAN /\ (saving => queue # <<>>)
    /\ phase \in [Messages -> {"none", "prepared", "waiting", "starting", "working",
                               "asking", "recording", "over"}]
    /\ bornIn \in [Messages -> 0..MaxResets]
    /\ aborted \subseteq Messages /\ terminal \subseteq Messages
    /\ cancelling \in [Messages -> {"no", "stop", "cancel"}]
    /\ resolvers \subseteq Messages /\ asked \subseteq Messages
    /\ closing \in BOOLEAN
    /\ host \in {"up", "down"}
    /\ failures \in 0..MaxFailures /\ crashes \in 0..MaxCrashes

Empty == [status     |-> [m \in Messages |-> "none"],
          replied    |-> {},
          permission |-> [m \in Messages |-> "none"],
          generation |-> 0]

Init ==
    /\ state = Empty /\ disk = Empty /\ previous = Empty
    /\ queue = <<>> /\ saving = FALSE
    /\ phase = [m \in Messages |-> "none"]
    /\ bornIn = [m \in Messages |-> 0]
    /\ cancelling = [m \in Messages |-> "no"]
    /\ aborted = {} /\ terminal = {} /\ resolvers = {} /\ asked = {}
    /\ closing = FALSE /\ host = "up"
    /\ failures = 0 /\ crashes = 0

Active(m) == phase[m] \in {"starting", "working", "asking", "recording"}

\* agentRunExecutionState
Current(m) ==
    /\ ~closing
    /\ m \notin aborted
    /\ bornIn[m] = state.generation

\* updateMessageReplyStatus writes the status whatever it was before.
WithStatus(document, m, status) == [document EXCEPT !.status[m] = status]

\* Slip: only a running message is settled.
SettleRunning(document) ==
    [document EXCEPT !.status =
        [m \in Messages |-> IF @[m] = "running" THEN "error" ELSE @[m]]]

SettleOpen(document) ==
    [document EXCEPT !.status =
        [m \in Messages |-> IF @[m] \in {"queued", "running"} THEN "error" ELSE @[m]]]

InterruptPermissions(document) ==
    [document EXCEPT !.permission =
        [m \in Messages |-> IF @[m] = "pending" THEN "interrupted" ELSE @[m]]]

-----------------------------------------------------------------------------
(* The lock.                                                               *)

Enqueue(section) ==
    /\ queue' = Append(queue, section)
    /\ UNCHANGED <<state, disk, previous, saving>>

\* The head of the queue runs up to its persist ...
Begins(section) == host = "up" /\ ~saving /\ queue # <<>> /\ Head(queue) = section

Edit(document) ==
    /\ previous' = state
    /\ state' = document
    /\ saving' = TRUE
    /\ UNCHANGED <<disk, queue, failures>>

\* ... or finds nothing to do, and its caller goes on to the sections in next.
Skip(next) ==
    /\ queue' = Tail(queue) \o next
    /\ UNCHANGED <<state, disk, previous, saving, failures>>

Settles(section) == host = "up" /\ saving /\ Head(queue) = section

Saved(next) ==
    /\ disk' = state
    /\ previous' = state
    /\ saving' = FALSE
    /\ queue' = Tail(queue) \o next
    /\ UNCHANGED <<state, failures>>

Fails(next) ==
    /\ failures < MaxFailures
    /\ failures' = failures + 1
    /\ state' = previous
    /\ saving' = FALSE
    /\ queue' = Tail(queue) \o next
    /\ UNCHANGED <<disk, previous>>

Goes(m, to) == phase' = [phase EXCEPT ![m] = to]

-----------------------------------------------------------------------------
(* Sending.                                                                *)

\* send() prepares the message and asks for the lock.
Prepare(m) ==
    /\ host = "up" /\ ~closing
    /\ phase[m] = "none"
    /\ Goes(m, "prepared")
    /\ bornIn' = [bornIn EXCEPT ![m] = state.generation]
    /\ Enqueue(Section("accept", m))
    /\ UNCHANGED <<aborted, cancelling, terminal, resolvers, asked, process, failures,
                   crashes>>

\* preparedSendIsCurrent is asked again under the lock.
BeginAccept(m) ==
    /\ Begins(Section("accept", m))
    /\ IF bornIn[m] = state.generation
         THEN Edit(WithStatus(state, m, "queued")) /\ UNCHANGED phase
         ELSE Skip(<<>>) /\ Goes(m, "over")
    /\ UNCHANGED <<bornIn, aborted, cancelling, terminal, resolvers, asked, process, crashes>>

EndAccept(m) ==
    /\ Settles(Section("accept", m))
    /\ \/ Saved(<<>>) /\ Goes(m, "waiting")
       \/ Fails(<<>>) /\ Goes(m, "over")
    /\ UNCHANGED <<bornIn, aborted, cancelling, terminal, resolvers, asked, process, crashes>>

-----------------------------------------------------------------------------
(* The run: deliverAgentReply.                                             *)

\* The loop takes a message when no other run of the conversation is active.
Launch(m) ==
    /\ host = "up" /\ ~closing
    /\ phase[m] = "waiting"
    /\ \A n \in Messages : ~Active(n)
    /\ Goes(m, "starting")
    /\ Enqueue(Section(IF Current(m) THEN "start" ELSE "interrupt", m))
    /\ UNCHANGED <<bornIn, aborted, cancelling, terminal, resolvers, asked, process, failures,
                   crashes>>

\* markDirectMessageRunStarted.  A rejection is recorded like a failed turn.
BeginStart(m) ==
    /\ Begins(Section("start", m))
    /\ Edit(WithStatus(state, m, "running"))
    /\ UNCHANGED <<runs, process, crashes>>

Ending(m, kind) == <<Section(IF Current(m) THEN kind ELSE "interrupt", m)>>

EndStart(m) ==
    /\ Settles(Section("start", m))
    /\ \/ Saved(<<>>) /\ Goes(m, "working")
       \/ Fails(Ending(m, "fail")) /\ Goes(m, "recording")
    /\ UNCHANGED <<bornIn, aborted, cancelling, terminal, resolvers, asked, process, crashes>>

\* The prompt returns, rejects or times out, perhaps while it waits for the user.
TurnEnds(m) ==
    /\ host = "up"
    /\ phase[m] \in {"working", "asking"}
    /\ Goes(m, "recording")
    /\ \E kind \in {"complete", "fail"} : Enqueue(Ending(m, kind)[1])
    /\ UNCHANGED <<bornIn, aborted, cancelling, terminal, resolvers, asked, process, failures,
                   crashes>>

\* Slip: the status is written and the reply follows in a change of its own.
BeginCompleteStatus(m) ==
    /\ Begins(Section("complete", m))
    /\ IF Current(m)
         THEN Edit(WithStatus(state, m, "complete"))
         ELSE Skip(<<Section("interrupt", m)>>)
    /\ UNCHANGED <<runs, process, crashes>>

\* Slip: whether the run still is current is not asked again under the lock.
BeginCompleteUnchecked(m) ==
    /\ Begins(Section("complete", m))
    /\ Edit([WithStatus(state, m, "complete") EXCEPT !.replied = @ \cup {m}])
    /\ UNCHANGED <<runs, process, crashes>>

\* completeAgentReply: the reply and its status in one change, if the run still is
\* current; otherwise recordInterruptedExecution takes the lock again.
BeginComplete(m) ==
    /\ Begins(Section("complete", m))
    /\ IF Current(m)
         THEN Edit([WithStatus(state, m, "complete") EXCEPT !.replied = @ \cup {m}])
         ELSE Skip(<<Section("interrupt", m)>>)
    /\ UNCHANGED <<runs, process, crashes>>

\* recordAgentRunFailure does not look again.
BeginFail(m) ==
    /\ Begins(Section("fail", m))
    /\ Edit(WithStatus(state, m, "failed"))
    /\ UNCHANGED <<runs, process, crashes>>

\* applyInterruptedAgentRun, which leaves a settled message alone.
Interruptible(m) ==
    m \notin terminal /\ state.status[m] \in {"queued", "running", "needs_input"}

BeginInterrupt(m) ==
    /\ Begins(Section("interrupt", m))
    /\ IF ~closing /\ ~Current(m) /\ Interruptible(m)
         THEN Edit(WithStatus(state, m, "cancelled")) /\ UNCHANGED phase
         ELSE Skip(<<>>) /\ Goes(m, "over")
    /\ UNCHANGED <<bornIn, aborted, cancelling, terminal, resolvers, asked, process, crashes>>

\* The outcome is recorded, or its persist rejects and nobody tries again.
EndRun(m) ==
    /\ \E kind \in {"complete", "fail", "interrupt"} : Settles(Section(kind, m))
    /\ \/ Saved(<<>>) /\ terminal' = terminal \cup {m}
       \/ Fails(<<>>) /\ UNCHANGED terminal
    /\ Goes(m, "over")
    /\ UNCHANGED <<bornIn, aborted, cancelling, resolvers, asked, process, crashes>>

-----------------------------------------------------------------------------
(* Permissions.                                                            *)

Ask(m) ==
    /\ host = "up"
    /\ phase[m] = "working"
    /\ m \notin asked
    /\ asked' = asked \cup {m}
    /\ Goes(m, "asking")
    /\ Enqueue(Section("ask", m))
    /\ UNCHANGED <<bornIn, aborted, cancelling, terminal, resolvers, process, failures, crashes>>

\* The Agent got an answer, if it still waits for one.
Resume(m) == Goes(m, IF phase[m] = "asking" THEN "working" ELSE phase[m])

BeginAsk(m) ==
    /\ Begins(Section("ask", m))
    /\ IF m \notin terminal /\ Active(m) /\ Current(m)
         THEN /\ Edit([WithStatus(state, m, "needs_input")
                         EXCEPT !.permission[m] = "pending"])
              /\ resolvers' = resolvers \cup {m}
              /\ UNCHANGED phase
         ELSE Skip(<<>>) /\ Resume(m) /\ UNCHANGED resolvers
    /\ UNCHANGED <<bornIn, aborted, cancelling, terminal, asked, process, crashes>>

EndAsk(m) ==
    /\ Settles(Section("ask", m))
    /\ \/ Saved(<<>>) /\ UNCHANGED <<phase, resolvers>>
       \/ Fails(<<>>) /\ Resume(m) /\ resolvers' = resolvers \ {m}
    /\ UNCHANGED <<bornIn, aborted, cancelling, terminal, asked, process, crashes>>

\* The user answers a permission the client still shows.
Answer(m) ==
    /\ host = "up" /\ ~closing
    /\ state.permission[m] = "pending"
    /\ ~Contains(queue, Section("answer", m))
    /\ Enqueue(Section("answer", m))
    /\ UNCHANGED <<runs, process, failures, crashes>>

\* respondPermission returns the message to running, whatever became of its run.
BeginAnswer(m) ==
    /\ Begins(Section("answer", m))
    /\ IF state.permission[m] = "pending" /\ m \in resolvers
         THEN Edit([WithStatus(state, m, "running")
                      EXCEPT !.permission[m] = "resolved"])
         ELSE Skip(<<>>)
    /\ UNCHANGED <<runs, process, crashes>>

\* Slip: the resolver is dropped before the answer is saved.
EndAnswerDropsFirst(m) ==
    /\ Settles(Section("answer", m))
    /\ \/ Saved(<<>>) /\ Resume(m)
       \/ Fails(<<>>) /\ UNCHANGED phase
    /\ resolvers' = resolvers \ {m}
    /\ UNCHANGED <<bornIn, aborted, cancelling, terminal, asked, process, crashes>>

EndAnswer(m) ==
    /\ Settles(Section("answer", m))
    /\ \/ Saved(<<>>) /\ Resume(m) /\ resolvers' = resolvers \ {m}
       \/ Fails(<<>>) /\ UNCHANGED <<phase, resolvers>>
    /\ UNCHANGED <<bornIn, aborted, cancelling, terminal, asked, process, crashes>>

-----------------------------------------------------------------------------
(* The user stops a run, or interrupts it with another message.            *)

\* stopAgentRuns aborts the run and waits for its session to be cancelled.
Stop(m) ==
    /\ host = "up" /\ ~closing
    /\ Active(m) /\ m \notin aborted
    /\ aborted' = aborted \cup {m}
    /\ cancelling' = [cancelling EXCEPT ![m] = "stop"]
    /\ UNCHANGED <<lock, phase, bornIn, terminal, resolvers, asked, process, failures,
                   crashes>>

\* abortConversationRuns, for a run that shows a live activity.
Steer(m) ==
    /\ host = "up" /\ ~closing
    /\ phase[m] \in {"starting", "working", "asking"} /\ m \notin aborted
    /\ aborted' = aborted \cup {m}
    /\ Enqueue(Section("steer", m))
    /\ UNCHANGED <<phase, bornIn, cancelling, terminal, resolvers, asked, process,
                   failures, crashes>>

\* interruptAgentRuns records the interruption, then waits for the session ...
BeginSteer(m) ==
    /\ Begins(Section("steer", m))
    /\ IF Interruptible(m)
         THEN Edit(WithStatus(state, m, "cancelled")) /\ UNCHANGED cancelling
         ELSE Skip(<<>>) /\ cancelling' = [cancelling EXCEPT ![m] = "cancel"]
    /\ UNCHANGED <<phase, bornIn, aborted, terminal, resolvers, asked, process, crashes>>

EndSteer(m) ==
    /\ Settles(Section("steer", m))
    /\ \/ /\ Saved(<<>>)
          /\ terminal' = terminal \cup {m}
          /\ cancelling' = [cancelling EXCEPT ![m] = "cancel"]
       \/ Fails(<<>>) /\ UNCHANGED <<terminal, cancelling>>
    /\ UNCHANGED <<phase, bornIn, aborted, resolvers, asked, process, crashes>>

\* The session is cancelled, or the grace period is over.
Cancelled(m) ==
    /\ host = "up"
    /\ cancelling[m] # "no"
    /\ cancelling' = [cancelling EXCEPT ![m] = "no"]
    /\ Enqueue(Section(cancelling[m], m))
    /\ UNCHANGED <<phase, bornIn, aborted, terminal, resolvers, asked, process,
                   failures, crashes>>

\* ... and then, like a stop, writes the status over whatever is there.
BeginOverwrite(m) ==
    /\ \/ Begins(Section("cancel", m)) /\ Edit(WithStatus(state, m, "cancelled"))
       \/ Begins(Section("stop", m)) /\ Edit(WithStatus(state, m, "error"))
    /\ UNCHANGED <<runs, process, crashes>>

EndOverwrite(m) ==
    /\ Settles(Section("cancel", m)) \/ Settles(Section("stop", m))
    /\ Saved(<<>>) \/ Fails(<<>>)
    /\ UNCHANGED <<runs, process, crashes>>

-----------------------------------------------------------------------------
(* /new.                                                                   *)

AskReset ==
    /\ host = "up" /\ ~closing
    /\ state.generation < MaxResets
    /\ ~Contains(queue, Reset)
    /\ Enqueue(Reset)
    /\ UNCHANGED <<runs, process, failures, crashes>>

\* Slip: the permissions of the old generation are marked like its messages.
BeginResetCancels ==
    /\ Begins(Reset)
    /\ Edit([SettleOpen(state) EXCEPT
               !.generation = @ + 1,
               !.permission = [m \in Messages |->
                                 IF @[m] = "pending" THEN "cancelled" ELSE @[m]]])
    /\ UNCHANGED <<runs, process, crashes>>

\* Slip: open messages are left as they are.
BeginResetLeavesOpen ==
    /\ Begins(Reset)
    /\ Edit([state EXCEPT !.generation = @ + 1])
    /\ UNCHANGED <<runs, process, crashes>>

BeginReset ==
    /\ Begins(Reset)
    /\ Edit([SettleOpen(state) EXCEPT !.generation = @ + 1])
    /\ UNCHANGED <<runs, process, crashes>>

\* The follow-ups of the conversation are dropped and its runs aborted: a little
\* later in the code, but the new generation keeps them from being Current.
EndReset ==
    /\ Settles(Reset)
    /\ \/ /\ Saved(<<>>)
          /\ phase' = [m \in Messages |-> IF phase[m] = "waiting" THEN "over" ELSE phase[m]]
          /\ aborted' = aborted \cup {m \in Messages : Active(m)}
       \/ Fails(<<>>) /\ UNCHANGED <<phase, aborted>>
    /\ UNCHANGED <<bornIn, cancelling, terminal, resolvers, asked, process, crashes>>

-----------------------------------------------------------------------------
(* close(), death and start-up.                                            *)

AskClose ==
    /\ host = "up" /\ ~closing
    /\ crashes < MaxCrashes
    /\ closing' = TRUE
    /\ Enqueue(Close)
    /\ UNCHANGED <<runs, host, failures, crashes>>

BeginClose ==
    /\ Begins(Close)
    /\ Edit(InterruptPermissions(state))
    /\ UNCHANGED <<runs, process, crashes>>

\* The interrupted permissions stay so in memory when the persist rejects.
EndClose ==
    /\ Settles(Close)
    /\ \/ Saved(<<>>)
       \/ /\ failures < MaxFailures /\ failures' = failures + 1
          /\ saving' = FALSE
          /\ queue' = Tail(queue)
          /\ previous' = state
          /\ UNCHANGED <<state, disk>>
    /\ resolvers' = {}
    /\ phase' = [m \in Messages |-> IF phase[m] = "asking" THEN "working" ELSE phase[m]]
    /\ aborted' = aborted \cup {m \in Messages : Active(m)}
    /\ UNCHANGED <<bornIn, cancelling, terminal, asked, process, crashes>>

\* whenAdmissionsIdle and whenIdle: nothing is inside and no run is left.
CloseIdle ==
    /\ host = "up" /\ closing
    /\ queue = <<>>
    /\ \A m \in Messages : ~Active(m) /\ cancelling[m] = "no"
    /\ Enqueue(Shutdown)
    /\ UNCHANGED <<runs, process, failures, crashes>>

BeginShutdown ==
    /\ Begins(Shutdown)
    /\ Edit(SettleOpen(state))
    /\ UNCHANGED <<runs, process, crashes>>

Exit ==
    /\ host' = "down"
    /\ crashes' = crashes + 1
    /\ state' = Empty /\ previous' = Empty
    /\ queue' = <<>> /\ saving' = FALSE
    /\ closing' = FALSE
    /\ phase' = [m \in Messages |-> IF phase[m] = "none" THEN "none" ELSE "over"]
    /\ resolvers' = {} /\ aborted' = {} /\ terminal' = {}
    /\ cancelling' = [m \in Messages |-> "no"]
    /\ UNCHANGED <<bornIn, asked>>

EndShutdown ==
    /\ Settles(Shutdown)
    /\ Exit
    /\ \/ disk' = state /\ UNCHANGED failures
       \/ failures < MaxFailures /\ failures' = failures + 1 /\ UNCHANGED disk

\* Process death; the persist under way has reached the disk or not.
Crash ==
    /\ host = "up"
    /\ crashes < MaxCrashes
    /\ Exit
    /\ disk' \in {disk} \cup (IF saving THEN {state} ELSE {})
    /\ UNCHANGED failures

\* Loading interrupts pending permissions, initialize settles what was open.
Restart ==
    /\ host = "down"
    /\ host' = "up"
    /\ state' = SettleOpen(InterruptPermissions(disk))
    /\ disk' = state' /\ previous' = state'
    /\ UNCHANGED <<queue, saving, runs, closing, failures, crashes>>

-----------------------------------------------------------------------------

Deliver(m) ==
    \/ BeginAccept(m) \/ EndAccept(m) \/ Launch(m) \/ BeginStart(m) \/ EndStart(m)
    \/ BeginComplete(m) \/ BeginFail(m) \/ BeginInterrupt(m) \/ EndRun(m)

Control(m) ==
    \/ BeginAsk(m) \/ EndAsk(m) \/ BeginAnswer(m) \/ EndAnswer(m)
    \/ BeginSteer(m) \/ EndSteer(m) \/ Cancelled(m)
    \/ BeginOverwrite(m) \/ EndOverwrite(m)

User(m) == Prepare(m) \/ Answer(m) \/ Stop(m) \/ Steer(m)
Agent(m) == Ask(m) \/ TurnEnds(m)

Hosting ==
    \/ BeginReset \/ EndReset
    \/ BeginClose \/ EndClose \/ CloseIdle \/ BeginShutdown \/ EndShutdown
    \/ Restart

Next ==
    \/ \E m \in Messages : Deliver(m) \/ Control(m) \/ User(m) \/ Agent(m)
    \/ AskReset \/ AskClose
    \/ Hosting \/ Crash

\* Persists settle, the lock is handed on, and every turn ends or times out.
Fairness ==
    /\ WF_vars(Hosting)
    /\ \A m \in Messages :
         WF_vars(Deliver(m)) /\ WF_vars(Control(m)) /\ WF_vars(TurnEnds(m))

Spec == Init /\ [][Next]_vars /\ Fairness

-----------------------------------------------------------------------------
(* Properties.                                                             *)

\* A turn is never silently completed: a message is complete only together with
\* its reply, in memory and in what a restart would load.
CompleteHasReply ==
    \A document \in {state, disk} : \A m \in Messages :
        document.status[m] = "complete" => m \in document.replied

\* docs/specs/product-spec.md: "Stale replies from cancelled or replaced
\* generations cannot mutate the current conversation": once /new is saved, no
\* message of an earlier generation gets a reply, whatever was under way.
BoundaryHolds ==
    [][\A m \in Messages :
         bornIn[m] < disk.generation /\ m \notin disk.replied
             => m \notin disk'.replied]_vars

\* What the client shows as pending can be answered.
PendingIsAnswerable ==
    host = "up" => \A m \in Messages :
        state.permission[m] = "pending" => m \in resolvers

\* An open message has a run, waits for one, or is being accepted; the
\* exception is a message whose permission was answered after its run ended.
OpenHasARun ==
    host = "up" /\ ~closing /\ failures = 0 =>
        \A m \in Messages :
            state.status[m] \in {"queued", "running"} =>
                \/ phase[m] \in {"prepared", "waiting"} \/ Active(m)
                \/ state.permission[m] = "resolved"

\* Unless a persist rejects, every accepted message is settled at some time, or
\* was asked about: through stops, steering, /new, close() and process deaths.
MessagesSettle ==
    \A m \in Messages :
        disk.status[m] = "queued" ~>
            disk.status[m] \in Final \cup {"needs_input"} \/ failures > 0

\* What holds of the messages in every state: one that is complete has its reply, one
\* that is open has its run, and a pending permission can be answered.
RunsConsistent ==
    /\ TypeOK
    /\ CompleteHasReply
    /\ PendingIsAnswerable
    /\ OpenHasARun

=============================================================================
