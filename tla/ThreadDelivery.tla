---------------------------- MODULE ThreadDelivery ----------------------------
(***************************************************************************)
(* The delivery of one accepted message in a Channel thread: processReplies *)
(* starts the assigned Agents, all at once or, in a relay, the first one,   *)
(* and every finished turn may bring in another Agent: by a structured      *)
(* handoff, by a mention in its final paragraph, or because the relay plan  *)
(* has one left.  The chains so started run concurrently and share the      *)
(* turn limit, the directed edges already used, the FIFO lock of each       *)
(* Agent's native session and the lock of the document.                     *)
(*                                                                         *)
(* A chain is named by the assigned Agent it starts with.  What the turns   *)
(* say and the Projects they get are left out.                              *)
(***************************************************************************)
EXTENDS Naturals, Sequences, FiniteSets, SequencesExt

CONSTANTS
    Agents,       \* the Agents of the Channel
    Late,         \* those configured after the message was prepared
    Plans,        \* the routing decisions considered
    MaxTurns,     \* the largest turn limit among them
    MaxFailures,  \* bound on persists that reject
    MaxMissing    \* bound on native sessions that are gone when resumed

ASSUME LateAssumption == Late \subseteq Agents

ASSUME BoundAssumption ==
    MaxTurns \in Nat \ {0} /\ MaxFailures \in Nat /\ MaxMissing \in Nat

\* The router assigns distinct Agents, no more than the limit and at least one,
\* to a relay at least two.
ASSUME PlanAssumption ==
    \A p \in Plans :
        /\ p.relay \in BOOLEAN /\ p.limit \in 1..MaxTurns
        /\ p.assigned \in Seq(Agents \ Late) /\ p.assigned # <<>>
        /\ IsInjective(p.assigned) /\ Len(p.assigned) <= p.limit
        /\ p.relay => Len(p.assigned) > 1

VARIABLES
    relay,     \* relayMode
    assigned,  \* routingAssignments, in order
    limit,     \* effectiveLimit and maxRelayTurns
    remaining, \* remainingRelayAssignments
    turns,     \* the turns reserved so far: deliveredTurns, delivered, relayEdges
    stopped,   \* relayStopRecorded
    stage,     \* where each chain stands
    agent,     \* the Agent of its current turn
    resumes,   \* the session that turn read from agentSessions, or NoSession
    session,   \* the native session it runs in
    handoff,   \* pendingAgentHandoffs
    aborted,   \* chains whose current run has been aborted
    waiting,   \* agentSessionTails: who holds an Agent's session, then who waits
    state, previous,  \* the document, and its rollback
    lock, saving,     \* stateChangeTail: the chains in it; the first persists
    used,      \* native sessions each Agent has had a turn in
    missing, failures

plan     == <<relay, assigned, limit>>
turn     == <<stage, agent, resumes, session, handoff, aborted>>
document == <<state, previous, saving>>
bounds   == <<missing, failures>>
vars     == <<plan, remaining, turns, stopped, turn, waiting, document, lock, used, bounds>>

Known == Agents \ Late

Nobody    == [kind |-> "nobody"]
To(a)     == [kind |-> "agent", agent |-> a]
NoSession == 0

\* Native sessions are numbered per Agent, in the order they are created.
Sessions == 0..(MaxTurns + MaxMissing + 1)

\* In the first of these a chain waits for the lock of the document.
Locking == {"seating", "forgetting", "completing", "failing", "interrupting", "stopping"}
Stages  == Locking \cup {"none", "queued", "running", "continuing", "ended", "broken"}

Turn(from, to) == [from |-> from, to |-> to]
Delivered      == {turns[i].to : i \in DOMAIN turns}

Documents ==
    [mapped : [Agents -> Sessions],  \* agentSessions of this thread
     seated : SUBSET Agents,         \* the Agents of the thread
     stops  : Nat,                   \* relay-stop messages
     failed : SUBSET Agents]         \* the Agents of the failure messages

TypeOK ==
    /\ relay \in BOOLEAN /\ limit \in 1..MaxTurns
    /\ assigned \in Seq(Known) /\ remaining \in Seq(Known)
    /\ turns \in Seq([from : {Nobody} \cup {To(a) : a \in Known}, to : Known])
    /\ stopped \in BOOLEAN
    /\ stage \in [Agents -> Stages]
    /\ agent \in [Agents -> Agents]
    /\ resumes \in [Agents -> Sessions] /\ session \in [Agents -> Sessions]
    /\ handoff \in [Agents -> {Nobody} \cup {To(a) : a \in Agents}]
    /\ aborted \subseteq Agents
    /\ \A a \in Agents : waiting[a] \in Seq(Agents) /\ IsInjective(waiting[a])
    /\ {state, previous} \subseteq Documents
    /\ lock \in Seq(Agents) /\ IsInjective(lock) /\ saving \in BOOLEAN
    /\ used \in [Agents -> SUBSET Sessions]
    /\ missing \in 0..MaxMissing /\ failures \in 0..MaxFailures

Roots == IF relay THEN {assigned[1]} ELSE Range(assigned)

\* replyDeliverySession, and the first stretch of every chain processReplies
\* starts: none of them waits before its turn is reserved.
Init ==
    /\ \E p \in Plans : relay = p.relay /\ assigned = p.assigned /\ limit = p.limit
    /\ remaining = IF relay THEN Tail(assigned) ELSE <<>>
    /\ turns = [i \in 1..(IF relay THEN 1 ELSE Len(assigned)) |->
                  Turn(Nobody, assigned[i])]
    /\ stopped = FALSE
    /\ stage = [c \in Agents |-> IF c \in Roots THEN "seating" ELSE "none"]
    /\ agent = [c \in Agents |-> c]
    /\ resumes = [c \in Agents |-> NoSession]
    /\ session = [c \in Agents |-> NoSession]
    /\ handoff = [c \in Agents |-> Nobody]
    /\ aborted = {}
    /\ waiting = [a \in Agents |-> <<>>]
    /\ \E mapped \in [Agents -> {0, 1}] :
         /\ \A a \in Late : mapped[a] = NoSession
         /\ state = [mapped |-> mapped, seated |-> Range(assigned), stops |-> 0,
                     failed |-> {}]
         /\ used = [a \in Agents |-> {mapped[a]} \ {NoSession}]
    /\ previous = state /\ saving = FALSE
    /\ lock = IF relay THEN <<assigned[1]>> ELSE assigned
    /\ missing = 0 /\ failures = 0

-----------------------------------------------------------------------------
(* The lock of the document, FIFO: the chain that holds it edits, waits for  *)
(* persist(), and puts the document back when that rejects.                  *)

\* A chain that comes to one of the Locking stages queues for the lock.
Moves(c, to, rest) ==
    /\ stage' = [stage EXCEPT ![c] = to]
    /\ lock' = IF to \in Locking THEN Append(rest, c) ELSE rest

Goes(c, to) == Moves(c, to, lock)

\* Slip: the lock is not handed on.
LeavesHolding(c, to) == Moves(c, to, lock)

Leaves(c, to) == Moves(c, to, Tail(lock))

Holds(c, at)   == stage[c] = at /\ lock # <<>> /\ Head(lock) = c
Begins(c, at)  == Holds(c, at) /\ ~saving
Settles(c, at) == Holds(c, at) /\ saving

Edit(after) ==
    /\ previous' = state
    /\ state' = after
    /\ saving' = TRUE
    /\ UNCHANGED <<stage, lock, bounds>>

Skip == UNCHANGED <<document, bounds>>

Saved ==
    /\ saving' = FALSE
    /\ UNCHANGED <<state, previous, bounds>>

Fails ==
    /\ failures < MaxFailures
    /\ failures' = failures + 1
    /\ state' = previous
    /\ saving' = FALSE
    /\ UNCHANGED <<previous, missing>>

-----------------------------------------------------------------------------
(* Reserving a turn.                                                       *)

\* The turn is reserved, and a run of its own is started for it.
Take(c, from, to) ==
    /\ turns' = Append(turns, Turn(from, to))
    /\ agent' = [agent EXCEPT ![c] = to]
    /\ aborted' = aborted \ {c}
    /\ handoff' = [handoff EXCEPT ![c] = Nobody]
    /\ Goes(c, "seating")

End(c) == Goes(c, "ended") /\ UNCHANGED <<turns, agent, aborted, handoff>>

LimitReached == Len(turns) >= limit
EdgeRan(from, to) == Contains(turns, Turn(To(from), to))

\* Slip: the last turn is not counted.
ReserveOneMore(c, to, repeat) ==
    IF ~repeat /\ to \in Delivered THEN End(c)
    ELSE IF Len(turns) > limit \/ EdgeRan(agent[c], to)
         THEN Goes(c, "stopping") /\ UNCHANGED <<turns, agent, aborted, handoff>>
         ELSE Take(c, To(agent[c]), to)

\* Slip: only a planned Agent is kept from running twice.
ReserveAnyEdge(c, to, repeat) ==
    IF ~repeat /\ to \in Delivered THEN End(c)
    ELSE IF LimitReached
         THEN Goes(c, "stopping") /\ UNCHANGED <<turns, agent, aborted, handoff>>
         ELSE Take(c, To(agent[c]), to)

\* reserveAgentDelivery of a turn that continues a chain; repeat is allowRepeat.
Reserve(c, to, repeat) ==
    IF ~repeat /\ to \in Delivered THEN End(c)
    ELSE IF LimitReached \/ EdgeRan(agent[c], to)
         THEN Goes(c, "stopping") /\ UNCHANGED <<turns, agent, aborted, handoff>>
         ELSE Take(c, To(agent[c]), to)

-----------------------------------------------------------------------------
(* One turn: deliverAgentReply.                                            *)

\* The session to resume is read here, before the wait for the session itself.
Join(c) ==
    /\ Leaves(c, "queued")
    /\ resumes' = [resumes EXCEPT ![c] = state.mapped[agent[c]]]
    /\ waiting' = [waiting EXCEPT ![agent[c]] = Append(@, c)]

\* ensureAgentThreadMembership.
BeginSeat(c) ==
    /\ Begins(c, "seating")
    /\ IF agent[c] \in state.seated
         THEN Skip /\ Join(c)
         ELSE /\ Edit([state EXCEPT !.seated = @ \cup {agent[c]}])
              /\ UNCHANGED <<resumes, waiting>>
    /\ UNCHANGED <<plan, remaining, turns, stopped, agent, session, handoff, aborted, used>>

EndSeat(c) ==
    /\ Settles(c, "seating")
    /\ \/ Saved /\ Join(c)
       \/ Fails /\ Leaves(c, "broken") /\ UNCHANGED <<resumes, waiting>>
    /\ UNCHANGED <<plan, remaining, turns, stopped, agent, session, handoff, aborted, used>>

\* Slip: a run that was stopped keeps the session.
ReleaseUnlessAborted(c) ==
    waiting' = IF c \in aborted THEN waiting ELSE [waiting EXCEPT ![agent[c]] = Tail(@)]

\* withAgentSessionLock goes on to the next turn, however this one ended.
Release(c) == waiting' = [waiting EXCEPT ![agent[c]] = Tail(@)]

Fresh(a) == Cardinality(used[a]) + 1

RunsIn(c, number, rest) ==
    /\ Moves(c, "running", rest)
    /\ session' = [session EXCEPT ![c] = number]
    /\ used' = [used EXCEPT ![agent[c]] = @ \cup {number}]

\* Slip: the turn does not wait for the session.
StartTurnAtOnce(c) ==
    /\ stage[c] = "queued"
    /\ IF c \in aborted
         THEN Goes(c, "interrupting") /\ Release(c) /\ UNCHANGED <<session, used>>
         ELSE /\ RunsIn(c, IF resumes[c] = NoSession THEN Fresh(agent[c]) ELSE resumes[c], lock)
              /\ UNCHANGED waiting
    /\ UNCHANGED <<plan, remaining, turns, stopped, agent, resumes, handoff, aborted,
                   document, bounds>>

\* runLockedAgentSession: the turn resumes its session or gets a new one.
StartTurn(c) ==
    /\ stage[c] = "queued" /\ Head(waiting[agent[c]]) = c
    /\ IF c \in aborted
         THEN Goes(c, "interrupting") /\ Release(c) /\ UNCHANGED <<session, used>>
         ELSE /\ RunsIn(c, IF resumes[c] = NoSession THEN Fresh(agent[c]) ELSE resumes[c], lock)
              /\ UNCHANGED waiting
    /\ UNCHANGED <<plan, remaining, turns, stopped, agent, resumes, handoff, aborted,
                   document, bounds>>

\* The Agent calls commonspace_handoff, once in a turn, for a peer of the Channel.
Handoff(c, to) ==
    /\ stage[c] = "running"
    /\ handoff[c] = Nobody
    /\ to # agent[c]
    /\ handoff' = [handoff EXCEPT ![c] = To(to)]
    /\ UNCHANGED <<plan, remaining, turns, stopped, stage, agent, resumes, session,
                   aborted, waiting, document, lock, used, bounds>>

\* Every ending but a reply forgets the handoff the turn asked for.
FinishTurn(c) ==
    /\ stage[c] = "running"
    /\ \E outcome \in {"completing", "failing"} :
         /\ Goes(c, IF c \in aborted THEN "interrupting" ELSE outcome)
         /\ handoff' = IF stage'[c] = "completing" THEN handoff
                       ELSE [handoff EXCEPT ![c] = Nobody]
    /\ Release(c)
    /\ UNCHANGED <<plan, remaining, turns, stopped, agent, resumes, session, aborted,
                   document, used, bounds>>

\* stopAgentRuns: a user stops the run.
Abort(c) ==
    /\ stage[c] \in {"seating", "queued", "running", "forgetting", "completing"}
    /\ aborted' = aborted \cup {c}
    /\ UNCHANGED <<plan, remaining, turns, stopped, stage, agent, resumes, session,
                   handoff, waiting, document, lock, used, bounds>>

-----------------------------------------------------------------------------
(* The native session is gone: runAgentWithRecovery.                       *)

\* The harness does not know the session any more, or resumed it in vain.
Missing(c) ==
    /\ stage[c] = "running"
    /\ resumes[c] # NoSession
    /\ missing < MaxMissing
    /\ missing' = missing + 1
    /\ IF c \in aborted
         THEN Goes(c, "interrupting") /\ Release(c)
         ELSE Goes(c, "forgetting") /\ UNCHANGED waiting
    /\ UNCHANGED <<plan, remaining, turns, stopped, agent, resumes, session, handoff,
                   aborted, document, used, failures>>

\* A new session replaces it, unless the run was stopped meanwhile.
Renew(c) ==
    /\ resumes' = [resumes EXCEPT ![c] = NoSession]
    /\ IF c \in aborted
         THEN Leaves(c, "interrupting") /\ Release(c) /\ UNCHANGED <<session, used>>
         ELSE RunsIn(c, Fresh(agent[c]), Tail(lock)) /\ UNCHANGED waiting

\* forgetAgentSession leaves the mapping alone when it is another one by now.
BeginForget(c) ==
    /\ Begins(c, "forgetting")
    /\ IF state.mapped[agent[c]] = resumes[c]
         THEN /\ Edit([state EXCEPT !.mapped[agent[c]] = NoSession])
              /\ UNCHANGED <<resumes, session, waiting, used>>
         ELSE Skip /\ Renew(c)
    /\ UNCHANGED <<plan, remaining, turns, stopped, agent, handoff, aborted>>

EndForget(c) ==
    /\ Settles(c, "forgetting")
    /\ \/ Saved /\ Renew(c)
       \/ /\ Fails /\ Release(c)
          /\ Leaves(c, IF c \in aborted THEN "interrupting" ELSE "failing")
          /\ UNCHANGED <<resumes, session, used>>
    /\ UNCHANGED <<plan, remaining, turns, stopped, agent, handoff, aborted>>

-----------------------------------------------------------------------------
(* Recording the outcome of a turn.                                        *)

Records == <<plan, remaining, turns, stopped, agent, resumes, session, handoff,
             aborted, waiting, used>>

\* Slip: the session of a new turn is not remembered.
BeginCompleteForgets(c) ==
    /\ Begins(c, "completing")
    /\ IF c \in aborted
         THEN Skip /\ Leaves(c, "interrupting")
         ELSE Edit(state)
    /\ UNCHANGED Records

\* completeAgentReply remembers the session and appends the reply, unless the run
\* was stopped meanwhile.
BeginComplete(c) ==
    /\ Begins(c, "completing")
    /\ IF c \in aborted
         THEN Skip /\ Leaves(c, "interrupting")
         ELSE Edit([state EXCEPT !.mapped[agent[c]] = session[c]])
    /\ UNCHANGED Records

\* recordAgentRunFailure, recordInterruptedExecution: the thread shows a message,
\* an interruption only when it shows none of this Agent yet.
BeginFailure(c) ==
    /\ \/ Begins(c, "failing")
       \/ Begins(c, "interrupting") /\ agent[c] \notin state.failed
    /\ Edit([state EXCEPT !.failed = @ \cup {agent[c]}])
    /\ UNCHANGED Records

AlreadyShown(c) ==
    /\ Begins(c, "interrupting") /\ agent[c] \in state.failed
    /\ Skip /\ Leaves(c, "ended")
    /\ UNCHANGED Records

\* A persist that rejects ends the chain, and processReplies with it.
EndRecord(c) ==
    /\ \/ Settles(c, "completing") /\ Saved /\ Leaves(c, "continuing")
       \/ /\ Settles(c, "failing") \/ Settles(c, "interrupting")
          /\ Saved /\ Leaves(c, "ended")
       \/ /\ \E at \in {"completing", "failing", "interrupting"} : Settles(c, at)
          /\ Fails /\ Leaves(c, "broken")
    /\ UNCHANGED Records

-----------------------------------------------------------------------------
(* What comes after a reply: continueReplyDelivery.                        *)

\* findIndex and splice: an Agent that is called otherwise leaves the relay plan.
PlanWithout(a) ==
    IF Contains(remaining, a)
    THEN RemoveAt(remaining, CHOOSE i \in DOMAIN remaining : remaining[i] = a)
    ELSE remaining

\* deliverRequestedHandoff: a target that is not among the prepared Agents is
\* dropped, and with it the rest of the chain.
Requested(c) ==
    /\ handoff[c] # Nobody
    /\ LET to == handoff[c].agent IN
       IF to \in Late
         THEN End(c) /\ UNCHANGED remaining
         ELSE Reserve(c, to, TRUE) /\ remaining' = PlanWithout(to)

\* Slip: the Agent mentioned stays in the relay plan.
MentionedKeepsPlan(c) ==
    /\ handoff[c] = Nobody
    /\ \E to \in Known \ {agent[c]} : Reserve(c, to, TRUE)
    /\ UNCHANGED remaining

\* The final paragraph mentions a peer: deliverMentionedHandoff, and the first
\* case of deliverRelayContinuation.
Mentioned(c) ==
    /\ handoff[c] = Nobody
    /\ \E to \in Known \ {agent[c]} :
         /\ Reserve(c, to, TRUE)
         /\ remaining' = PlanWithout(to)

\* The relay goes on with the next Agent of its plan.
Planned(c) ==
    /\ handoff[c] = Nobody
    /\ remaining # <<>>
    /\ Reserve(c, Head(remaining), FALSE)
    /\ remaining' = Tail(remaining)

Exhausted(c) ==
    /\ handoff[c] = Nobody
    /\ remaining = <<>>
    /\ End(c)
    /\ UNCHANGED remaining

Continue(c) ==
    /\ stage[c] = "continuing"
    /\ Requested(c) \/ Mentioned(c) \/ Planned(c) \/ Exhausted(c)
    /\ UNCHANGED <<plan, stopped, resumes, session, waiting, document, used, bounds>>

\* Slip: whether a stop was recorded is not asked under the lock.
BeginStopUnchecked(c) ==
    /\ Begins(c, "stopping")
    /\ Edit([state EXCEPT !.stops = @ + 1])
    /\ UNCHANGED Records

\* recordRelayStop shows why the delivery went no further, once.
BeginStop(c) ==
    /\ Begins(c, "stopping")
    /\ IF stopped
         THEN Skip /\ Leaves(c, "ended")
         ELSE Edit([state EXCEPT !.stops = @ + 1])
    /\ UNCHANGED Records

EndStop(c) ==
    /\ Settles(c, "stopping")
    /\ \/ Saved /\ Leaves(c, "ended") /\ stopped' = TRUE
       \/ Fails /\ Leaves(c, "broken") /\ UNCHANGED stopped
    /\ UNCHANGED <<plan, remaining, turns, agent, resumes, session, handoff, aborted,
                   waiting, used>>

-----------------------------------------------------------------------------

Locked(c) ==
    \/ BeginSeat(c) \/ EndSeat(c) \/ BeginForget(c) \/ EndForget(c)
    \/ BeginComplete(c) \/ BeginFailure(c) \/ AlreadyShown(c) \/ EndRecord(c)
    \/ BeginStop(c) \/ EndStop(c)

Turns(c) == StartTurn(c) \/ FinishTurn(c) \/ Continue(c)

Next ==
    \E c \in Agents :
        \/ Locked(c) \/ Turns(c)
        \/ Missing(c) \/ Abort(c)
        \/ \E to \in Agents : Handoff(c, to)

\* Persists settle, the lock is handed on, and every prompt returns or times out.
Fairness == \A c \in Agents : WF_vars(Locked(c)) /\ WF_vars(Turns(c))

Spec == Init /\ [][Next]_vars /\ Fairness

-----------------------------------------------------------------------------
(* Properties.                                                             *)

Over == \A c \in Agents : stage[c] \in {"none", "ended", "broken"}

\* docs/guides/architecture.md: "Total turns are bounded", and no directed edge
\* runs twice, with any number of chains continuing at the same time.
RelayIsBounded ==
    /\ Len(turns) <= limit
    /\ IsInjective(turns)

\* "Calls to the same native session are serialized": no two turns are in one
\* session of one Agent at the same time.
OneTurnPerSession ==
    \A c, d \in Agents :
        /\ stage[c] \in {"running", "forgetting"} /\ stage[d] \in {"running", "forgetting"}
        /\ agent[c] = agent[d] /\ session[c] = session[d]
        => c = d

\* However many chains run into a limit, the thread shows one stop.
StopShownOnce == state.stops <= 1

\* A relay that is over has had all its Agents, or the thread shows why not; the
\* exception is a handoff to an Agent the delivery does not know.
RelayEndsVisibly ==
    relay /\ Over /\ failures = 0 /\ (\A c \in Agents : handoff[c] = Nobody) =>
        \/ Range(assigned) \subseteq Delivered
        \/ state.stops > 0
        \/ state.failed # {}

\* In a relay an Agent that is called again resumes the session of its earlier
\* turns, unless the session was gone.
RelayKeepsSessions ==
    relay => \A a \in Agents : Cardinality(used[a]) <= 1 + missing

\* Every delivery comes to an end, handoffs and rejected persists included.
DeliveryEnds == <>Over

\* What holds of a delivery in every state: its turns and edges are within the limit
\* and use each session in turn, and its stop is shown once.
DeliveryConsistent ==
    /\ TypeOK
    /\ OneTurnPerSession
    /\ RelayIsBounded
    /\ StopShownOnce
    /\ RelayKeepsSessions

=============================================================================
