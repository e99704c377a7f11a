------------------------------- MODULE Routing -------------------------------
(***************************************************************************)
(* The routing of the human messages of one Channel (service.ts): a        *)
(* message is accepted with its routing resolved or pending, a run asks    *)
(* the local classifier or the inference Agent and commits the decision    *)
(* under the state lock; meanwhile messages are deleted and edited,        *)
(* assignments are corrected (rerouted), failed routings are retried,      *)
(* Agents change, persists reject and the host dies.  The corrections are  *)
(* compacted into the Channel's routing memory outside the lock.           *)
(*                                                                         *)
(* Every message is the root of a Thread of its own, so it has its own     *)
(* run; what a turn does once it starts is in ThreadDelivery.              *)
(***************************************************************************)
EXTENDS Naturals, FiniteSets, SequencesExt

CONSTANTS
    Agents,     \* the members of the Channel
    Named,      \* the sets of Agents that a message may name
    Chosen,     \* the sets of Agents that a decision or a correction may choose
    Starts      \* saved documents to begin with, each with its bounds on events

VARIABLES
    doc,      \* this.state: the messages in order and channel.routingMemory
    saved,    \* what a restart would load
    holder,   \* the section that holds the state lock while it waits for persist()
    routings, \* startConversationRun of each message
    compact,  \* compactRoutingMemory: the one under the Channel's memory lock
    queued,   \* ... and how many wait for that lock
    fresh,    \* the next identifier (randomUUID), in the order of creation
    turns,    \* the assignments handed to deliverAgentReply, in order
    left,     \* how many events of each kind may still happen
    told      \* history: what the exceptions of the properties need

routingVars == <<doc, saved, holder, routings, compact, queued, fresh, turns, left, told>>

Kinds == {"send", "edit", "delete", "reroute", "retry", "reject", "crash", "change"}

-----------------------------------------------------------------------------
(* Documents *)

\* A routing decision: who was selected, the assignments and their corrections.
\* Their order is that of their identifiers.
Assignment == [id : Nat, agent : Agents]
Correction == [id : Nat, from : Nat, to : Nat]
Message == [status : {"pending", "resolved", "failed"}, named : SUBSET Agents,
            as : SUBSET Assignment, corr : SUBSET Correction, deleted : BOOLEAN,
            over : Nat]

Memory == [status : {"empty", "stale", "current", "failed"}, count : Nat,
           through : Nat, covers : SUBSET Nat, beyond : SUBSET Nat, upto : Nat,
           gone : SUBSET Nat]
Document == [msgs : Seq(Message), memory : Memory]
EmptyMemory == [status |-> "empty", count |-> 0, through |-> 0, covers |-> {},
                beyond |-> {}, upto |-> 0, gone |-> {}]

Indexes(d) == 1 .. Len(d.msgs)
Superseded(d, m) == \E n \in Indexes(d) : d.msgs[n].over = m
Retired(d) == {m \in Indexes(d) : d.msgs[m].deleted \/ Superseded(d, m)}

Kept(d) == Indexes(d) \ Retired(d)
Ids(links) == {link.id : link \in links}

\* routingFeedback: the corrections still in force, and the last one of the last
\* message that has any.
Active(d) == UNION {d.msgs[m].corr : m \in Kept(d)}
LastActive(d) ==
    IF Active(d) = {} THEN 0
    ELSE Max(Ids(d.msgs[Max({m \in Kept(d) : d.msgs[m].corr # {}})].corr))

Corrected(msg) == {c.from : c \in msg.corr}
ActiveAssignments(msg) == {a \in msg.as : a.id \notin Corrected(msg)}

\* What createRerouteStateChange keeps up: an Agent has at most one active assignment,
\* somebody has one, and a correction links assignments of different Agents.
Replaced(msg) ==
    /\ \A a, b \in ActiveAssignments(msg) : a.agent = b.agent => a = b
    /\ msg.status = "resolved" => ActiveAssignments(msg) # {}
    /\ \A c \in msg.corr : \E a, b \in msg.as :
         a.id = c.from /\ b.id = c.to /\ a.agent # b.agent

\* A decision of before the identifier next: only a resolved one has corrections.
Routed(msg, next) ==
    /\ IsFiniteSet(msg.as) /\ IsFiniteSet(msg.corr)
    /\ \A link \in msg.as \cup msg.corr : link.id < next
    /\ \A a, b \in msg.as : a.id = b.id => a = b
    /\ msg.status # "resolved" => msg.corr = {}
    /\ msg.status = "failed" => msg.as = {}

WellFormed(d, next) ==
    /\ d \in Document
    /\ \A m \in Indexes(d) : Routed(d.msgs[m], next)
    /\ \A m, n \in Indexes(d) : m # n => Ids(d.msgs[m].as) \cap Ids(d.msgs[n].as) = {}

\* The memory knows how many corrections are in force.
Counted(d) ==
    /\ d.memory.status = "empty" <=> Active(d) = {}
    /\ d.memory.count = Cardinality(Active(d))

\* The summary holds corrections in force.  When it is current each of them is in it,
\* or was beyond the bound of the prompt; the one it goes through is in it.
SummaryIsTrue(d) ==
    /\ d.memory.covers \subseteq Ids(Active(d))
    /\ d.memory.status = "current" =>
         /\ d.memory.covers \cup d.memory.beyond = Ids(Active(d))
         /\ d.memory.through \in d.memory.covers

\* A document whose messages are all decided, and their turns started.
Settled(s) ==
    LET d == [msgs |-> s.msgs, memory |-> s.memory] IN
    /\ s.fresh \in Nat \ {0} /\ s.left \in [Kinds -> Nat]
    /\ WellFormed(d, s.fresh) /\ Counted(d) /\ SummaryIsTrue(d)
    /\ \A m \in Indexes(d) : s.msgs[m].status # "pending" /\ Replaced(s.msgs[m])
    /\ s.turns \in Seq(Nat) /\ IsInjective(s.turns)
    /\ ToSet(s.turns) = UNION {Ids(s.msgs[m].as) : m \in Indexes(d)}

ASSUME RoutingAssumption ==
    /\ IsFiniteSet(Agents)
    /\ {} \notin Chosen /\ Named \cup Chosen \subseteq SUBSET Agents
    /\ \A s \in Starts : Settled(s)

\* As many messages as any of the Starts can come to.
Slots == UNION {1 .. Len(s.msgs) + s.left["send"] + s.left["edit"] : s \in Starts}

\* explicitSendRouting and the "ai" branch of prepareChannelSend: one named
\* Agent needs no decision, several wait for the mode, none for the recipients.
Assign(names, from) ==
    LET order == SetToSeq(names)
    IN  {[id |-> from + i - 1, agent |-> order[i]] : i \in 1 .. Len(order)}

NewMessage(names, over) ==
    [status |-> IF Cardinality(names) = 1 THEN "resolved" ELSE "pending",
     named |-> names, as |-> Assign(names, fresh), corr |-> {},
     deleted |-> FALSE, over |-> over]

\* Slip: deletions and edits leave the memory alone.
RefreshKeepsSummary(d) == d

\* refreshActiveRoutingMemory: a correction that no longer counts takes the
\* summary with it.
RefreshMemory(d) ==
    LET count == Cardinality(Active(d)) IN
    IF count = d.memory.count THEN d
    ELSE [d EXCEPT !.memory =
            IF count = 0 THEN EmptyMemory
            ELSE [EmptyMemory EXCEPT !.status = "stale", !.count = count]]

\* failedRoutingDecision
Failed(msg) == [msg EXCEPT !.status = "failed", !.as = {}, !.corr = {}]

-----------------------------------------------------------------------------
(* The lock *)

Idle == [kind |-> "idle"]
Free == holder = Idle

\* Under the lock: memory is edited, then persist() is awaited.
Save(kind, m, ids, d) ==
    /\ doc' = d
    /\ holder' = [kind |-> kind, msg |-> m, ids |-> ids, prev |-> doc]

Spend(kind) ==
    /\ left[kind] > 0
    /\ left' = [left EXCEPT ![kind] = @ - 1]

NoRun == [stage |-> "none", agents |-> {}, stale |-> {}, count |-> 0, ids |-> {}]

\* Slip: what needs no decision is not started.
RunOfPending(msg) ==
    IF msg.status = "pending" THEN [NoRun EXCEPT !.stage = "start"] ELSE NoRun

RunOf(msg) ==
    IF msg.status = "pending" THEN [NoRun EXCEPT !.stage = "start"]
    ELSE [NoRun EXCEPT !.stage = "deliver", !.ids = Ids(msg.as)]

NoCompact == [stage |-> "none"]

-----------------------------------------------------------------------------
(* What the user asks for *)

\* acceptPreparedSend; an edit is a new message that supersedes the old one.
AcceptMessage(names, over) ==
    /\ Free
    /\ Save("send", Len(doc.msgs) + 1, {},
            LET d == [doc EXCEPT !.msgs = @ \o <<NewMessage(names, over)>>]
            IN  IF over = 0 THEN d ELSE RefreshMemory(d))
    /\ fresh' = fresh + Cardinality(names)
    /\ UNCHANGED <<saved, routings, compact, queued, turns>>

Send == Spend("send") /\ (\E names \in Named : AcceptMessage(names, 0)) /\ UNCHANGED told

Edit(m) ==
    /\ Spend("edit")
    /\ ~doc.msgs[m].deleted
    /\ \E names \in Named : AcceptMessage(names, m)
    /\ told' = [told EXCEPT !.undone = @ \/ compact.stage # "none"]

\* prepareMessageDeletion .. applyMessageDeletion
Delete(m) ==
    /\ Free
    /\ Spend("delete")
    /\ ~doc.msgs[m].deleted
    /\ Save("delete", m, {}, RefreshMemory([doc EXCEPT !.msgs[m].deleted = TRUE]))
    /\ UNCHANGED <<saved, routings, compact, queued, fresh, turns, told>>

\* Slip: every target gets an assignment of its own.
ExistingNever(msg, t) == {}

Existing(msg, t) == {b \in ActiveAssignments(msg) : b.agent = t}

\* prepareReroute refuses what is deleted, superseded or already corrected;
\* createRerouteStateChange links an Agent that has another active assignment
\* to it and makes an assignment for the others.
Reroute(m, a, targets) ==
    LET msg == doc.msgs[m]
        order == SetToSeq(targets)
        made == Assign({t \in targets : Existing(msg, t) = {}}, fresh)
        base == fresh + Cardinality(made)
        assigned(t) == CHOOSE b \in made \cup Existing(msg, t) : b.agent = t
        corrections == {[id |-> base + i - 1, from |-> a.id, to |-> assigned(order[i]).id] :
                          i \in 1 .. Len(order)}
    IN
    /\ Free
    /\ Spend("reroute")
    /\ m \notin Retired(doc)
    /\ a.id \notin Corrected(msg)
    /\ a.agent \notin targets
    /\ Save("reroute", m, Ids(made),
            [doc EXCEPT
               !.msgs[m] = [msg EXCEPT !.status = "resolved", !.as = @ \cup made,
                                       !.corr = @ \cup corrections],
               !.memory.status = "stale",
               !.memory.count = Cardinality(Active(doc)) + Cardinality(targets)])
    /\ fresh' = base + Cardinality(targets)
    /\ told' = [told EXCEPT !.cut = IF msg.status = "pending" THEN @ \cup {m} ELSE @]
    /\ UNCHANGED <<saved, routings, compact, queued, turns>>

\* prepareRoutingRetry: by inference, to the Agents named before or to nobody
\* in particular, or to one Agent chosen by hand.  The text of a deleted
\* message is empty, which prepareSend refuses.
Retry(m, names) ==
    LET msg == doc.msgs[m] IN
    /\ Free
    /\ Spend("retry")
    /\ msg.status = "failed" /\ ~msg.deleted
    /\ names = msg.named \/ Cardinality(names) = 1
    /\ Save("retry", m, {},
            [doc EXCEPT !.msgs[m] = NewMessage(names, msg.over)])
    /\ fresh' = fresh + Cardinality(names)
    /\ UNCHANGED <<saved, routings, compact, queued, turns, told>>

\* commitMutation of an Agent's access: invalidateAgentExecution
ChangeAgent(a) ==
    /\ Free
    /\ Spend("change")
    /\ routings' = [m \in Slots |->
                  IF routings[m].stage = "none" THEN routings[m]
                  ELSE [routings[m] EXCEPT !.stale = @ \cup {a}]]
    /\ UNCHANGED <<doc, saved, holder, compact, queued, fresh, turns, told>>

-----------------------------------------------------------------------------
(* The run of a message: resolvePendingRouting and the start of its turns *)

Stage(m, stage) == routings[m].stage = stage
Become(m, run) == routings' = [routings EXCEPT ![m] = run]

\* Slip: a deleted message is still pending.
IsPendingEvenDeleted(m) == doc.msgs[m].status = "pending"

\* currentPendingRoutingMessage, read without the lock: a holder that is still
\* waiting for its persist counts.
IsPending(m) == doc.msgs[m].status = "pending" /\ ~doc.msgs[m].deleted

\* validateChannelRouteResult and prepareResolvedPendingRouting
Decide(m, agents) ==
    IF ~IsPending(m) THEN Become(m, NoRun)
    ELSE IF agents \cap routings[m].stale # {}
    THEN Become(m, [routings[m] EXCEPT !.stage = "failing"])
    ELSE Become(m, [routings[m] EXCEPT !.stage = "decided", !.agents = agents])

Decisions(m) ==
    IF doc.msgs[m].named # {} THEN {doc.msgs[m].named} ELSE Chosen

\* routeChannelMessage: the local classifier is asked when it is there and its
\* narrow questions apply.
StartRouting(m) ==
    /\ Stage(m, "start")
    /\ \E next \in {"classify", "infer", "failing"} :
         Become(m, [routings[m] EXCEPT !.stage = next, !.count = Cardinality(Active(doc))])
    /\ UNCHANGED <<doc, saved, holder, compact, queued, fresh, turns, left, told>>

\* A local decision counts only if the number of corrections is the same.
SameCorrections(m) == Cardinality(Active(doc)) = routings[m].count

Classified(m) ==
    /\ Stage(m, "classify")
    /\ SameCorrections(m)
    /\ \E agents \in Decisions(m) : Decide(m, agents)
    /\ UNCHANGED <<doc, saved, holder, compact, queued, fresh, turns, left, told>>

NotClassified(m) ==
    /\ Stage(m, "classify")
    /\ Become(m, [routings[m] EXCEPT !.stage = "infer"])
    /\ UNCHANGED <<doc, saved, holder, compact, queued, fresh, turns, left, told>>

Inferred(m) ==
    /\ Stage(m, "infer")
    /\ \/ \E agents \in Decisions(m) : Decide(m, agents)
       \/ Become(m, [routings[m] EXCEPT !.stage = "failing"])
    /\ UNCHANGED <<doc, saved, holder, compact, queued, fresh, turns, left, told>>

\* Slip: what was current when the decision arrived is taken to be current.
StillAllowedOnce(m) == TRUE

StillAllowed(m) == routings[m].agents \cap routings[m].stale = {}

\* Slip: the message is not looked up again.
CommitUnchecked(m) ==
    /\ Stage(m, "decided")
    /\ Free
    /\ LET made == Assign(routings[m].agents, fresh) IN
       /\ Save("route", m, Ids(made),
               [doc EXCEPT !.msgs[m] = [@ EXCEPT !.status = "resolved",
                                                 !.as = made, !.corr = {}]])
       /\ Become(m, [routings[m] EXCEPT !.stage = "saving"])
       /\ fresh' = fresh + Cardinality(made)
    /\ UNCHANGED <<saved, compact, queued, turns, left, told>>

\* commitResolvedPendingRouting checks again under the lock.
Commit(m) ==
    /\ Stage(m, "decided")
    /\ Free
    /\ IF ~IsPending(m) THEN Become(m, NoRun) /\ UNCHANGED <<doc, holder, fresh>>
       ELSE IF ~StillAllowed(m)
       THEN Become(m, [routings[m] EXCEPT !.stage = "failing"]) /\ UNCHANGED <<doc, holder, fresh>>
       ELSE LET made == Assign(routings[m].agents, fresh) IN
            /\ Save("route", m, Ids(made),
                    [doc EXCEPT !.msgs[m] = [@ EXCEPT !.status = "resolved",
                                                      !.as = made, !.corr = {}]])
            /\ Become(m, [routings[m] EXCEPT !.stage = "saving"])
            /\ fresh' = fresh + Cardinality(made)
    /\ UNCHANGED <<saved, compact, queued, turns, left, told>>

\* commitFailedPendingRouting
CommitFailed(m) ==
    /\ Stage(m, "failing")
    /\ Free
    /\ IF ~IsPending(m) THEN Become(m, NoRun) /\ UNCHANGED <<doc, holder>>
       ELSE /\ Save("fail", m, {}, [doc EXCEPT !.msgs[m] = Failed(@)])
            /\ Become(m, [routings[m] EXCEPT !.stage = "saving"])
    /\ UNCHANGED <<saved, compact, queued, fresh, turns, left, told>>

\* processReplies starts the turns of what was prepared and nothing else.
Deliver(m) ==
    /\ Stage(m, "deliver")
    /\ turns' = turns \o SetToSeq(routings[m].ids)
    /\ Become(m, NoRun)
    /\ UNCHANGED <<doc, saved, holder, compact, queued, fresh, left, told>>

-----------------------------------------------------------------------------
(* compactRoutingMemory *)

\* The order of routingFeedback: that of the messages, not of the corrections.
Follows(d, e, c) ==
    \E m, n \in Kept(d) :
      /\ e \in d.msgs[m].corr /\ c \in d.msgs[n].corr
      /\ m > n \/ (m = n /\ e.id > c.id)

\* buildRoutingMemoryCompactionPrompt, from this.state as it is at the moment: the
\* last correction, and before it as many as fit into MAX_ROUTING_FEEDBACK_CHARS.
Prompts(d) ==
    {read \in SUBSET Active(d) :
       read # {} /\ \A c \in read, e \in Active(d) : Follows(d, e, c) => e \in read}

\* The summary of before is part of the prompt.
Source(d, read) == d.memory.covers \cup Ids(read)

StartCompact ==
    /\ queued > 0 /\ compact.stage = "none"
    /\ queued' = queued - 1
    /\ IF Active(doc) = {} THEN compact' = NoCompact
       ELSE \E read \in Prompts(doc) :
              compact' = [stage |-> "asking", source |-> doc, read |-> read, ok |-> FALSE]
    /\ told' = [told EXCEPT !.undone = FALSE]
    /\ UNCHANGED <<doc, saved, holder, routings, fresh, turns, left>>

Compacted ==
    /\ compact.stage = "asking"
    /\ \E ok \in BOOLEAN : compact' = [compact EXCEPT !.stage = "answered", !.ok = ok]
    /\ UNCHANGED <<doc, saved, holder, routings, queued, fresh, turns, left, told>>

\* hasInvalidatedContextSources: no message of the source is gone, or deleted since.
SameMessages(d, source) ==
    /\ Len(d.msgs) >= Len(source.msgs)
    /\ \A m \in Indexes(source) : d.msgs[m].deleted = source.msgs[m].deleted

\* Slip: the last correction stands for all of them.
StillCurrentLast(d) ==
    /\ LastActive(d) = LastActive(compact.source)
    /\ SameMessages(d, compact.source)

\* updateRoutingMemoryIfCurrent
StillCurrent(d) ==
    /\ d.memory.count = compact.source.memory.count
    /\ LastActive(d) = LastActive(compact.source)
    /\ SameMessages(d, compact.source)

CommitCompact ==
    /\ compact.stage = "answered"
    /\ Free
    /\ IF ~StillCurrent(doc)
       THEN compact' = NoCompact /\ UNCHANGED <<doc, holder, told>>
       ELSE /\ Save("compact", 0, {},
                    [doc EXCEPT !.memory =
                       IF compact.ok
                       THEN [status |-> "current",
                             covers |-> Source(compact.source, compact.read),
                             beyond |-> Ids(Active(compact.source))
                                          \ Source(compact.source, compact.read),
                             count |-> Cardinality(Active(compact.source)),
                             through |-> LastActive(compact.source),
                             upto |-> fresh, gone |-> Retired(doc)]
                       ELSE [@ EXCEPT !.status = "failed",
                                      !.count = Cardinality(Active(compact.source))]])
            /\ compact' = [stage |-> "saving"]
            /\ told' = [told EXCEPT !.overtaken = @ \/ told.undone]
    /\ UNCHANGED <<saved, routings, queued, fresh, turns, left>>

-----------------------------------------------------------------------------
(* The persist of the holder of the lock, and the death of the process *)

\* What follows the persist in each holder.
Saved ==
    /\ ~Free
    /\ saved' = doc
    /\ holder' = Idle
    /\ routings' = CASE holder.kind \in {"send", "retry"} -> [routings EXCEPT ![holder.msg] = RunOf(doc.msgs[holder.msg])]
                 [] holder.kind = "route" -> [routings EXCEPT ![holder.msg] =
                                            [@ EXCEPT !.stage = "deliver", !.ids = holder.ids]]
                 [] holder.kind = "fail" -> [routings EXCEPT ![holder.msg] = NoRun]
                 [] OTHER -> routings
    /\ turns' = IF holder.kind = "reroute" THEN turns \o SetToSeq(holder.ids) ELSE turns
    /\ queued' = IF holder.kind = "reroute" THEN queued + 1 ELSE queued
    /\ compact' = IF holder.kind = "compact" THEN NoCompact ELSE compact
    /\ UNCHANGED <<doc, fresh, left, told>>

\* Slip: a decision that could not be saved ends the run.
RejectedRunEnds(m) == NoRun

RejectedRun(m) == [routings[m] EXCEPT !.stage = "failing"]

\* The state of before is put back.  A decision that could not be saved is
\* recorded as failed; a failure that could not be saved is only logged.
Rejected ==
    /\ ~Free
    /\ Spend("reject")
    /\ doc' = holder.prev
    /\ holder' = Idle
    /\ routings' = CASE holder.kind = "route" -> [routings EXCEPT ![holder.msg] = RejectedRun(holder.msg)]
                 [] holder.kind = "fail" -> [routings EXCEPT ![holder.msg] = NoRun]
                 [] OTHER -> routings
    /\ compact' = IF holder.kind = "compact" THEN NoCompact ELSE compact
    /\ told' = [told EXCEPT
                  !.stranded = IF holder.kind \in {"fail", "delete", "reroute"}
                               THEN @ \cup {holder.msg} ELSE @,
                  !.undone = @ \/ (holder.kind = "reroute" /\ compact.stage # "none")]
    /\ UNCHANGED <<saved, queued, fresh, turns>>

\* routingSummaryStillSupported: the checkpoint counts and no message with a
\* correction of before the summary was retired after it.
Supported(d) ==
    /\ d.memory.through \in Ids(Active(d))
    /\ \A m \in Retired(d) \ d.memory.gone :
         \A c \in d.msgs[m].corr : c.id >= d.memory.upto

\* refreshLoadedChannelMemory
LoadMemory(d) ==
    LET count == Cardinality(Active(d))
        still == /\ d.memory.status = "current"
                 /\ d.memory.count = count
                 /\ d.memory.through = LastActive(d)
        kept == IF Supported(d) THEN d.memory ELSE EmptyMemory
    IN  IF Active(d) = {} THEN EmptyMemory
        ELSE [kept EXCEPT !.status = IF still /\ Supported(d) THEN "current" ELSE "stale",
                          !.count = count]

\* Slip: what was being routed is left as it was found.
LoadAsFound(d) == [msgs |-> d.msgs, memory |-> LoadMemory(d)]

\* initialize: refreshLoadedChannelMemory and markInterruptedRuns, saved at once.
Load(d) ==
    [msgs |-> [m \in Indexes(d) |->
                 IF d.msgs[m].status = "pending" THEN Failed(d.msgs[m]) ELSE d.msgs[m]],
     memory |-> LoadMemory(d)]

Crash ==
    /\ Spend("crash")
    /\ \E d \in {doc, saved} :
         /\ d = saved \/ ~Free
         /\ doc' = Load(d)
         /\ saved' = Load(d)
    /\ holder' = Idle
    /\ routings' = [m \in Slots |-> NoRun]
    /\ compact' = NoCompact
    /\ queued' = 0
    /\ told' = [told EXCEPT !.stranded = {},
                            !.cut = @ \cup Indexes(saved) \cup Indexes(doc)]
    /\ UNCHANGED <<fresh, turns>>

-----------------------------------------------------------------------------

RoutingInit ==
    \E s \in Starts :
      /\ doc = [msgs |-> s.msgs, memory |-> s.memory]
      /\ saved = [msgs |-> s.msgs, memory |-> s.memory]
      /\ holder = Idle
      /\ routings = [m \in Slots |-> NoRun]
      /\ compact = NoCompact
      /\ queued = 0
      /\ fresh = s.fresh
      /\ turns = s.turns
      /\ left = s.left
      /\ told = [cut |-> {}, stranded |-> {}, undone |-> FALSE, overtaken |-> FALSE]

Request ==
    \/ Send
    \/ \E m \in Indexes(doc) :
         \/ Edit(m)
         \/ Delete(m)
         \/ \E a \in doc.msgs[m].as, targets \in Chosen : Reroute(m, a, targets)
         \/ \E names \in Named \cup Chosen : Retry(m, names)
    \/ \E a \in Agents : ChangeAgent(a)

RunStep(m) ==
    \/ StartRouting(m) \/ Classified(m) \/ NotClassified(m) \/ Inferred(m)
    \/ Commit(m) \/ CommitFailed(m) \/ Deliver(m)

HostStep == (\E m \in Slots : RunStep(m)) \/ StartCompact \/ Compacted \/ CommitCompact

RoutingNext == Request \/ HostStep \/ Saved \/ Rejected \/ Crash

\* The host's own steps: an inference has a deadline (runAcpInference), a local
\* classification is aborted with the host, and a persist ends.
RoutingSpec == RoutingInit /\ [][RoutingNext]_routingVars /\ WF_routingVars(HostStep) /\ WF_routingVars(Saved)

-----------------------------------------------------------------------------
(* Properties *)

\* Every variable keeps its type.
RoutingTypeOK ==
    /\ \A d \in {doc, saved} : WellFormed(d, fresh) /\ Counted(d)
    /\ Free => doc = saved
    /\ \A m \in Slots :
         /\ Stage(m, "saving") => ~Free /\ holder.msg = m
         /\ routings[m].stage \notin {"none", "saving", "deliver"} => m \in Indexes(saved)
    /\ compact.stage \in {"none", "asking", "answered", "saving"}

\* A turn is started for an assignment that a restart would still find with
\* its message, and at most once: neither a reroute whose persist rejected nor
\* two decisions for one message, a retry or a correction of a message that is
\* being routed start anything else.
TurnsAreRecorded ==
    /\ IsInjective(turns)
    /\ \A id \in ToSet(turns) : \E m \in Indexes(saved) :
         id \in Ids(saved.msgs[m].as)

\* Whatever sequence of corrections: an Agent has at most one active assignment
\* for a message, somebody has one, and every correction links two assignments
\* of the message to different Agents (createRerouteStateChange).
CorrectionsReplace == \A m \in Indexes(saved) : Replaced(saved.msgs[m])

\* A deletion that was saved is final for the routing: a decision that arrives
\* afterwards, however far it had come, is neither recorded nor delivered, and
\* no correction or retry is accepted.  Only a restart settles what was pending.
DeletionEndsRouting ==
    [][\A m \in Indexes(saved) :
         saved.msgs[m].deleted =>
           /\ \/ saved'.msgs[m] = saved.msgs[m]
              \/ saved'.msgs[m] = Failed(saved.msgs[m]) /\ left'["crash"] < left["crash"]
           /\ saved.msgs[m].status = "pending" =>
                \A a \in saved.msgs[m].as : a.id \notin ToSet(turns')]_routingVars

\* A decision is recorded only for Agents whose authority is what it was when
\* the message was prepared, although it is checked before the wait for the
\* lock and long before that.
DecidedAgentsAreCurrent ==
    [][\A m \in Slots :
         Stage(m, "saving") /\ routings'[m].stage = "deliver" =>
           \A a \in saved'.msgs[m].as : a.agent \notin routings[m].stale]_routingVars

\* While nobody waits for the lock, a message whose routing is pending has a
\* run that will decide it.  The exception is a message whose failure, deletion
\* or correction could not be saved: the run is over, or took the change for
\* made, and ended.
PendingHasOwner ==
    Free => \A m \in Indexes(doc) :
      IsPending(m) /\ m \notin told.stranded => routings[m].stage # "none"

\* A message that was resolved has a turn for each active assignment when its
\* run is over.  The exceptions are messages of before a restart and messages
\* corrected while their routing was pending: such a message is resolved by the
\* correction, and the other Agents it names are not reached.
AssignmentsAreDelivered ==
    Free => \A m \in Indexes(doc) :
      doc.msgs[m].status = "resolved" /\ routings[m].stage = "none" /\ m \notin told.cut =>
        \A a \in ActiveAssignments(doc.msgs[m]) : a.id \in ToSet(turns)

\* A routing memory that is shown as current was compacted from the corrections in
\* force, through deletions, edits, further corrections, rejected persists and
\* restarts: it holds none that was withdrawn, and it holds each of them but those
\* that were beyond the bound of the prompt and not in the summary before (beyond).
\* The other exception is a compaction during which a message was edited, or a
\* correction it had read could not be saved: with another correction, the number
\* of corrections and the last of them may be as before, and compactRoutingMemory
\* takes them for unchanged.
CurrentMemoryIsTrue ==
    saved.memory.status = "current" /\ ~told.overtaken =>
      /\ saved.memory.covers \cup saved.memory.beyond = Ids(Active(saved))
      /\ saved.memory.through \in saved.memory.covers

\* Pending routings are decided or fail, or their messages are deleted: again
\* and again nothing is left undecided.  The exception is that of PendingHasOwner.
Undecided == {m \in Indexes(saved) : /\ saved.msgs[m].status = "pending"
                                     /\ ~saved.msgs[m].deleted
                                     /\ m \notin told.stranded}

RoutingSettles == []<>(Undecided = {})

\* What holds of the routed messages in every state: a turn has its assignment, an
\* assignment its place among the corrections, and a pending routing its run.
RoutingConsistent ==
    /\ RoutingTypeOK
    /\ TurnsAreRecorded
    /\ CorrectionsReplace
    /\ PendingHasOwner

\* A decision that arrives late changes nothing that was decided otherwise: neither
\* a deleted message nor one whose Agents have changed.
LateDecisionsAreDropped == DeletionEndsRouting /\ DecidedAgentsAreCurrent

=============================================================================
