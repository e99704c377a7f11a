# Commonspace: specifications, model checks and proofs

Commonspace is a host process that keeps one workspace (Channels, threads,
direct messages, Projects, Agents), lets people write to Agents that run as ACP
child processes, and records what comes back. This directory holds TLA+
specifications of that host, TLC configurations that check them on small
instances, and TLAPS proofs: that the one document is durable, that the host stops
as it promises, that a conversation accepts, keeps and starts each message once,
that no reply crosses `/new`, that a delivery stays within its limit and a relay shows
how it ended, that a schedule sends each occurrence once, as it was saved, and that
the browser's screen never goes back.
Paths below are relative to the repository;
`service.ts` is `server/src/service.ts`.

    tlc -workers 2 -config StateStore.cfg MCStateStore     # any run of PROJECT.json
    tlapm StateStoreProofs.tla                             # the proofs of a *Proofs module

## 1. The system

Everything that matters happens in one Node process, in the class
`CommonspaceHostService`. There are no threads: two pieces of code interleave
only at an `await`. What makes it hard is that almost every operation awaits
several times, that the document is edited in memory *before* the write that
makes the edit durable is known to succeed, and that work goes on in the
background after the request that started it was answered.

| Component | State it keeps | Operations | Correct when |
| --- | --- | --- | --- |
| State store | `this.state`, `stateChangeTail`, `state.json`, `state.backup.json`, `state.corrupt.json` | `withStateChange`, `withPersistedStateChange`, `persist`, `initialize`, `restorePersistedState` | an acknowledged change survives; memory is what was acknowledged; start-up finds a document |
| Host life cycle | `activeAdmissions`, `exclusiveAdmission`, `draining`, `closing`, `closeOperation`, `backgroundRuns` | `withAdmission` (shared or exclusive), `drainAndClose`, `close`, `whenIdle` | nothing moves after close; nothing is lost or aborted by a drain; both end |
| Conversation queue | `activeConversationRuns`, `pendingFollowups`, submission receipts, attachment files | `send`, `acceptPreparedSend`, `startConversationRun`, `reorderFollowup`, `removeFollowup` | one message per submission, one run per message, nothing left behind |
| Direct message runs | `replyStatus`, `permissions`, `permissionResolvers`, `activeAgentRuns`, `dmSessions` | `deliverAgentReply`, `markDirectMessageRunStarted`, `completeAgentReply`, `stopAgentRuns`, `interruptAgentRuns`, `respondPermission`, `reset-dm` | the status says what happened; nothing crosses `/new`; every message settles |
| Channel delivery | `ReplyDeliverySession`, `pendingAgentHandoffs`, `agentSessionTails`, `agentSessions` | `processReplies`, `deliverAgentReply`, `continueReplyDelivery`, `reserveAgentDelivery`, `handoff`, `withAgentSessionLock`, `runAgentWithRecovery` | turns are bounded, sessions are shared in turn, the outcome is visible |
| Workspace mutations | the document | `mutate`, the reducers of `state.ts` | removal and edits agree with runs in flight |
| Routing and inference | routing of messages, corrections, `routing.json` | `resolvePendingRouting`, `commitResolvedPendingRouting`, `commitFailedPendingRouting`, reroute, retry, `compactRoutingMemory` | a late decision is not applied to what is gone; what is decided is delivered |
| Schedules | `schedules`, `scheduleTimer`, `scheduleRun`, `scheduleRetryAt` | `armScheduleTimer`, `runDueSchedules`, acceptance with a schedule | an occurrence is sent once, and a due one is served |
| Attachments, deletion, retention | attachment files, `pendingAttachmentDeletions` | `deleteMessage`, `previewRetention`, `applyRetention`, `removePendingAttachmentDeletions` | files and messages agree, also across a death |
| Context memory | `memory` of Threads and Channels, `contextRefreshes` | `scheduleContextRefresh`, compaction, projection and merge, edits | a late summary undoes no edit and brings back nothing deleted |
| ACP process runtime | `acpProcesses`, `acpProcessClosures`, bridge processes, pending requests | launch, `initialize`, `#request`, `close`, lane rotation | one bridge per scope, none left behind, none on outdated access |
| Client store (`ui/src/commonspace-store.ts`) | snapshot, revision, `routingGeneration` | poll, event stream, mutation answers | an older revision never replaces a newer one, and the screen catches up |
| Supervisor, workspace lock | child state, `.host.lock` | restart, acquire, release | one host per workspace |
| HTTP and MCP gateways, search, portability, classifier, adapters, user interface, telemetry | none, or derived | parsing, dispatch, rendering | see section 7 |

How they interact. A request enters through `withAdmission`. `send` replays a
known submission or stores attachments, and takes the state store's lock to
accept the message. Acceptance starts the conversation's run loop, or appends to
`pendingFollowups`. The loop awaits `processReplies`, which delivers to one or
several Agents; every delivery is an entry of `activeAgentRuns`, takes the Agent's
session lock, starts or resumes an ACP session, and comes back to the state
store's lock three or four times to record what happened. Permissions call
*into* the host from the middle of a run and are answered by another request.
`stopAgentRuns`, steering, `/new` and `close` reach over to runs through their
`AbortController`. `initialize` settles in the next process what the last one
left open.

What is hard here, and what the properties are for (the full list, by line, is
"hazards" in `PROJECT.json`):

- a decision read before an `await` and used after it (the session to resume,
  the status to write, the queue to restore);
- rollback: `this.state = previousState` is right only because of the lock, and
  memory outside the document (`pendingFollowups`, `permissionResolvers`,
  `relayStopRecorded`) has to be rolled back by hand, or not;
- a rejected `persist()` in the middle of a background run, which unwinds
  through code that expected to be finished;
- process death between file operations, and between a message and its reply;
- shutting down while all of this is going on.

## 2. Modules

| Module | Models | Composed with |
| --- | --- | --- |
| `DurableLog` | what the state store promises: an abstract log of changes and what callers were told | implemented by `StateStore` |
| `StateStore` | lock, edit, `persist` in its awaited stretches, rollback, process death, damage, start-up | |
| `HostLifecycle` | admission, imports, permissions, drain, close | |
| `Conversation` | submissions, acceptance, the run loop and its queue | uses the outcomes of `persist` that `StateStore` shows, as do all below |
| `DirectMessage` | every writer of `replyStatus` in a direct conversation | |
| `ThreadDelivery` | one message delivered in a Channel thread | takes over where `Routing` hands assignments on |
| `Routing` | the decisions about the messages of a Channel, corrections and routing memory | |
| `History` | files of messages, deletion and retention | |
| `ContextMemory` | the memory of one Channel or Thread | |
| `ScheduledMessages` | timer, due schedules and their acceptance | |
| `AcpProcess` | the bridge processes of one Agent scope | |
| `ClientStore` | the browser's copy beside a host | host and browser in one module |
| `StateStoreProofs`, `HostLifecycleProofs`, `ConversationProofs`, `DirectMessageProofs`, `ThreadDeliveryProofs`, `ScheduledMessagesProofs`, `HistoryProofs`, `AcpProcessProofs` | inductive invariants and theorems | extend the module of their name; `StateStoreProofs` also `ClientStore`, the other end of the document's revisions, `ThreadDeliveryProofs` also `ContextMemory`, the memory of the thread it writes in, and `HostLifecycleProofs` also `Routing` |
| `MC*` | the constants of the small instances | extend the module of their name |

Two abstractions are shared by all that touch the document. A *locked section* of
`withStateChange` is two steps: it begins (decide and edit memory, when the lock
is its own) and it settles (the persist resolved, or it rejected and the edit is
undone). Everything else that runs between two awaits is one step. A document is
reduced to what the properties tell apart.

### StateStore

`memory`, `previous` and `snapshot` are `this.state`, the `previousState` of the
section that holds the lock, and the JSON `persist()` takes at its first line.
`queue` is `stateChangeTail`. `step` says where the persist stands: `Rotate`
(`state.json` copied to the backup, ENOENT skipped), `Replace` (the temporary file
renamed over `state.json`), `Saved` (temporary files removed) or `Rollback`.
`Rollback` is possible *after* `Replace` as well: removing the temporary files may
reject, and then the caller hears of a failure although `state.json` has the
change. `Reject` is a change that throws before it is persisted. `Crash` may
happen between any two of these. `Damage` is the event that automatic recovery
exists for. `Restore`, `Refuse`, `Discard` and `Quarantine` are `initialize` and
`restorePersistedState`, which ends with a persist of its own. A file is missing,
corrupt, or a document; a document is the set of changes in it.

`DurableLog` has two variables, what is durable and what callers were told, and
says that an acknowledgement needs durability and that a restart may decide only
what was in doubt. `ImplementsDurableLog` states the refinement with
`durable <- Recovered`, `told <- outcome`. A damaged file is not something a log
promises to survive, so the refinement is asked of the steps up to the first
damage; what holds afterwards is `DamageLosesAtMostOne`.

### HostLifecycle

`StartSend`, `AcceptSend`, `RejectSend` are an operation inside `withAdmission`;
`StartImport`, `FinishImport` one inside the exclusive admission; `Ask`, `StartAnswer`,
`FinishAnswer` a permission. The two variables `drain` and `close` are the
program counters of `drainOperation` and `closeOperation`, whose awaits are their
values: runs, permissions, admissions, runs again, and so on, in the order of the
code. A message that is accepted after `close()` began gets no run (`dropped`),
which is why `close` settles open messages once more at its end.

### Conversation

A message is named by the send that created it. `Prepare`, `Replay`, `BeginAccept`,
`Accept` and `AcceptFails` are `send`; `FinishTurn`, `BeginRecord`, `Record`,
`RecordFails`, `Advance` and `Abandon` the run loop with the persist of the reply in
it; `Reorder`, `BeginRemove`, `Removed` and `RemoveFails` the queue operations.
`pendingFollowups` is not part of the document: the loop may shift it while a
`removeFollowup` waits for its persist, whose rollback then restores the queue of
before (`RemoveFails`). A persist that rejects after the rename leaves its change on
`disk` and not in `state`.

### DirectMessage

`queue` is the lock's FIFO of *sections*, each naming what it is going to do
(`accept`, `start`, `complete`, `fail`, `interrupt`, `stop`, `steer`, `cancel`, `ask`,
`answer`, `reset`, `close`, `shutdown`). A section is queued when the code calls
`withStateChange`, and looks at the document only when the lock is its own: so
what it decides from may have changed. `phase` is where each message and its run
stand, `bornIn` the session (`dmSessions`) its send was prepared for, `aborted` its
`AbortController`, `resolvers` the map of promises that permissions wait on.
`Crash` and `Exit` end the process; `Restart` is `initialize`, which settles `queued` and
`running` messages and interrupts permissions.

### ThreadDelivery

Starts where `processReplies` has its assignments. A chain is named by the
assigned Agent it began with; a relay has one chain, a parallel delivery one per
Agent. `turns` holds the reserved turns with the edge that led to each, so that
`delivered`, `deliveredTurns` and `relayEdges` are read off it. A turn is `seating`
(`ensureAgentThreadMembership`), `queued` for its Agent's session lock with the
session it read *before* (`resumes`), `running`, perhaps `forgetting` a session
that is gone and running again in a new one, then `completing`, `failing` or
`interrupting`. After a reply `Continue` is `continueReplyDelivery`: a structured
handoff, a mention in the final paragraph, the next Agent of the plan, or the
end; the first three call `reserveAgentDelivery`, which may instead go on to record
a stop. `waiting` is `agentSessionTails`, `lock` again the state store's FIFO. `used`
is an observer: the native sessions each Agent has had a turn in.

### Routing

`doc` and `saved` are the messages of one Channel with their status (`pending`,
`resolved`, `failed`), the assignments and corrections of each, and the routing
memory. `holder` is whoever holds the state lock across its persist. A run of
`startConversationRun` goes through `routings[m].stage`: it reads its message, asks the
classifier or the inference Agent, checks that the Agents it chose have the
authority they had when the message was prepared, and commits or fails the
routing in a section of its own, after which it delivers (`turns`).
`Reroute`, `Retry`, `Edit` and `Delete` are user requests that may fall anywhere in
between; `ChangeAgent` makes decided Agents stale. `compact` is
`compactRoutingMemory`: the document it read (`sourceState`), its inference outside the
lock, and its commit, which compares the number of corrections, the last of them, and
the messages (`StillCurrent`). `Crash` is a process death with
the start-up after it: runs and compactions are lost, pending routings fail, and
the memory is made to fit what was loaded.

### History

`doc`, `disk` and `previous` hold what each message's status is, which files are
named and which are listed in `pendingAttachmentDeletions`. `files` is the
attachment directory. `queue` is the FIFO of sections (`accept`, `reply`, `delete`,
`retain`, `cleanup`, `other`); a send or an edit stores its files before it queues,
a refused one removes them after. `preview` and `retention` are the two requests of
a retention. The persist may reject before or after the rename, the removal of
files may fail half way, and the host may die at any point and clean up at its
next start.

### ContextMemory

`doc.mem` is the memory: where it came from (`automatic`, `inference`, `user`), its
status, the last message it covers (`through`) and, as its text, the set of
messages it was inferred from. `auto` is `scheduleContextRefresh` with its
`contextRefreshes` entry (`dirty`: asked again meanwhile); `man` is the compaction a
user asks for, which marks `compacting`, infers, and completes or records a
failure. Each waits for the memory's own lock, reads the document, infers outside
every lock and commits in a section. Sections that add, delete or edit merge the
memory with its projection, as `mergeThreadMemoryProjection` and
`mergeChannelMemoryProjection` do.

### ScheduledMessages

`now` counts minutes. `timer` is `scheduleTimer`; `run` is `scheduleRun` with the list of
schedules it found due and the stage of the first: `preparing`, `accepting` (waiting
for the lock), `persisting`. A change replaces the schedule's object, which is what
`scheduleIsDue` compares; `retryAt` is `scheduleRetryAt`. The section that accepts the
message advances or removes the schedule in the same persist.

### AcpProcess

One scope: a native session or an inference lane. `client` and `closures` are
`acpProcesses` and `acpProcessClosures`; `process` are the `AcpAgentProcess` objects ever
made, `bridge` the operating-system processes, with what the system knows (`os`)
and what the host knows (`link`, `cleanup`) apart. `step` follows the run of the scope
through the wait for closures, launch, `initialize`, session, prompt and its one
recovery. `change` are mutations of the Agent, which close processes after their
persist; `HostCloses` and what follows is `close()`. A bridge may exit, hang or lose
its stream at any time, and a request timer may fire.

### ClientStore

The host is `server`, `[rev, doc, routing, act]`, with the change being saved; a rejected
persist puts the previous document and its lower revision back. `Versions` numbers what
the host can serve; a copy of the browser is one of them. The browser has
one refresh at most, the pending revision, configuration and activity that ask for
the next, the event stream with its loss and reconnection, and its own requests,
whose answers may come in any order. `Requests` may be a mutation answered with the
state, one answered with nothing, a removal of an Agent, and a change of routing.

## 3. Runs

| Run | Bounds | Distinct states | What it shows |
| --- | --- | --- | --- |
| `store` | 3 changes, 2 process deaths, 2 damages | 50 000 | durability, rollback and recovery; refinement of `DurableLog`; every caller is answered |
| `host` | 3 sends, 1 import, 1 question per run, 1 rejected persist | 390 000 | a closed host is quiet and settled; a drain aborts nothing; close and drain end |
| `conversation` | 4 sends of 3 submissions, one failure of each of three kinds, 1 process death | 257 000 | accepted once, kept, started once, in order, not stranded unless a persist rejects |
| `dm_safety` | 2 messages, 1 `/new`, 1 rejected persist (symmetric messages) | 1 570 000 | status against run, the `/new` boundary, pending permissions |
| `dm_live` | 1 message, 2 `/new`, 2 stops or deaths, 1 rejected persist | 110 000 | every accepted message settles or waits for the user |
| `thread` | relay of 3 (limit 3), relay of 2 (limit 4), 2 in parallel (limit 3), single Agent (limit 4), one Agent the delivery does not know, 1 rejected persist, 1 lost session | 720 000 | bounded turns, one turn per session, one visible stop, a relay loses nobody, the delivery ends |
| `client` | 2 requests; up to 3 of the 6 kinds of things that happen without a request, each kind of request beside one of them, and some pairs | 342 000 | the screen keeps own changes, never goes back, and catches up |
| `acp` | at most 2 runs, 2 changes, 2 faults in nine groups of mixes; lanes of 1 session | 234 000 | one bridge per scope, none orphaned or on outdated access; runs and calls end |
| `routing` | 3 Agents, 8 starts: an empty Channel and Channels with a failed compaction; at most 1 send, edit, deletion, retry, rejected persist, death, change of an Agent, 3 reroutes, any part of which fits a prompt | 348 000 | late decisions are dropped, decided ones delivered, none stays pending, current memory is true |
| `history` | 4 messages (old, sent with 2 files, its reply, an edit of the old one), 3 starts | 161 000 | files and document agree through deaths; a retention removes what was shown |
| `context` | 2 messages of pressure, Channel or Thread, 8 starts | 309 000 | human edits stand, deleted text goes, nothing stays compacting |
| `schedules` | one cron and one one-time schedule, period 2, 5 minutes, 3 starts | 673 000 | sent once, as saved, a due one is served |

Why these bounds are enough to meet the interesting cases. `store` needs three
changes for one to be in the backup, one in the primary and one in flight, and two
deaths for one to hit the persist of a start-up. `host` needs three sends for one
to be inside its admission, one to run and one to wait for a permission at once.
`conversation` needs a duplicate submission, a message that runs and two that
wait, so that a removal and the loop can compete for the head of the queue.
`dm_safety` needs two messages for one to interrupt the other, `dm_live` two
resets and two deaths so that the second finds what the first left. In `thread`
the relay of two and the single Agent have a limit of four because the same
directed edge cannot be tried twice in fewer turns, and the relay of three lets
a mention overtake the plan. `client` needs three events for a drop of the stream
to fall between a change and its rollback, `acp` two runs for one to wait for the
closure the other left, `routing` two reroutes for a correction to be corrected and
for the count of corrections to come back to what it was, and three for one to start
a compaction, one to be read and rejected, and one to take its place. `history` needs an old
message and one on its way for a retention to fall between them, two previews for
one to be stale, and a message with two files for a removal to fail half way.
`context` needs two messages of pressure so that a refresh starts below, at and above
it, two edits so that one is read and the other overtakes, and a reply beside an edit
so that the persist of either can reject, and two messages of which one is refused or
deleted while a refresh looks. `schedules` needs five
minutes for an occurrence to be missed, retried and coalesced with the next. Every
action and every disjunct of every `Next` is taken in a run.

The constants and records that bound a model (`MaxCrashes`, `MaxDamage`, `MaxQuestions`,
`MaxFailures`, `MaxLateFailures`, `MaxRemoveFailures`, `MaxResets`, `MaxMissing`,
`MaxTurns`; `MaxRuns`, `MaxChanges`, `Mixes`; the event budgets `left` in `Starts`; `Horizon`)
bound only what the environment does: how often a process dies, a persist
rejects, a user asks for something, and how long the clock runs. `Starts` also say
what is saved at first, always a document that earlier runs of the program can
have left. The small sets of starts and mixes bring every two kinds of trouble
together instead of all at once. No program counter, queue or counter of the code
is cut. `MaxEphemeral`, `Pressure`, `Period` and the turn limits are constants of the
code, made small.

`CHECK_DEADLOCK FALSE` is set because each model comes to rest when its messages are
settled and the budget of its environment is used up.

## 4. Properties

Every property is stated with a comment in its module. What a run checks is often a
conjunction of named parts (`StoreConsistent`, `HostConsistent`, `StopsFinish`,
`QueueConsistent`, `RunsConsistent`, `DeliveryConsistent`, `ShownMovesForward`,
`ProcessesConsistent`, `AllEnds`, `RoutingConsistent`, `LateDecisionsAreDropped`,
`HistoryConsistent`, `RetentionIsExact`, `MemoryConsistent`, `SchedulesConsistent`): the type
invariant and what else holds in every state of the component. The ones a
reviewer might want to argue about:

- `DiskLeadsByOneFailure` (StateStore) makes exact what a failed write may leave
  behind: `state.json` may be ahead of memory by one change, and its caller was
  told that it failed. After a restart that change is there.
- `ClosedSettlesReplies` (HostLifecycle) covers the message that was accepted
  while `close()` was waiting for admissions.
- `OpenHasAnOwner`, `NoOvertaking`, `QueueMoves` (Conversation) hold as long as no
  persist rejects; `StartedOnce` as long as none of a `removeFollowup` does. The
  counterexamples without these conditions are real, see section 6.
- `RemovedNeverStarts` (Conversation) has no such condition: a rolled back removal
  brings its queue back, but none of what a client was told is removed.
- `BoundaryHolds` (DirectMessage) is an action property over what is on disk: from
  the moment `/new` is saved, no reply is saved for a message of before.
- `PendingIsAnswerable` (DirectMessage) relates the document to `permissionResolvers`,
  which is not in it, through a rejected persist of the answer. `OpenHasARun` excepts
  a message whose permission was answered after its run ended.
- `RelayEndsVisibly` (ThreadDelivery) excepts a handoff to an Agent that was
  configured after the message was prepared: the code drops it silently.
  `RelayKeepsSessions` holds for relays, in which turns follow each other; two
  chains of a parallel delivery do not keep one session.
- `OwnWritesShown` and `CatchesUp` (ClientStore) are what the revision check, the
  pending revision and `routingGeneration` are for: an answer that was read before a
  change and arrives after it must neither hide the change nor be the last word.
- `NoOrphan` (AcpProcess) looks at the operating system: a bridge that lives and was
  not told to stop is one the host can still find. `AccessApplied` relates the answer
  of a mutation to the processes of a run that was launching meanwhile.
- `AssignmentsAreDelivered` and `PendingHasOwner` (Routing) relate what is decided to
  the runs and turns outside the document; `CurrentMemoryIsTrue` says that a summary
  shown as current holds no correction that was withdrawn, and every one in force but
  those its prompts had no room for (`memory.beyond`), always the last one.
- `NothingLeaks` (History) accounts for every byte on disk, in memory and after a
  restart; `RemovesWhatWasShown` compares a retention with the preview the user
  confirmed.
- `HumanEditStands` (ContextMemory) holds over what is saved, although an update
  reads the memory, waits seconds and comes back to another document;
  `DeletedContentGoes` is the same for messages deleted under it.
- `SentOnce` and `SendsWhatIsSaved` (ScheduledMessages) relate the message on disk to
  the schedule on disk through edits, retries and deaths while it was on its way;
  `TimerHeld` and `DueIsServed` say that whoever ends last arms the one timer.

Where a property has an exception it is a history variable named for its cause
(`Ghost`, `overtaken`, `undone`, `told.…`, `lost`, `ghosts`, `unclean`, `unarmed`), set only in the
step that brings it about. Each was found necessary: without it TLC finds the
behaviour described in section 6.

### Fairness

- *File operations settle* and *the lock is handed on*: promises of `fs` resolve or
  reject, and `withStateChange` chains on both outcomes (`service.ts:7313`). So
  `Persist`, `Begin`, `Settles`, `Locked` and `Deliver` are weakly fair. In
  `Conversation`, where the order of waiting sections is left open, the section
  that records a reply is strongly fair, which the FIFO of the code implies.
- *A turn ends*: every prompt has a timeout (`acp-runtime.ts:1248`), and an aborted
  one has its process closed. So `EndRun`, `FinishTurn` and `TurnEnds` are fair.
- *The host goes on*: in `ClientStore`, `AcpProcess`, `Routing`, `History` and
  `ScheduledMessages` `HostStep` is what the host does of itself: promises it awaits
  resolve, the lock is handed on, an inference or a prompt ends by its timeout. It
  contains no request of a user, no failure, and, in `AcpProcess`, no answer of a bridge:
  there only the request timer is fair, and termination of a killed process
  (`Killed`, `ForceKill` after the grace period, `CleanupDone`). `adapter.launch` is assumed
  to end. In `ContextMemory` the same is said of `SectionSaved`, `RunEnds`, `AutoStep` and `ManStep`.
- *The browser goes on*: `ClientStep` delivers the next event and the answers of
  requests; a request that was lost fails by its own.
- *Timers fire*: `Tick` in `ScheduledMessages`, late at will.
- *A start-up happens* where the property spans it (`Restart`, `Boot`).
- Users are not fair: nobody has to answer a permission, send or stop anything.
  Failures, deaths and damage are not fair either.

## 5. Proofs

Eight modules of proofs, every obligation of which tlapm checks. Each proves
`THEOREM Invariance == Spec => []IInv` from one lemma for `Init`, one lemma per action or
group of actions (with a step per conjunct the action can disturb) and the lemma that `[Next]_vars`
preserves `IInv`; the theorems follow from it in a few steps.

| Module | Theorem | States |
| --- | --- | --- |
| `StateStoreProofs` | `ConsistencyTheorem` | `Spec => []StoreConsistent`; with its parts `TypeCorrect`, `IdleMemoryTheorem`, `StartupTheorem`, `LeadTheorem` |
| | `DurabilityTheorem` | `Spec => []AckedSurvives` |
| | `DamageTheorem` | `Spec => []DamageLosesAtMostOne` |
| | `RefinementTheorem` | `Spec => ImplementsDurableLog` |
| | `BrowserTypesTheorem` | `ClientSpec => []ClientTypeOK` |
| | `ScreenTheorem` | `ClientSpec => ShownMovesForward`, what the screen shows never goes back |
| `HostLifecycleProofs` | `QuietTheorem` | `Spec => []ClosedIsQuiet` |
| | `HostTheorem` | `Spec => []HostConsistent` |
| | `RoutingTheorem` | `RoutingSpec => []RoutingConsistent`, that is `RoutingTypeOK`, `TurnsAreRecorded`, `CorrectionsReplace` and `PendingHasOwner` |
| | `DeliveredTheorem` | `RoutingSpec => []AssignmentsAreDelivered` |
| | `RoutingMemoryTheorem` | `RoutingSpec => []CurrentMemoryIsTrue` |
| | `LateDecisionsTheorem` | `RoutingSpec => LateDecisionsAreDropped`, that is `DeletionEndsRouting` and `DecidedAgentsAreCurrent` |
| `ConversationProofs` | `AcceptedOnceTheorem` | `Spec => []AcceptedOnce` |
| | `QueueTheorem` | `Spec => []QueueConsistent` |
| | `RemovalTheorem` | `Spec => RemovedNeverStarts` |
| `DirectMessageProofs` | `CompleteTheorem` | `Spec => []CompleteHasReply` |
| | `BoundaryTheorem` | `Spec => BoundaryHolds` |
| | `RunsTheorem` | `Spec => []RunsConsistent`, that is `TypeOK`, `CompleteHasReply`, `PendingIsAnswerable` and `OpenHasARun` |
| `ThreadDeliveryProofs` | `BoundedTheorem` | `Spec => [](RelayIsBounded /\ OneTurnPerSession /\ StopShownOnce)` |
| | `RelayTheorem` | `Spec => []RelayEndsVisibly` |
| | `DeliveryTheorem` | `Spec => []DeliveryConsistent`, with `TypeOK` and `RelayKeepsSessions` |
| | `MemoryTheorem` | `MemorySpec => []MemoryConsistent`, that is `MemoryTypeOK`, `DeletedContentGoes` and `CompactingHasAnOwner` |
| | `HumanEditTheorem` | `MemorySpec => HumanEditStands` |
| `ScheduledMessagesProofs` | `SchedulesTheorem` | `Spec => []SchedulesConsistent`, that is `TypeOK`, `SentOnce` and `TimerHeld` |
| | `SendingTheorem` | `Spec => SendsWhatIsSaved` |
| `HistoryProofs` | `HistoryTheorem` | `Spec => []HistoryConsistent`, that is `TypeOK`, `NothingLeaks` and `NeverRefused` |
| | `FilesTheorem` | `Spec => []FilesAreKept` |
| | `RetentionTheorem` | `Spec => RetentionIsExact` |
| `AcpProcessProofs` | `ProcessesTheorem` | `Spec => []ProcessesConsistent`, that is `TypeOK`, `OneBridge`, `LoadedIsTrue` and `LanesRotate` |
| | `NoOrphanTheorem` | `Spec => []NoOrphan` |
| | `AccessTheorem` | `Spec => []AccessApplied` |

*State store*, for any set of changes and any bounds (`ChangesAssumption`,
`BoundAssumption`). None of the invariants is inductive. The strengthening is the
conjunction of `TypeOK`; `ControlInv` (which values of `host`, `step` and `queue` go
together); `QueueInv` (the waiters are distinct and unanswered, so that answering the
head answers nobody else); `MemoryInv` (memory is what was acknowledged, plus the
change being saved); `PrimaryInv` (`state.json` holds what was acknowledged, is never
missing while the host is up, and is the snapshot once replaced); `BackupInv` (the
backup is behind by at most one change, and level between the copy and the rename,
which is what makes the rename safe to lose); `LeadInv` (the primary is ahead by at
most one failed change); and `UndamagedInv` (without damage nothing is unreadable).
The argument in a sentence: at every moment one of the two files holds everything
acknowledged, because a file is replaced only when the other is level with it.

The refinement takes `Log` to be `DurableLog` with `durable <- Recovered`,
`told <- outcome`. `RotateKeeps` and `ReplaceWrites` say that the copy of the primary
changes nothing of what a restart would load and the rename makes it the snapshot, so
`Replace` is the log's `Write` and every other step of a persist a stutter, up to
`Saved`, which is `Ack`. `Reject` and `Rollback` are `Fail`, a rollback also after the
rename, which the log allows: a failed change may turn out durable. The start-up's own
persist writes what was loaded; that takes one invariant more, `BootInv`. The
statement stops at the first damage, as the property does.

*Host life cycle*, for any finite sets of sends and imports and any bounds
(`OperationsAssumption`, `BoundAssumption`). `CountInv` says what `activeAdmissions`
counts, with cardinalities of finite sets; `GateInv` and `ExclusiveInv` that an import is
inside alone, with an empty document, as long as it lasts, from which
`ImportOverwritesNothing` follows; `ControlInv` relates the program counters of drain and
close to the flags they set; `QuietInv` and `DrainInv` say of each wait of `close` and
`drainAndClose` that what it has waited for does not come back. The argument: a
flag is raised before each wait, and whatever could undo the wait looks at that flag
in the step in which it would begin.

*Conversation queue*, for any sends, submissions and bounds (`SubmissionAssumption`,
`BoundAssumption`). `DocumentInv` bounds what a section adds to memory and disk, and says that no
document has two messages of one submission; `QueueInv` says that what waits, works, or
may be put back was accepted, without repetition; `KeptInv` that an accepted message
survives the undoing of any section under way; `FilesInv` relates messages and files as
long as no persist rejects late; `StartInv` counts starts against rolled back
removals; `OwnerInv` and `RemovedInv` are `OpenHasAnOwner` and `RemovedNeverStarts` made
inductive: what was removed is neither in the queue nor in the one a section under
way would bring back. Five lemmas say what the queue operations do to sequences
(`PushBack`, `PushFront`, `Pop`, `Swap`, `Cut`).

*The `/new` boundary*, for any set of messages and any bounds, with no assumption.
`LockInv` is the argument: what the section that holds the lock adds to the replies
belongs to the generation on disk, and then the section leaves the generation as it
is; undoing it brings back what the disk has; `close()`, which is not undone in
memory, adds no reply. So a saved change either moves the generation or adds
replies of the generation that is saved.

*Runs of a direct message*, with no assumption but the bounds. `PlaceInv` says of every
section that waits for the lock where the run that asked for it stands, so that a
section never finds a run that has gone on without it; `BoundInv` and `DownInv` complete
the types. `PermInv` follows one permission from `ask` to its answer, in memory and in
what memory returns to; its argument is that whoever makes a permission pending has
put its resolver there first, and whoever takes the resolver away saves an answer in
the same section. `StatusInv` is `OpenHasARun` made inductive: a run ends, or is
interrupted, only with its message settled, unless a persist has rejected.

*Channel delivery*, for any Agents, any set of plans, any limits and any number of
failures (`LateAssumption`, `PlanAssumption`, `BoundAssumption`). `SessionInv` says that a chain
in a session is the first of those that wait for it, which is all that
`OneTurnPerSession` needs; `LockInv` and `StopInv` follow a stop through the section that
records it, its rollback included, so that the thread shows one stop exactly when
`stopped` is set or about to be. `RelayIsBounded` is inductive, because a turn is
reserved in the step that looks at the limit and at the edges. `RelayInv` is the argument
of `RelayTheorem`: a relay has one chain, which is never without a reason to go on;
whom it was given is either delivered or still in the plan, until a stop or a
failure is shown. It rests on what taking an Agent out of the plan does to the
others (`Cut`, `Unplanned`), which holds because the plan names nobody twice.
`DeliveryConsistent` needs `DeliveryInv` besides: who waits for the lock is there once
(`QueuedInv`, `WaitInv`, `ChainInv`); the native sessions of an Agent are numbered
without a gap, and each but the first is accounted for by a turn or by a session that
was lost (`NumberInv`, `CountInv`, by counting); and in a relay an Agent without a
remembered session has had none until its turn (`KeepInv`), which is
`RelayKeepsSessions`.

*Context memory*, for any starts (`ContextAssumption`: known scopes, numbers of
messages and events that are natural). `MemoryTyped` gives the values; `SectionAdds` says
that a section under way only adds messages and deletions to what is on disk, and that
two memories with the same tag are the same, which is what the code's comparison by
identity means; `StagesHold` who holds the memory's lock and the section at each stage
of the two updates. `TextInv` is `DeletedContentGoes` made inductive: no text in memory, on
disk or waiting to be saved has a deleted message, and what an inference still reads
is either alive in the source it will compare, or not one of the document's messages
(`Noticed`), which a section that adds keeps because what it adds is new. `StatusInv` and
`MarkInv` are the same for `compacting`: whoever has the lock will save another status
before it lets go. `HumanInv` is the argument of `HumanEditTheorem`: edits are numbered, an
edit on disk is in memory or overtaken there by a later one or by a compaction that
began with it, and an update that finds the tag it read has missed no edit. What
people do in the middle of the two updates is proved once: each of the five sections
is a `PersonSection` (lemmas `MemoryAccept` to `MemoryEvidence`), and `PersonKeeps` says that
one keeps the invariant. The proof found two errors of the model: a run could end
while the persist of its reply was under way and end again when that rejected
(`RunEnds`), and two arms of `Result` overlapped. The start that shows the first (a reply
whose persist rejects) is now among those TLC checks, and brought up one behaviour
more, the rejected edit of section 6.

*Scheduled messages*, for any finite set of schedules, any period and horizon, and any
documents to start with (`SchedulesAssumption`, `StartsAssumption`). `SentInv` says that the
next occurrence of a schedule is later than all that were sent, which an edit keeps
because it moves the occurrence only into the future. `ObjectInv` is what the code's
comparison by identity buys: an object has one text, in memory, on disk and in the
list of a run, so that a schedule that is still due is the one that was listed. It
needs a new object for every change (`Fresh`, by counting). `SectionInv` says what an
acceptance under way adds to the saved document, and `TimerInv` is `TimerHeld` for
what is saved, with the section that may be taken back.

*Deletion and retention*, for any messages with disjoint files, any documents to start
with and any numbers of events (`HistoryAssumption`, `StartsAssumption`). At any time there
are three documents a next step may start from: the one in memory, the one on disk,
and the one a rejected persist goes back to. `DocumentInv` says of all three that they
account for every file (`Covers`), name none that is missing, keep named and pending
apart, and hold only files of messages they know (`Owned`). `StatusInv` says which of
them may know a message whose send is not over, and so that removing the files of a
refused send takes nothing from a document; `LagInv` that the disk, which may be one
rejected change ahead, names nothing that memory lists for removal, and so that
removing what is pending takes nothing from the disk. `SavingInv`, `PreviewInv` and
`ActiveInv` are the argument of `RetentionTheorem`: a preview of the current revision
shows the current messages, a revision moves on with every edit, and a conversation
that was retained has no reply left that could be recorded.

*ACP processes*, for any mixes and bounds (`BoundAssumption`). `OwnInv` says that a bridge
runs only as the child of the process it was started for, and that a closing process
has told its child to stop; `HeldInv` that the open process is the one in `acpProcesses`
and that a closing one is waited for, in `acpProcessClosures`, by `close()`, or by the run
that recovers. `RunInv` carries what the run waits for from `waiting` to `launching`,
where, unless a close overtook the look at `acpProcesses`, no closure is left; with
`HostInv` (a run still in progress after `close()` took the process is aborted) that
makes `OneInv`: a process is launched only when every other one is closed. `OneBridge`
and `NoOrphan` follow. `LinkInv` and `LoadedInv` say what a link that is open, and a
session believed loaded, tell of the bridge. `AccessInv` is the argument of
`AccessTheorem`: a plan made for the Agent of now carries its access, because each
change gives the Agent an identity no plan has; and when the open process has another
access, some change is still on its way to close it. Most of the actions are `Calm`
(they at most tell bridges to stop and close an open process) or begin to use a process
(`Serves`), and the parts about processes and bridges are proved once for each of the
two classes, and one action at a time for the six that are neither.

*The browser's copy*, for any requests and any mixes of events (`MixesAssumption`). The
copies are what the screen shows and what any request, the refresh or a boot was
answered; with the host's own state, and with the one a rejected persist would put
back, they are the states that may still be shown. `BrowserTypes` gives the values of
host, browser, requests and stream. `PairsOrdered` says of any two such states that
revisions order them as their documents do, unless the earlier one was undone;
`BoundedBySaved` that none is ahead of what is saved by more than the change under way
or one undone; `SavedStands` that what is saved is not undone. `WritesKept` says that an own
change that was answered stays in the host's state, so that any answer read later
holds it. With these, a refresh that replaces the screen only by a higher revision
never takes it back to an earlier document.

*Routing*, for any finite set of Agents, any sets of names and choices and any settled
documents to start with (`RoutingAssumption`). `DocumentInv` says that the documents in
memory and on disk are sound: identifiers are in one message each, and what corrections
leave is one active assignment for each of some Agents (`Replaced`). `HolderInv` is what
makes the rest provable: memory and disk differ in one message, that of the section
waiting for its persist, and `Change` says how, kind by kind, so that both outcomes of
the persist can be followed. `RunInv`, `OwnerInv` and `DeliveredInv` divide a message among
those who are responsible for it: pending on disk, it has a run or a section that is
settling it; resolved, its active assignments are in `turns` or in a run about to start
them. `TurnInv` says that what has a turn is on disk. The sections that change a
message begin by one lemma (`SectionStep`), which asks of each what its `Change` promises,
and end by two (`SavedKeeps`, `RejectedKeeps`).

`CurrentMemoryIsTrue` needs `CompactInv` and `SummaryInv`. A compaction compares the number of
corrections and the last of them with those it read, not the corrections. That is
enough because the last one is always read, however few fit the prompt (`LastIsRead`),
and because between its reading and its commit corrections are only added (`Grows`):
a deletion that takes some away is seen by `hasInvalidatedContextSources`, so that those
read are among those in force, and sets of the same finite size, one in the other, are
equal. An edit takes corrections away unseen, and a rejected persist of a correction
does too, if the compaction read the correction before the rejection. The second was found
by the proof: `Grows` was not inductive, a start with three reroutes and a rejected persist
showed TLC the behaviour, and it is now in section 6. The proof needs what a `Max` of a
bounded set is (`Largest`, by well-founded induction on a fixed set) and what the sequence
of a finite set lists (`SequenceOfSet`).

Every safety invariant and action property of the runs, and the refinement, is stated by
a theorem. Only model-checked are the liveness properties (`EveryCallerAnswered`,
`StopsFinish`, `QueueMoves`, `MessagesSettle`, `DeliveryEnds`, `CatchesUp`, `AllEnds`,
`RoutingSettles`, `DeletedBytesGo`, `MemorySettles`, `DueIsServed`): liveness under fairness
and ENABLED are beyond the prover.

## 6. Where the code and its documents disagree

Met while modelling. Each is a behaviour of the models, and where a property would
be violated by it the property names it as its exception.

*State store and host life cycle*

- The write of a running host copies a damaged `state.json` over the good backup
  (`service.ts:12443`; `docs/guides/operations.md:356` says that each write retains the
  previous *valid* primary). The condition of `DamageLosesAtMostOne`.
- A run that asks for a permission between the two waits of a drain waits for an
  answer that `withAdmission` refuses (`service.ts:4582`; `docs/specs/product-spec.md:408`).
  The drain still ends, when the prompt times out.

*Conversation queue and direct messages*

- When a reply's persist rejects, the loop of `startConversationRun` ends and the
  follow-ups behind it stay in the queue (`service.ts:8876`;
  `docs/guides/desktop-usage.md:53`). The condition of `QueueMoves`.
- A `removeFollowup` whose persist rejects may start a message twice
  (`service.ts:8006`). The condition of `StartedOnce`.
- A stop that waits for the session to be cancelled while the reply is recorded
  overwrites `complete` with `error` (`service.ts:8053`; `product-spec.md:514`).
- A permission answered after its run ended leaves the message at `running`
  (`service.ts:5984`; `product-spec.md:511`). The exception of `OpenHasARun`.
- A message at `needs_input` keeps that status over a restart that has nobody left
  to answer (`service.ts:6451`).

*Channel delivery*

- Two chains of a parallel delivery that reach the same Agent give it two native
  sessions in one thread (`service.ts:10107`; `product-spec.md:316`).
- A handoff to an Agent that was configured after the message was prepared is
  accepted and dropped (`service.ts:9844`; `product-spec.md:207`).
- When one chain of a delivery rejects, the others run on without being counted in
  `backgroundRuns` (`service.ts:10192`).

*Routing*

- A reroute of one assignment while the routing is pending resolves the message,
  and the other Agents it names get no turn (`service.ts:7643`; `product-spec.md:333`).
  `told.cut`.
- A failure, deletion or correction of a pending routing that cannot be saved leaves
  the message pending without a run until the next start. `told.stranded`.
- Two corrections can leave the count and the last of them as they were while a
  compaction reads, which then counts as current (`server/src/routing-memory.ts:81`;
  `service.ts:10900`); the freshness of a local classification is judged by the count
  alone (`service.ts:8836`; `docs/guides/architecture.md:276`). `told.overtaken`.
- A compaction reads `this.state` without the lock, also a correction whose persist then
  rejects. When another correction takes its place, count and last are as they were
  read, and a summary with a correction that was taken back counts as current
  (`service.ts:10920`, `10900`). `told.overtaken`, too.
- The prompt of a compaction has room for so many corrections, the last ones in the order
  of messages (`server/src/routing-memory.ts:204`). Older ones are in the summary only if
  the summary before held them; after a deletion wiped it they are not
  (`service.ts:7217`), and a fresh correction of an old message may be left out at once,
  while the memory counts as current (`docs/specs/product-spec.md:567`: "each correction
  enters routing memory"). `memory.beyond`.
- The retry of a message with images or files only, whose routing failed, always
  throws (`service.ts:7467`, `8565`; `architecture.md:280`).

*Files, deletion and retention*

- A preview reads memory without the lock. If the persist under way rejects, its
  revision is used again, and a retention confirmed against it may remove something
  else than was shown (`service.ts:5459`; `docs/specs/workspace-archive-format.md:96`).
  `preview.undone`.
- A persist that rejects after the rename leaves a message whose files are removed
  (`service.ts:9261`). `ghosts`.
- Files stored for a send that a process death cuts off are never named again.
  `lost`. So are those of messages that go with a whole Channel or Agent, whose
  removal lists no files.
- An edit is accepted after the message it supersedes was deleted (`service.ts:7051`).

*Context memory*

- A person's memory under manual compaction, while an earlier message is deleted,
  stays `compacting` (`product-spec.md:464`), as does a Channel's whose result's persist
  rejected. `told.stuck`, `told.unsaved`.
- A deletion between the last look of an update and its section comes back with the
  update (`architecture.md:244`). `told.overtaken`.
- A run that ends between the end of a refresh's loop and the removal of its
  `contextRefreshes` entry gets no refresh (`service.ts:11019`). `told.missed`.
- A run whose routing failed or was dropped, one of whose chains rejects, or whose
  conversation is no longer current asks for no refresh (`service.ts:10176`, `10192`,
  `10199`). If a refresh that was decided before its message came saves its result after
  the acceptance (`service.ts:11324`), the memory counts as current without the message
  until the next run ends (`product-spec.md:226`). `told.behind`.
- So it does when a refresh reads a message or deletion whose persist then rejects.
  `told.behind`, too.
- A refresh that reads a person's edit whose persist then rejects takes the older text
  that is put back for a newer edit and leaves it alone; a Channel's memory then counts
  as current without the last reply, until the next refresh (`service.ts:11324`;
  `product-spec.md:229`). `told.missed`.
- A failure of a manual compaction sets `failed` over a newer edit of a person, and a
  reply during one discards its result without a word.

*Schedules*

- A timer that fires while a pause or a deletion is being saved finds no active
  schedule and arms nothing; if that persist rejects, the schedule is active without
  a timer (`service.ts:4747`; `architecture.md:117`). `unarmed`.
- Resuming an overdue cron schedule that was not paused skips its occurrence.

*Native processes*

- A close in the instant between a run's wait for closures and its look at
  `acpProcesses` starts a second bridge beside the first (`service.ts:12099`;
  `product-spec.md:379`). `overtaken`.
- A launch reads the Agent's access from memory, also when the change is still
  being saved and then taken back (`service.ts:6830`). `undone`.
- The deadline of an inference does not cancel the native turn once its session is
  ready (`service.ts:11702`; `architecture.md:201`).
- A native inference process aborted by `close()` is told to stop and not waited for.

*Client store*

- `bootstrap()` answers with memory during a persist (`service.ts:5148`, `7322`). When it
  rejects, the revision is used again, and the answer hides a newer state of the
  same revision (`architecture.md:106`). `Ghost`.
- The answers of the follow-up queue carry no version
  (`ui/src/commonspace-store.ts:1120`), and routing can go back for a moment.

## 7. What is not modelled

- *Data*: texts, prompts, ranking, retrieval and routing scores, cron arithmetic,
  Markdown, search and embeddings are pure functions of the document or external
  libraries.
- *Pure input and output*: project files, archives, attribution by git snapshots,
  HTTP and MCP parsing and dispatch, notifications, telemetry. The admission these
  pass is in `HostLifecycle`.
- *Third parties*: Agent harnesses and their adapters, the local classifier. What the
  host sees of them (answers, silence, exits) is in `AcpProcess` and `Routing`.
- *User interface*: presentation. This is the largest part of the repository and
  keeps no state the host depends on; the client store is in `ClientStore`.
- *Host process, supervisor and workspace lock*: a library's file lock and a
  development tool.
- *Within the modelled parts*: the version-35 migration (a file loads or it does
  not); removal of whole Channels, Projects and Agents with what hangs on them
  (`recordPendingRunInvalidations`); steering in Channel threads (modelled for direct
  messages); session modes, permission requests and the trace of a native session;
  discovery, navigation and the composer of the client; pins and the snapshot a
  Thread takes of its Channel; schedules under drain and close; temporary files.
- *Finer steps and rarer inputs of the modelled parts*, which no property is about: a
  second steer of a run that was stopped and is winding down, which only writes
  `cancelled` once more (`service.ts:9034`–`9069`); a limit of turns lowered between routing and
  delivery to less than the Agents assigned, of whom the last then get no turn
  (`service.ts:9464`, `10193`; `PlanAssumption`); the microtasks between leaving the section
  that records a member and reading the session mapping (`service.ts:10107`; `Join`); the
  persist by which a lost session is forgotten, between its failure and the next turn
  (`service.ts:12248`; `SessionMissing`); a loaded session whose credentials or roots
  changed, which is loaded again (`acp-runtime.ts:806`; `Use`); a persist of a schedule
  that rejects after the rename (`Rejected` of `ScheduledMessages`; what that leaves on disk
  is in `StateStore`, `Conversation` and `History`).

## 8. Plan

Done: `StateStore` with `DurableLog`, `HostLifecycle`, `Conversation`, `DirectMessage`,
`ThreadDelivery`, `Routing`, `History`, `ContextMemory`, `ScheduledMessages`, `AcpProcess`,
`ClientStore`, and proofs about each of them.

Left, in the order of what it protects:

1. `Mutations`: `recordPendingRunInvalidations` and `agentExecutionRevision`, the removal of
   Channels and Projects against queued and running messages, schedules and files,
   composed with `Conversation`.
2. `ThreadDelivery` with `HostLifecycle`: what an idle wait waits for when a chain
   rejects.
3. The import and export of archives against attachments.

Every safety invariant and action property that a run checks is proved; new modules come
with their proofs.
