---------------------------- MODULE HostLifecycle ----------------------------
(***************************************************************************)
(* How the host lets work in and how it stops.  Every public operation     *)
(* passes withAdmission, an import exclusively; an accepted message starts *)
(* a background run; a run may ask the user for permission and wait.  A    *)
(* development restart drains (drainAndClose), a signal closes (close).    *)
(*                                                                         *)
(* A locked section and the synchronous code after its await are one step: *)
(* withStateChange hands its task to the caller before the next holder     *)
(* starts.  Messages are direct messages, one per Agent; their queue is in *)
(* Conversation and the rest of their statuses in DirectMessage.           *)
(***************************************************************************)
EXTENDS Naturals, FiniteSets

CONSTANTS
    Sends,         \* messages users send
    Imports,       \* workspace imports users start
    MaxQuestions,  \* bound on the permissions one run asks for
    MaxFailures    \* bound on persists that reject

ASSUME OperationsAssumption ==
    /\ IsFiniteSet(Sends) /\ IsFiniteSet(Imports)
    /\ Sends \cap Imports = {}
ASSUME BoundAssumption == MaxQuestions \in Nat /\ MaxFailures \in Nat

VARIABLES
    op,                  \* each send and import: idle, active, done or failed
    activeAdmissions,    \* operations inside withAdmission
    exclusiveAdmission,  \* an import is inside withAdmission
    document,            \* the accepted sends and imports this.state reflects
    reply,               \* replyStatus: open is queued or running, waiting needs_input
    run,                 \* its background run
    permission,          \* the permission its run last asked for
    answer,              \* respondPermission for it: none, or inside withAdmission
    questions,           \* permissions asked so far
    draining,
    drain,               \* where drainOperation stands
    closeState,          \* open, closing, closed
    close,               \* where closeOperation stands
    closedBy,            \* whether a drain or a signal called close() first
    failures

admission == <<op, activeAdmissions, exclusiveAdmission>>
runs      == <<reply, run, permission, answer, questions>>
shutdown  == <<draining, drain, closeState, close, closedBy>>
vars      == <<admission, document, runs, shutdown, failures>>

Live == {s \in Sends : run[s] \in {"running", "asking", "aborted"}}

TypeOK ==
    /\ op \in [Sends \cup Imports -> {"idle", "active", "done", "failed"}]
    /\ activeAdmissions \in 0..(2 * Cardinality(Sends) + 1)
    /\ exclusiveAdmission \in BOOLEAN
    /\ document \subseteq Sends \cup Imports
    /\ reply \in [Sends -> {"none", "open", "waiting", "settled"}]
    /\ run \in [Sends -> {"none", "dropped", "running", "asking", "aborted", "done"}]
    /\ permission \in [Sends -> {"none", "pending", "resolved", "interrupted"}]
    /\ answer \in [Sends -> {"none", "active"}]
    /\ questions \in [Sends -> 0..MaxQuestions]
    /\ draining \in BOOLEAN
    /\ drain \in {"off", "runs", "quiet", "admissions", "runs again", "closing"}
    /\ closeState \in {"open", "closing", "closed"}
    /\ close \in {"off", "permissions", "admissions", "runs", "interrupt", "done"}
    /\ closedBy \in {"nobody", "drain", "signal"}
    /\ failures \in 0..MaxFailures

Init ==
    /\ op = [o \in Sends \cup Imports |-> "idle"]
    /\ activeAdmissions = 0 /\ exclusiveAdmission = FALSE
    /\ document = {}
    /\ reply = [s \in Sends |-> "none"]
    /\ run = [s \in Sends |-> "none"]
    /\ permission = [s \in Sends |-> "none"]
    /\ answer = [s \in Sends |-> "none"]
    /\ questions = [s \in Sends |-> 0]
    /\ draining = FALSE /\ drain = "off"
    /\ closeState = "open" /\ close = "off" /\ closedBy = "nobody"
    /\ failures = 0

-----------------------------------------------------------------------------
(* withAdmission.  A refused operation throws and changes nothing.          *)

closing   == closeState # "open"
Admitting == ~closing /\ ~draining /\ ~exclusiveAdmission

EnterUncounted == Admitting /\ UNCHANGED activeAdmissions
Enter == Admitting /\ activeAdmissions' = activeAdmissions + 1
Leave == activeAdmissions' = activeAdmissions - 1

PersistFails == failures < MaxFailures /\ failures' = failures + 1

StartSend(s) ==
    /\ op[s] = "idle"
    /\ Enter
    /\ op' = [op EXCEPT ![s] = "active"]
    /\ UNCHANGED <<exclusiveAdmission, document, runs, shutdown, failures>>

\* acceptPreparedSend's locked section: the message is persisted and its
\* conversation run started.  The run loop does nothing once close() began.
AcceptSend(s) ==
    /\ op[s] = "active"
    /\ Leave
    /\ op' = [op EXCEPT ![s] = "done"]
    /\ document' = document \cup {s}
    /\ reply' = [reply EXCEPT ![s] = "open"]
    /\ run' = [run EXCEPT ![s] = IF closing THEN "dropped" ELSE "running"]
    /\ UNCHANGED <<exclusiveAdmission, permission, answer, questions, shutdown,
                   failures>>

\* Slip: the finally block is skipped when the operation throws.
RejectSendStaysInside(s) ==
    /\ op[s] = "active"
    /\ op' = [op EXCEPT ![s] = "failed"]
    /\ UNCHANGED <<activeAdmissions, exclusiveAdmission, document, runs, shutdown,
                   failures>>

\* Preparing the message or its persist fails.
RejectSend(s) ==
    /\ op[s] = "active"
    /\ Leave
    /\ op' = [op EXCEPT ![s] = "failed"]
    /\ UNCHANGED <<exclusiveAdmission, document, runs, shutdown, failures>>

\* Slip: an import does not look for operations in flight.
StartImportAmongOthers(i) ==
    /\ op[i] = "idle"
    /\ document = {}
    /\ Enter
    /\ op' = [op EXCEPT ![i] = "active"]
    /\ exclusiveAdmission' = TRUE
    /\ UNCHANGED <<document, runs, shutdown, failures>>

\* importWorkspace: alone inside withAdmission, and only over an empty document.
StartImport(i) ==
    /\ op[i] = "idle"
    /\ activeAdmissions = 0
    /\ document = {}
    /\ Enter
    /\ op' = [op EXCEPT ![i] = "active"]
    /\ exclusiveAdmission' = TRUE
    /\ UNCHANGED <<document, runs, shutdown, failures>>

\* Slip: a failed import leaves the gate exclusive and counted.
FinishImportStaysInside(i) ==
    /\ op[i] = "active"
    /\ \/ /\ op' = [op EXCEPT ![i] = "done"]
          /\ document' = {i}
          /\ Leave
          /\ exclusiveAdmission' = FALSE
       \/ /\ op' = [op EXCEPT ![i] = "failed"]
          /\ UNCHANGED <<document, activeAdmissions, exclusiveAdmission>>
    /\ UNCHANGED <<runs, shutdown, failures>>

\* commitWorkspaceImport replaces this.state whole, without looking again.
FinishImport(i) ==
    /\ op[i] = "active"
    /\ Leave
    /\ exclusiveAdmission' = FALSE
    /\ \/ /\ op' = [op EXCEPT ![i] = "done"]
          /\ document' = {i}
       \/ /\ op' = [op EXCEPT ![i] = "failed"]
          /\ UNCHANGED document
    /\ UNCHANGED <<runs, shutdown, failures>>

-----------------------------------------------------------------------------
(* Background runs and the permissions they wait for.                      *)

\* requestAgentPermission, when the run is still current; else it gets nothing.
Ask(s) ==
    /\ run[s] = "running" /\ ~closing
    /\ questions[s] < MaxQuestions
    /\ questions' = [questions EXCEPT ![s] = @ + 1]
    /\ run' = [run EXCEPT ![s] = "asking"]
    /\ permission' = [permission EXCEPT ![s] = "pending"]
    /\ reply' = [reply EXCEPT ![s] = "waiting"]
    /\ UNCHANGED <<admission, document, answer, shutdown, failures>>

\* The user answers: respondPermission is admitted ...
StartAnswer(s) ==
    /\ permission[s] = "pending" /\ answer[s] = "none"
    /\ Enter
    /\ answer' = [answer EXCEPT ![s] = "active"]
    /\ UNCHANGED <<op, exclusiveAdmission, document, reply, run, permission,
                   questions, shutdown, failures>>

\* Slip: the answer was validated before it queued for the lock.
FinishAnswerUnchecked(s) ==
    /\ answer[s] = "active"
    /\ Leave
    /\ answer' = [answer EXCEPT ![s] = "none"]
    /\ permission' = [permission EXCEPT ![s] = "resolved"]
    /\ UNCHANGED <<op, exclusiveAdmission, document, reply, run, questions,
                   shutdown, failures>>

\* ... and under the lock resolves the permission if it still is pending.
FinishAnswer(s) ==
    /\ answer[s] = "active"
    /\ Leave
    /\ answer' = [answer EXCEPT ![s] = "none"]
    /\ \/ /\ permission[s] = "pending"
          /\ permission' = [permission EXCEPT ![s] = "resolved"]
          /\ reply' = [reply EXCEPT ![s] = "open"]
          /\ run' = [run EXCEPT ![s] = IF @ = "asking" THEN "running" ELSE @]
          /\ UNCHANGED failures
       \/ /\ permission[s] # "pending"
          /\ UNCHANGED <<permission, reply, run, failures>>
       \/ /\ PersistFails
          /\ UNCHANGED <<permission, reply, run>>
    /\ UNCHANGED <<op, exclusiveAdmission, document, questions, shutdown>>

\* The turn ends: the Agent is done, its prompt timed out (also while it waits
\* for the user), or its process was closed.  A closing host records nothing.
EndRun(s) ==
    /\ s \in Live
    /\ run' = [run EXCEPT ![s] = "done"]
    /\ \/ /\ ~closing
          /\ reply' = [reply EXCEPT ![s] = "settled"]
          /\ UNCHANGED failures
       \/ /\ closing
          /\ UNCHANGED <<reply, failures>>
       \/ /\ PersistFails
          /\ UNCHANGED reply
    /\ UNCHANGED <<admission, document, permission, answer, questions, shutdown>>

-----------------------------------------------------------------------------
(* drainAndClose and close, each started once.                             *)

StartDrain ==
    /\ drain = "off"
    /\ drain' = "runs"
    /\ UNCHANGED <<admission, document, runs, draining, closeState, close,
                   closedBy, failures>>

\* whenIdle sees no background run; the assignment after its await comes later.
DrainIdle ==
    /\ drain = "runs" /\ Live = {}
    /\ drain' = "quiet"
    /\ UNCHANGED <<admission, document, runs, draining, closeState, close,
                   closedBy, failures>>

DrainGate ==
    /\ drain = "quiet"
    /\ drain' = "admissions"
    /\ draining' = TRUE
    /\ UNCHANGED <<admission, document, runs, closeState, close, closedBy, failures>>

DrainAdmissions ==
    /\ drain = "admissions" /\ activeAdmissions = 0
    /\ drain' = "runs again"
    /\ UNCHANGED <<admission, document, runs, draining, closeState, close,
                   closedBy, failures>>

StartClose(caller) ==
    /\ closeState = "open"
    /\ closeState' = "closing"
    /\ close' = "permissions"
    /\ closedBy' = caller

\* Slip: runs started by the operations waited for are not waited for.
DrainRunsAtOnce ==
    /\ drain = "runs again"
    /\ drain' = "closing"
    /\ StartClose("drain") \/ (closing /\ UNCHANGED <<closeState, close, closedBy>>)
    /\ UNCHANGED <<admission, document, runs, draining, failures>>

\* The drain ends in close(), which is a no-op when a signal came first.
DrainRuns ==
    /\ drain = "runs again" /\ Live = {}
    /\ drain' = "closing"
    /\ StartClose("drain") \/ (closing /\ UNCHANGED <<closeState, close, closedBy>>)
    /\ UNCHANGED <<admission, document, runs, draining, failures>>

Signal ==
    /\ StartClose("signal")
    /\ UNCHANGED <<admission, document, runs, draining, drain, failures>>

\* close() marks every pending permission interrupted, keeping that even when
\* the persist rejects, answers the waiting runs with nothing and aborts all runs.
ClosePermissions ==
    /\ close = "permissions"
    /\ close' = "admissions"
    /\ permission' = [s \in Sends |->
                        IF permission[s] = "pending" THEN "interrupted"
                        ELSE permission[s]]
    /\ run' = [s \in Sends |-> IF s \in Live THEN "aborted" ELSE run[s]]
    /\ UNCHANGED <<admission, document, reply, answer, questions, draining, drain,
                   closeState, closedBy, failures>>

\* Slip: close() does not wait for the operations inside.
CloseAdmissionsAtOnce ==
    /\ close = "admissions"
    /\ close' = "runs"
    /\ UNCHANGED <<admission, document, runs, draining, drain, closeState, closedBy,
                   failures>>

CloseAdmissions ==
    /\ close = "admissions" /\ activeAdmissions = 0
    /\ close' = "runs"
    /\ UNCHANGED <<admission, document, runs, draining, drain, closeState, closedBy,
                   failures>>

CloseRuns ==
    /\ close = "runs" /\ Live = {}
    /\ close' = "interrupt"
    /\ UNCHANGED <<admission, document, runs, draining, drain, closeState, closedBy,
                   failures>>

\* Slip: only messages that had a run are settled.
CloseInterruptStarted ==
    /\ close = "interrupt"
    /\ close' = "done"
    /\ closeState' = "closed"
    /\ reply' = [s \in Sends |->
                   IF reply[s] = "open" /\ run[s] = "done" THEN "settled" ELSE reply[s]]
    /\ UNCHANGED <<admission, document, run, permission, answer, questions,
                   draining, drain, closedBy, failures>>

\* markInterruptedRuns settles what is still open, unless its persist rejects.
CloseInterrupt ==
    /\ close = "interrupt"
    /\ close' = "done"
    /\ closeState' = "closed"
    /\ \/ /\ reply' = [s \in Sends |->
                         IF reply[s] = "open" THEN "settled" ELSE reply[s]]
          /\ UNCHANGED failures
       \/ /\ PersistFails
          /\ UNCHANGED reply
    /\ UNCHANGED <<admission, document, run, permission, answer, questions,
                   draining, drain, closedBy>>

-----------------------------------------------------------------------------

Finish(s) == AcceptSend(s) \/ RejectSend(s) \/ FinishAnswer(s)
Drain     == DrainIdle \/ DrainGate \/ DrainAdmissions \/ DrainRuns
Close     == ClosePermissions \/ CloseAdmissions \/ CloseRuns \/ CloseInterrupt

Next ==
    \/ \E s \in Sends :
         StartSend(s) \/ Finish(s) \/ Ask(s) \/ StartAnswer(s) \/ EndRun(s)
    \/ \E i \in Imports : StartImport(i) \/ FinishImport(i)
    \/ StartDrain \/ Drain
    \/ Signal \/ Close

\* File operations settle, and a turn ends: every prompt has a timeout, and an
\* aborted one has its process killed.  Nobody has to answer a permission.
Fairness ==
    /\ \A s \in Sends : WF_vars(Finish(s)) /\ WF_vars(EndRun(s))
    /\ \A i \in Imports : WF_vars(FinishImport(i))
    /\ WF_vars(Drain) /\ WF_vars(Close)

Spec == Init /\ [][Next]_vars /\ Fairness

-----------------------------------------------------------------------------
(* Properties.                                                             *)

\* Once isClosed lets the workspace lock go, nothing of this process can still
\* change the workspace: no operation is inside, no run is live, no permission
\* waits for an answer.
ClosedIsQuiet ==
    closeState = "closed" =>
        /\ \A o \in Sends \cup Imports : op[o] # "active"
        /\ Live = {}
        /\ \A s \in Sends : answer[s] = "none" /\ permission[s] # "pending"

\* An import replaces the document whole after checking it was empty when it
\* began; no message accepted meanwhile is overwritten.
ImportOverwritesNothing ==
    \A o \in Sends \cup Imports : op[o] = "done" => o \in document

\* A closed host leaves no message queued or running in its document, also
\* when the message was accepted after close() began and its run was dropped.
ClosedSettlesReplies ==
    closeState = "closed" /\ failures = 0 =>
        \A s \in Sends : reply[s] # "open"

\* A development restart aborts no accepted turn and drops none.
DrainAbortsNothing ==
    closedBy = "drain" => \A s \in Sends : run[s] \notin {"aborted", "dropped"}


\* close() finishes whatever is in flight when it is called.
CloseFinishes == closing ~> closeState = "closed"

\* A development restart that was asked for happens, whether or not the runs it
\* waits for get their permissions answered.
DrainFinishes == drain # "off" ~> closeState = "closed"

\* What holds of a host in every state: its stop drops no message that it does not
\* settle, a drain aborts nothing, and an import overwrites nothing.
HostConsistent ==
    /\ TypeOK
    /\ ImportOverwritesNothing
    /\ ClosedSettlesReplies
    /\ DrainAbortsNothing

\* Both ways to stop the host come to their end.
StopsFinish == CloseFinishes /\ DrainFinishes

=============================================================================
