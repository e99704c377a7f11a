------------------------------ MODULE AcpProcess ------------------------------
(***************************************************************************)
(* The bridge processes of one Agent scope: a native session, or the lane   *)
(* of an inference purpose.  The host keeps at most one AcpAgentProcess for *)
(* the scope in acpProcesses and starts a bridge (an operating-system       *)
(* process) for it on demand.  The runs of a scope follow one another under *)
(* its session lock; meanwhile a bridge may exit, hang or lose its stream,  *)
(* a request may time out, the run may be aborted, the Agent's access may   *)
(* change, the Agent may be removed and added again, and the host closes.   *)
(*                                                                         *)
(* What a turn says, permission requests and session modes are left out.    *)
(***************************************************************************)
EXTENDS Naturals, FiniteSets

CONSTANTS
    MaxEphemeral,  \* MAX_EPHEMERAL_SESSIONS_PER_PROCESS
    MaxRuns,       \* the largest number of runs,
    MaxChanges,    \* and of mutations of the Agent, in any of
    Mixes          \* the mixes considered: a scope, whether a user stops runs and the host
                   \* closes, and bounds on the runs, the mutations and the faults the
                   \* bridges have by themselves

ASSUME BoundAssumption ==
    /\ MaxRuns \in Nat \ {0} /\ MaxEphemeral \in Nat \ {0} /\ MaxChanges \in Nat
    /\ \A mix \in Mixes : /\ {mix.lane, mix.stops, mix.closes} \subseteq BOOLEAN
                          /\ mix.runs \in 0..MaxRuns
                          /\ mix.changes \in 0..MaxChanges /\ mix.faults \in Nat

VARIABLES
    bound,     \* the mix of this behaviour
    lane,      \* its scope is an inference lane, the sessions ephemeral
    agent,     \* the Agent's entry in the state: present, its access, its identity
    previous,  \* the entry a failing persist puts back
    change,    \* the mutations of the Agent: what each does and how far it is
    client,    \* acpProcesses: the scope's process, 0 for none
    closures,  \* acpProcessClosures: the processes whose end it waits for
    process,   \* the AcpAgentProcess objects
    bridge,    \* the bridges: what the system and the host know of each
    step, run, \* where the scope's run is, and what it holds
    active,    \* activeAcpSessions has the scope
    host,      \* closeState
    taken,     \* the process close() found in acpProcesses
    runs, faults,
    undone,    \* a change has been undone
    overtaken  \* a close fell between a run's wait for closures and its look at client

vars == <<bound, lane, agent, previous, change, client, closures, process, bridge,
          step, run, active, host, taken, runs, faults, undone, overtaken>>

\* A run starts at most two processes, and one bridge in each: it recovers once.
Processes == 1..(2 * MaxRuns)
Bridges   == 1..(2 * MaxRuns)
Changes   == 1..MaxChanges
Setup     == {"replacing", "spawning", "initializing", "failing", "session", "configuring"}
Request   == {"initializing", "session", "configuring", "prompting"}
Steps     == {"idle", "starting", "waiting", "retiring", "launching", "prompting", "recovering"} \cup Setup
NoRun     == [process |-> 0, bridge |-> 0, plan |-> 0, access |-> FALSE, authority |-> FALSE,
              revision |-> 0, resumes |-> FALSE, aborted |-> FALSE, waits |-> {}]

Init ==
    /\ \E mix \in Mixes : bound = mix /\ lane = mix.lane
    /\ agent = [present |-> TRUE, access |-> FALSE, identity |-> 0]
    /\ previous = agent
    /\ change = [m \in Changes |-> [kind |-> "none", stage |-> "none", before |-> FALSE, waits |-> {}]]
    /\ client = 0 /\ closures = {}
    /\ process = [p \in Processes |-> [status |-> "none", access |-> FALSE, sessions |-> 0,
                                       child |-> 0, connection |-> 0, loaded |-> FALSE]]
    /\ bridge = [b \in Bridges |-> [os |-> "none", owner |-> 0, link |-> "none",
                                    cleanup |-> "none", session |-> FALSE]]
    /\ step = "idle" /\ run = NoRun /\ active = FALSE
    /\ host = "open" /\ taken = 0
    /\ runs = 0 /\ faults = 0 /\ undone = FALSE /\ overtaken = FALSE

---------------------------------------------------------------------------
(* Ending a bridge and closing a process.  Each operator gives the bridges   *)
(* or the processes after the calls the code makes.                         *)

\* The operators below take the processes p and bridges b to change from.
Disconnected(bs, b) == [bs EXCEPT ![b].link = IF @ = "none" THEN @ ELSE "closed"]

\* One cleanup for each child: a later call joins the first.
Terminated(bs, b, signal) ==
    IF b = 0 THEN bs ELSE [bs EXCEPT ![b].cleanup = IF @ = "none" THEN signal ELSE @]

\* connection.close and SIGKILL, as a timeout or a failed start does it.
Dropped(bs, p) ==
    LET c == process[p].connection
    IN  Terminated(IF c = 0 THEN bs ELSE Disconnected(bs, c), process[p].child, "kill")

\* Slip: #loadedSessions survives its connection.
ClearedConnectionOnly(rec) == [rec EXCEPT !.connection = 0]

\* The mutable part of an AcpAgentProcess after #clearConnectionState.
Cleared(rec) == [rec EXCEPT !.connection = 0, !.loaded = FALSE]

\* close of p: it is memoised, ends the connection, and asks the child to stop.
ClosingBridges(p) ==
    LET c == process[p].connection
    IN  Terminated(IF c = 0 THEN bridge ELSE Disconnected(bridge, c), process[p].child, "term")

Close(p) ==
    IF process[p].status # "open" THEN UNCHANGED <<process, bridge>>
    ELSE /\ process' = [process EXCEPT ![p].status = "closing"]
         /\ bridge' = ClosingBridges(p)

\* Slip: the closure is not kept for later runs.
CloseUntracked(p) ==
    /\ client' = IF client = p THEN 0 ELSE client
    /\ closures' = closures
    /\ Close(p)

\* closeAcpProcess: the scope forgets p, and later runs wait for its end.
CloseAcpProcess(p) ==
    /\ client' = IF client = p THEN 0 ELSE client
    /\ closures' = IF process[p].status = "closed" THEN closures ELSE closures \cup {p}
    /\ Close(p)

\* Slip: a finished closure is never cleared.
CloseDoneKeepsClosure(p) ==
    /\ process[p].status = "closing"
    /\ process[p].child # 0 => bridge[process[p].child].cleanup = "done"
    /\ ~(run.process = p /\ step \in {"replacing", "spawning", "initializing", "failing"})
    /\ process' = [process EXCEPT ![p] = [Cleared(@) EXCEPT !.status = "closed"]]
    /\ UNCHANGED <<bound, lane, agent, previous, change, client, closures, bridge, step, run,
                   active, host, taken, runs, faults, undone, overtaken>>

\* #close: the child's cleanup is over and no start is in progress.
CloseDone(p) ==
    /\ process[p].status = "closing"
    /\ process[p].child # 0 => bridge[process[p].child].cleanup = "done"
    /\ ~(run.process = p /\ step \in {"replacing", "spawning", "initializing", "failing"})
    /\ process' = [process EXCEPT ![p] = [Cleared(@) EXCEPT !.status = "closed"]]
    /\ closures' = closures \ {p}
    /\ UNCHANGED <<bound, lane, agent, previous, change, client, bridge, step, run, active,
                   host, taken, runs, faults, undone, overtaken>>

---------------------------------------------------------------------------
(* The bridge: only the kill is certain                                     *)

unchangedButBridges == <<bound, lane, agent, previous, change, client, closures, step, run,
                         active, host, taken, runs, undone, overtaken>>

\* The exit handler clears the process only while the child is still its child.
\* A bridge exits by itself, or because it was told to.
Exit(b) ==
    LET o == bridge[b].owner
        own == process[o].child = b
    IN  /\ bridge[b].os = "up"
        /\ bridge[b].cleanup = "none" => faults < bound.faults
        /\ faults' = IF bridge[b].cleanup = "none" THEN faults + 1 ELSE faults
        /\ bridge' = LET gone == [bridge EXCEPT ![b].os = "gone"]
                     IN  IF own THEN Terminated(Disconnected(gone, b), b, "kill") ELSE gone
        /\ process' = IF own THEN [process EXCEPT ![o] = Cleared(@)] ELSE process
        /\ UNCHANGED unchangedButBridges

\* Slip: the polite signal is all there is.
ForceKillNever(b) == FALSE

\* The grace of one second is over: the group is killed.
ForceKill(b) ==
    /\ bridge[b].os = "up" /\ bridge[b].cleanup = "term"
    /\ bridge' = [bridge EXCEPT ![b].cleanup = "kill"]
    /\ UNCHANGED <<process, faults, unchangedButBridges>>

\* The group is gone: the process forgets the child, if it still is its child.
CleanupDone(b) ==
    LET o == bridge[b].owner
    IN  /\ bridge[b].os = "gone" /\ bridge[b].cleanup \in {"term", "kill"}
        /\ bridge' = [bridge EXCEPT ![b].cleanup = "done"]
        /\ process' = IF process[o].child = b
                      THEN [process EXCEPT ![o] = [Cleared(@) EXCEPT !.child = 0]]
                      ELSE process
        /\ UNCHANGED <<faults, unchangedButBridges>>

\* The stream ends: with the bridge, or before it.
EndOfStream(b) ==
    /\ bridge[b].link = "open"
    /\ bridge[b].os = "up" => faults < bound.faults
    /\ faults' = IF bridge[b].os = "up" THEN faults + 1 ELSE faults
    /\ bridge' = Disconnected(bridge, b)
    /\ UNCHANGED <<process, unchangedButBridges>>

\* A frame beyond the limit: the connection ends and the child is killed, unless
\* the process is closing.
FrameTooLong(b) ==
    LET o == bridge[b].owner
    IN  /\ bridge[b].os = "up" /\ bridge[b].link = "open" /\ faults < bound.faults
        /\ process[o].status # "closing"
        /\ faults' = faults + 1
        /\ bridge' = Terminated(Disconnected(bridge, b), b, "kill")
        /\ UNCHANGED <<process, unchangedButBridges>>

BridgeStep == \E b \in Bridges : Exit(b) \/ ForceKill(b) \/ CleanupDone(b) \/ EndOfStream(b)
                                   \/ FrameTooLong(b)

---------------------------------------------------------------------------
(* The scope's run                                                          *)

Saved(m)     == change[m].stage \notin {"none", "saving", "failed"}
revision     == Cardinality({m \in Changes : Saved(m) /\ change[m].kind # "add"})
ScopeCurrent == ~run.aborted /\ (lane => agent.present /\ agent.access = run.authority)
Ended(ps)    == ps \cap closures = {}

unchangedByRun == <<bound, lane, agent, previous, change, host, taken, faults, undone, overtaken>>

\* The run leaves: its entry in activeAcpSessions goes with it.
EndRun == step' = "idle" /\ run' = NoRun /\ active' = FALSE

StartRun ==
    /\ step = "idle" /\ runs < bound.runs /\ host = "open" /\ agent.present
    /\ step' = "starting"
    /\ \E resumes \in IF lane THEN {FALSE} ELSE BOOLEAN :
          run' = [NoRun EXCEPT !.resumes = resumes, !.authority = agent.access,
                               !.revision = revision]
    /\ runs' = runs + 1
    /\ UNCHANGED <<client, closures, process, bridge, active, unchangedByRun>>

\* runAcpAgent waits for the closures it finds.
AwaitClosures ==
    /\ step = "starting"
    /\ IF ScopeCurrent
       THEN step' = "waiting" /\ run' = [run EXCEPT !.waits = closures] /\ UNCHANGED active
       ELSE EndRun
    /\ UNCHANGED <<client, closures, process, bridge, runs, unchangedByRun>>

\* #start, once no earlier child is left: a new child, its stream not yet open.
Spawn(p, ps) ==
    \E b \in Bridges :
        /\ bridge[b].os = "none" /\ \A c \in 1..(b - 1) : bridge[c].os # "none"
        /\ bridge' = [bridge EXCEPT ![b].os = "up", ![b].owner = p]
        /\ process' = [ps EXCEPT ![p].child = b]
        /\ run' = [run EXCEPT !.process = p, !.bridge = b, !.waits = {}]
        /\ step' = "spawning"

\* runPreparedAcpExecution and #ensureStarted of an open process: the open connection is used; a
\* child whose connection is lost is replaced.
Use(p, ps) ==
    LET counted == [ps EXCEPT ![p].sessions = IF lane THEN @ + 1 ELSE @]
        c == ps[p].connection
    IN  IF c # 0 /\ bridge[c].link = "open"
        THEN /\ step' = "session"
             /\ run' = [run EXCEPT !.process = p, !.bridge = c, !.waits = {}]
             /\ process' = counted /\ UNCHANGED <<bridge, active>>
        ELSE IF ps[p].child # 0
        THEN /\ step' = "replacing"
             /\ run' = [run EXCEPT !.process = p, !.waits = {}]
             /\ bridge' = Terminated(bridge, ps[p].child, "kill")
             /\ process' = counted /\ UNCHANGED active
        ELSE Spawn(p, counted) /\ UNCHANGED active

\* Slip: one session too many.
OutdatedLate(p) ==
    process[p].access # agent.access \/ (lane /\ process[p].sessions > MaxEphemeral)

\* acquireAcpProcess: a process with another access, or that served its share of
\* ephemeral sessions, is closed first.
Outdated(p) ==
    process[p].access # agent.access \/ (lane /\ process[p].sessions >= MaxEphemeral)

Acquire ==
    /\ step = "waiting" /\ Ended(run.waits)
    /\ IF ~ScopeCurrent \/ ~agent.present
       THEN EndRun /\ UNCHANGED <<client, closures, process, bridge>>
       ELSE IF client = 0
       THEN /\ step' = "launching"
            /\ run' = [run EXCEPT !.plan = agent.identity, !.access = agent.access]
            /\ UNCHANGED <<client, closures, process, bridge, active>>
       ELSE IF Outdated(client)
       THEN /\ step' = "retiring"
            /\ run' = [run EXCEPT !.plan = agent.identity, !.access = agent.access,
                                  !.waits = closures \cup {client}]
            /\ CloseAcpProcess(client) /\ UNCHANGED active
       ELSE Use(client, process) /\ UNCHANGED <<client, closures>>
    /\ UNCHANGED <<runs, unchangedByRun>>

Retired ==
    /\ step = "retiring" /\ Ended(run.waits)
    /\ IF ScopeCurrent THEN step' = "launching" /\ UNCHANGED <<run, active>> ELSE EndRun
    /\ UNCHANGED <<client, closures, process, bridge, runs, unchangedByRun>>

\* Slip: nothing is looked at again after adapter.launch.
PlanHoldsAlways == TRUE

\* adapter.launch has answered.  The plan holds only for the Agent it was made for.
PlanHolds == ScopeCurrent /\ agent.present /\ agent.identity = run.plan

Launched ==
    /\ step = "launching"
    /\ IF PlanHolds
       THEN \E p \in Processes :
               /\ process[p].status = "none" /\ \A q \in 1..(p - 1) : process[q].status # "none"
               /\ client' = p
               /\ Use(p, [process EXCEPT ![p].status = "open", ![p].access = run.access])
       ELSE EndRun /\ UNCHANGED <<client, process, bridge>>
    /\ UNCHANGED <<closures, runs, unchangedByRun>>

LaunchFails ==
    /\ step = "launching" /\ EndRun
    /\ UNCHANGED <<client, closures, process, bridge, runs, unchangedByRun>>

Replaced ==
    /\ step = "replacing" /\ process[run.process].child = 0
    /\ IF process[run.process].status = "open"
       THEN Spawn(run.process, process) /\ UNCHANGED active
       ELSE EndRun /\ UNCHANGED <<process, bridge>>
    /\ UNCHANGED <<client, closures, runs, unchangedByRun>>

Spawned ==
    /\ step = "spawning"
    /\ step' = "initializing"
    /\ bridge' = [bridge EXCEPT ![run.bridge].link = "open"]
    /\ process' = [process EXCEPT ![run.process].connection = run.bridge]
    /\ UNCHANGED <<client, closures, run, active, runs, unchangedByRun>>

\* #start gives up: unless the process is closing it kills the child and waits.
StartFails(bs) ==
    IF process[run.process].status = "open"
    THEN step' = "failing" /\ bridge' = Terminated(bs, run.bridge, "kill") /\ UNCHANGED <<run, active>>
    ELSE EndRun /\ bridge' = bs

SpawnFails ==
    /\ step = "spawning" /\ faults < bound.faults /\ bridge[run.bridge].os = "up"
    /\ StartFails([bridge EXCEPT ![run.bridge].os = "gone"])
    /\ faults' = faults + 1
    /\ UNCHANGED <<client, closures, process, runs, bound, lane, agent, previous, change, host, taken, undone, overtaken>>

StartFailed ==
    /\ step = "failing" /\ bridge[run.bridge].cleanup = "done"
    /\ EndRun
    /\ UNCHANGED <<client, closures, process, bridge, runs, unchangedByRun>>

\* The bridge answers the request of this step: it runs, its stream is open and so is
\* its input, which the first attempt to end it closes.
Reachable(b) == bridge[b].os = "up" /\ bridge[b].link = "open" /\ bridge[b].cleanup = "none"
Answers == step \in Request /\ Reachable(run.bridge)

Continue(next) == IF run.aborted THEN EndRun ELSE step' = next /\ UNCHANGED <<run, active>>

Initialized ==
    /\ step = "initializing" /\ Answers /\ Continue("session")
    /\ UNCHANGED <<client, closures, process, bridge, runs, unchangedByRun>>

\* #ensureSession: a loaded session is used as it is, another one is loaded or made.
Loaded == run.resumes /\ process[run.process].loaded

SessionReady ==
    /\ step = "session" /\ (Loaded \/ Answers) /\ Continue("configuring")
    /\ bridge' = IF Loaded THEN bridge ELSE [bridge EXCEPT ![run.bridge].session = TRUE]
    /\ process' = [process EXCEPT ![run.process].loaded = ~lane]
    /\ UNCHANGED <<client, closures, runs, unchangedByRun>>

\* The mode is set, the turn registered, onSessionReady called and the prompt sent.
Prompt ==
    /\ step = "configuring" /\ Answers
    /\ IF run.aborted THEN EndRun ELSE step' = "prompting" /\ active' = TRUE /\ UNCHANGED run
    /\ UNCHANGED <<client, closures, process, bridge, runs, unchangedByRun>>

Answered ==
    /\ step = "prompting" /\ Answers /\ EndRun
    /\ UNCHANGED <<client, closures, process, bridge, runs, unchangedByRun>>

\* A request is refused, or its connection has ended.
RequestFails ==
    /\ step \in Request /\ (Answers \/ bridge[run.bridge].link = "closed" \/ bridge[run.bridge].cleanup # "none")
    /\ ~(step = "session" /\ Loaded)
    /\ IF step = "initializing" THEN StartFails(Dropped(bridge, run.process))
       ELSE EndRun /\ UNCHANGED bridge
    /\ UNCHANGED <<client, closures, process, runs, unchangedByRun>>

\* Slip: initialize has no timer.
RequestTimesOutLater ==
    /\ step \in Request \ {"initializing"}
    /\ ~(step = "session" /\ Loaded)
    /\ EndRun /\ bridge' = Dropped(bridge, run.process)
    /\ UNCHANGED <<client, closures, process, runs, unchangedByRun>>

\* #request: the timer ends the connection and kills the child.
RequestTimesOut ==
    /\ step \in Request
    /\ ~(step = "session" /\ Loaded)
    /\ IF step = "initializing" THEN StartFails(Dropped(bridge, run.process))
       ELSE EndRun /\ bridge' = Dropped(bridge, run.process)
    /\ UNCHANGED <<client, closures, process, runs, unchangedByRun>>

\* executionIsCurrent, as far as it looks at the Agent.
RunCurrent ==
    /\ ~run.aborted /\ host = "open" /\ run.revision = revision
    /\ agent.present /\ agent.access = run.authority

\* runAgentWithRecovery: the native session is missing.  The scope's process is
\* closed, outside closures, before the run is tried once more without a session.
SessionMissing ==
    /\ step \in {"session", "prompting"} /\ Answers /\ run.resumes
    /\ ~(step = "session" /\ Loaded)
    /\ IF ~RunCurrent
       THEN EndRun /\ UNCHANGED <<client, process, bridge>>
       ELSE /\ step' = "recovering" /\ active' = FALSE
            /\ run' = [run EXCEPT !.resumes = FALSE, !.process = client, !.bridge = 0]
            /\ client' = 0
            /\ IF client = 0 THEN UNCHANGED <<process, bridge>> ELSE Close(client)
    /\ UNCHANGED <<closures, runs, unchangedByRun>>

Recovered ==
    /\ step = "recovering"
    /\ run.process # 0 => process[run.process].status = "closed"
    /\ step' = "starting" /\ run' = [run EXCEPT !.process = 0]
    /\ UNCHANGED <<client, closures, process, bridge, active, runs, unchangedByRun>>

RunStep ==
    \/ AwaitClosures \/ Acquire \/ Retired \/ Launched \/ LaunchFails \/ Replaced \/ Spawned
    \/ SpawnFails \/ StartFailed \/ Initialized \/ SessionReady \/ Prompt
    \/ RequestFails \/ RequestTimesOut \/ SessionMissing \/ Recovered

---------------------------------------------------------------------------
(* Those who end a run or a process from outside                            *)

\* abort of the run's signal: before its session is ready, abortSetup closes the
\* process it uses.
Abort ==
    /\ run' = [run EXCEPT !.aborted = TRUE]
    /\ IF step \in Setup THEN CloseAcpProcess(run.process)
       ELSE UNCHANGED <<client, closures, process, bridge>>

\* Stopped by the user or, in an inference lane, at its deadline.
Stop ==
    /\ bound.stops /\ step # "idle" /\ ~run.aborted /\ Abort
    /\ UNCHANGED <<bound, lane, agent, previous, change, step, active, host, taken, runs, faults, undone, overtaken>>

\* A mutation of the Agent, visible from here on: its access, its removal, and its
\* configuration anew.
ChangeAgent(m) ==
    /\ host = "open" /\ m <= bound.changes /\ change[m].stage = "none"
    /\ \A n \in Changes : change[n].stage # "saving" /\ (n < m => change[n].stage # "none")
    /\ \E kind \in IF agent.present THEN {"access", "remove"} ELSE {"add"} :
          /\ change' = [change EXCEPT ![m] = [kind |-> kind, stage |-> "saving",
                                             before |-> agent.access, waits |-> {}]]
          /\ agent' = [present |-> kind # "remove",
                       access |-> kind = "access" /\ ~agent.access, identity |-> m]
    /\ previous' = agent
    /\ UNCHANGED <<bound, lane, client, closures, process, bridge, step, run, active, host, taken,
                   runs, faults, undone, overtaken>>

ChangeFails(m) ==
    /\ change[m].stage = "saving"
    /\ change' = [change EXCEPT ![m].stage = "failed"]
    /\ agent' = previous /\ undone' = TRUE
    /\ UNCHANGED <<bound, lane, previous, client, closures, process, bridge, step, run, active,
                   host, taken, runs, faults, overtaken>>

ChangeSaved(m) ==
    /\ change[m].stage = "saving"
    /\ change' = [change EXCEPT ![m].stage = IF change[m].kind = "add" THEN "done" ELSE "saved"]
    /\ previous' = agent
    /\ UNCHANGED <<bound, lane, agent, client, closures, process, bridge, step, run,
                   active, host, taken, runs, faults, undone, overtaken>>

Done(rec) == [rec EXCEPT !.stage = "done", !.waits = {}]

\* The runs admitted before the mutation are aborted; what happens when another
\* mutation has meanwhile put the access back is nothing.
NothingToApply(m) ==
    change[m].kind = "access" /\ (~agent.present \/ agent.access = change[m].before)

Interrupt(m) ==
    /\ change[m].stage = "saved"
    /\ IF NothingToApply(m)
       THEN /\ change' = [change EXCEPT ![m] = Done(@)]
            /\ UNCHANGED <<run, client, closures, process, bridge>>
       ELSE /\ change' = [change EXCEPT ![m].stage = "interrupting"]
            /\ IF ~lane /\ step # "idle" /\ ~run.aborted
                  /\ (change[m].kind = "access" => run.revision # revision)
               THEN Abort
               ELSE UNCHANGED <<run, client, closures, process, bridge>>
    /\ UNCHANGED <<bound, lane, agent, previous, step, active, host, taken, runs, faults, undone, overtaken>>

\* Slip: a change of access leaves the process to the run it interrupts.
MismatchedRemovalOnly(m) == client # 0 /\ change[m].kind = "remove"

\* closeAcpProcessesMatching looks at the access of now; a removed Agent's process
\* goes whatever it is.
Mismatched(m) ==
    client # 0 /\ (change[m].kind = "remove"
                     \/ (agent.present /\ process[client].access # agent.access))

CloseMatching(m) ==
    /\ change[m].stage = "interrupting"
    /\ IF Mismatched(m)
       THEN /\ CloseAcpProcess(client)
            /\ change' = [change EXCEPT ![m].stage = "closing", ![m].waits = closures \cup {client}]
            /\ active' = FALSE
            /\ overtaken' = (overtaken \/ step = "waiting")
       ELSE /\ change' = [change EXCEPT ![m] = Done(@)]
            /\ UNCHANGED <<client, closures, process, bridge, active, overtaken>>
    /\ UNCHANGED <<bound, lane, agent, previous, step, run, host, taken, runs, faults, undone>>

ChangeDone(m) ==
    /\ change[m].stage = "closing" /\ Ended(change[m].waits)
    /\ change' = [change EXCEPT ![m] = Done(@)]
    /\ UNCHANGED <<bound, lane, agent, previous, client, closures, process, bridge, step, run,
                   active, host, taken, runs, faults, undone, overtaken>>

\* Another harness is chosen, or history is deleted: the lanes are closed.
CloseLanes ==
    /\ lane /\ client # 0 /\ host = "open" /\ CloseAcpProcess(client) /\ active' = FALSE
    /\ overtaken' = (overtaken \/ step = "waiting")
    /\ UNCHANGED <<bound, lane, agent, previous, change, step, run, host, taken, runs, faults, undone>>

\* close: an inference is aborted first.
HostCloses ==
    /\ bound.closes /\ host = "open" /\ host' = "closing"
    /\ IF lane /\ step # "idle" /\ ~run.aborted THEN Abort
       ELSE UNCHANGED <<run, client, closures, process, bridge>>
    /\ UNCHANGED <<bound, lane, agent, previous, change, step, active, taken, runs, faults, undone, overtaken>>

\* It takes what acpProcesses holds, aborts the runs, and closes what it took.
HostEndsRuns ==
    LET aborts == ~lane /\ step # "idle" /\ ~run.aborted
        ends == {client} \cup (IF aborts /\ step \in Setup THEN {run.process} ELSE {})
        open == {p \in ends \ {0} : process[p].status = "open"}
    IN  /\ host = "closing" /\ host' = "ending"
        /\ taken' = client /\ client' = 0 /\ active' = FALSE
        /\ run' = IF aborts THEN [run EXCEPT !.aborted = TRUE] ELSE run
        /\ closures' = IF aborts /\ step \in Setup /\ process[run.process].status # "closed"
                       THEN closures \cup {run.process} ELSE closures
        /\ process' = [p \in Processes |->
                          IF p \in open THEN [process[p] EXCEPT !.status = "closing"] ELSE process[p]]
        /\ bridge' = [b \in Bridges |->
                         IF bridge[b].owner \in open
                         THEN ClosingBridges(bridge[b].owner)[b] ELSE bridge[b]]
        /\ UNCHANGED <<bound, lane, agent, previous, change, step, runs, faults, undone, overtaken>>

HostClosed ==
    /\ host = "ending" /\ step = "idle"
    /\ taken # 0 => process[taken].status = "closed"
    /\ \A m \in Changes : change[m].stage \in {"none", "failed", "done"}
    /\ host' = "closed"
    /\ UNCHANGED <<bound, lane, agent, previous, change, client, closures, process, bridge, step,
                   run, active, taken, runs, faults, undone, overtaken>>

---------------------------------------------------------------------------
Next ==
    \/ StartRun \/ RunStep \/ Answered \/ Stop
    \/ \E p \in Processes : CloseDone(p)
    \/ BridgeStep
    \/ \E m \in Changes : \/ ChangeAgent(m) \/ ChangeFails(m) \/ ChangeSaved(m) \/ Interrupt(m)
                         \/ CloseMatching(m) \/ ChangeDone(m)
    \/ CloseLanes \/ HostCloses \/ HostEndsRuns \/ HostClosed

\* Promises settle, timers fire, and a killed group goes away.  A bridge answers,
\* obeys or exits only if it likes to: what every request is sure of is its timer.
HostStep ==
    \/ AwaitClosures \/ Acquire \/ Retired \/ Launched \/ LaunchFails \/ Replaced \/ Spawned
    \/ SpawnFails \/ StartFailed \/ (step = "session" /\ Loaded /\ SessionReady) \/ RequestTimesOut \/ Recovered
ChangeStep == \E m \in Changes : ChangeSaved(m) \/ Interrupt(m) \/ CloseMatching(m) \/ ChangeDone(m)
Killed     == \E b \in Bridges : bridge[b].cleanup = "kill" /\ Exit(b)
StreamEnds == \E b \in Bridges : bridge[b].os = "gone" /\ EndOfStream(b)

Fairness ==
    /\ WF_vars(HostStep) /\ WF_vars(ChangeStep)
    /\ WF_vars(\E p \in Processes : CloseDone(p))
    /\ WF_vars(Killed) /\ WF_vars(StreamEnds)
    /\ WF_vars(\E b \in Bridges : ForceKill(b)) /\ WF_vars(\E b \in Bridges : CleanupDone(b))
    /\ WF_vars(HostEndsRuns) /\ WF_vars(HostClosed)

Spec == Init /\ [][Next]_vars /\ Fairness

---------------------------------------------------------------------------
\* The values the host's records of the scope may have.
TypeOK ==
    /\ lane \in BOOLEAN /\ active \in BOOLEAN /\ undone \in BOOLEAN /\ overtaken \in BOOLEAN
    /\ client \in Processes \cup {0} /\ taken \in Processes \cup {0}
    /\ closures \subseteq {p \in Processes : process[p].status = "closing"}
    /\ \A p \in Processes :
          /\ process[p].status \in {"none", "open", "closing", "closed"}
          /\ process[p].child \in Bridges \cup {0} /\ process[p].connection \in Bridges \cup {0}
    /\ \A b \in Bridges : bridge[b].os \in {"none", "up", "gone"}
    /\ step \in Steps /\ (step = "idle" => run = NoRun)
    /\ client # 0 => process[client].status = "open"
    /\ host \in {"open", "closing", "ending", "closed"}

\* A scope has one bridge at a time: its sessions are never held by two native
\* processes, however a close, a relaunch and a restart of the bridge fall (unless the
\* close falls in the instant between a run's wait and its look at acpProcesses).
OneBridge == ~overtaken => Cardinality({b \in Bridges : bridge[b].os = "up"}) <= 1

\* A bridge nobody has told to stop is one the host can still find: acpProcesses
\* has its process, or the run in progress holds it.  Nothing outlives close().
NoOrphan ==
    \A b \in Bridges :
        bridge[b].os = "up" /\ bridge[b].cleanup = "none" =>
            /\ host # "closed"
            /\ bridge[b].owner = client \/ (step # "idle" /\ bridge[b].owner = run.process)

\* What the process believes loaded is loaded in the bridge it is connected to: no
\* prompt goes to a session a restarted bridge has never seen.
LoadedIsTrue ==
    \A p \in Processes :
        process[p].loaded /\ process[p].connection # 0 => bridge[process[p].connection].session

\* Once every change of the Agent is answered no turn goes on, and none starts, in a
\* process with another access than the Agent's (unless a change was undone while a
\* run looked at it).
AccessApplied ==
    (\A m \in Changes : change[m].stage \in {"none", "done"}) /\ step = "prompting"
        => undone \/ bridge[run.bridge].link = "closed" \/ process[run.process].access = agent.access

\* A bridge serves at most MAX_EPHEMERAL_SESSIONS_PER_PROCESS ephemeral sessions.
LanesRotate == \A p \in Processes : process[p].sessions <= MaxEphemeral

\* Every run ends, whatever the bridge does and whoever closes it.
RunsEnd == step # "idle" ~> step = "idle"

\* Every change of the Agent is answered, and the host's close comes to its end.
CallsEnd ==
    /\ \A m \in Changes : change[m].stage = "saved" ~> change[m].stage = "done"
    /\ host = "closing" ~> host = "closed"

\* What holds of a scope in every state: one bridge, in which is loaded what its
\* process believes loaded, and which is replaced in time.
ProcessesConsistent ==
    /\ TypeOK
    /\ OneBridge
    /\ LoadedIsTrue
    /\ LanesRotate

\* Runs, changes of the Agent and close() all come to their end.
AllEnds == RunsEnd /\ CallsEnd

===============================================================================
