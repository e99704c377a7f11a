--------------------------- MODULE AcpProcessProofs ---------------------------
(***************************************************************************)
(* A scope has one bridge at a time, which is never orphaned and serves the *)
(* Agent with the access it has, for any numbers of runs, changes of the    *)
(* Agent, faults and ephemeral sessions.                                    *)
(*                                                                         *)
(* Most steps are calm: they at most tell bridges to stop and close an open *)
(* process.  They preserve the parts of the invariant about processes and   *)
(* bridges for one reason, and so do the steps that begin to use a process; *)
(* only the few that settle a process or a bridge need a case each.         *)
(***************************************************************************)
EXTENDS AcpProcess, FiniteSetTheorems, TLAPS

-----------------------------------------------------------------------------
(* The inductive invariant.                                                *)

\* The values of an AcpAgentProcess, of a bridge, of what a run holds, of the Agent's
\* entry, and of a mutation of the Agent.
ProcessRecords ==
    [status : {"none", "open", "closing", "closed"}, access : BOOLEAN, sessions : Nat,
     child : Bridges \cup {0}, connection : Bridges \cup {0}, loaded : BOOLEAN]
BridgeRecords ==
    [os : {"none", "up", "gone"}, owner : Processes \cup {0}, link : {"none", "open", "closed"},
     cleanup : {"none", "term", "kill", "done"}, session : BOOLEAN]
RunRecords ==
    [process : Processes \cup {0}, bridge : Bridges \cup {0}, plan : Changes \cup {0},
     access : BOOLEAN, authority : BOOLEAN, revision : Nat, resumes : BOOLEAN,
     aborted : BOOLEAN, waits : SUBSET Processes]
Agents == [present : BOOLEAN, access : BOOLEAN, identity : Changes \cup {0}]
ChangeRecords ==
    [kind : {"none", "access", "remove", "add"},
     stage : {"none", "saving", "saved", "failed", "interrupting", "closing", "done"},
     before : BOOLEAN, waits : SUBSET Processes]

\* Every variable has its type.
Typed ==
    /\ process \in [Processes -> ProcessRecords] /\ bridge \in [Bridges -> BridgeRecords]
    /\ run \in RunRecords /\ change \in [Changes -> ChangeRecords]
    /\ agent \in Agents /\ previous \in Agents
    /\ client \in Processes \cup {0} /\ taken \in Processes \cup {0}
    /\ closures \subseteq Processes
    /\ lane \in BOOLEAN /\ active \in BOOLEAN /\ undone \in BOOLEAN /\ overtaken \in BOOLEAN
    /\ step \in Steps /\ host \in {"open", "closing", "ending", "closed"}

\* Bridge b, unless it is 0, has been started for process p.
Owns(p, b) == b # 0 => bridge[b].os # "none" /\ bridge[b].owner = p

\* What a process and its bridges know of each other.
OwnInv ==
    /\ \A p \in Processes :
          /\ Owns(p, process[p].child) /\ Owns(p, process[p].connection)
          /\ process[p].status = "none" =>
                process[p].connection = 0 /\ process[p].sessions = 0 /\ ~process[p].loaded
          /\ process[p].status \in {"none", "closed"} => process[p].child = 0
          /\ process[p].child # 0 =>
                /\ bridge[process[p].child].cleanup # "done"
                /\ process[p].status = "closing" => bridge[process[p].child].cleanup # "none"
    /\ \A b \in Bridges :
          /\ bridge[b].os = "none" => bridge[b].cleanup # "done"
          /\ bridge[b].os # "none" => bridge[b].owner \in Processes
          /\ bridge[b].os = "up" => process[bridge[b].owner].child = b

\* The open process is the one acpProcesses has; a closing one is in closures, or
\* close() took it, or the run in SessionMissing waits for it.
HeldInv ==
    /\ \A p \in Processes :
          /\ process[p].status = "open" <=> p = client
          /\ p \in closures => process[p].status = "closing"
          /\ process[p].status = "closing" =>
                p \in closures \/ p = taken \/ (step = "recovering" /\ p = run.process)

\* The steps at which the run holds a process.
Using == Setup \cup {"prompting"}

\* The run holds a process, and a bridge of that process; a process is launched only
\* when the closures the run waits for are all there are.
RunInv ==
    /\ step = "idle" => run = NoRun
    /\ step \in Using => run.process # 0 /\ process[run.process].status # "none"
    /\ step \in Using \ {"replacing"} =>
          run.bridge # 0 /\ bridge[run.bridge].os # "none" /\ bridge[run.bridge].owner = run.process
    /\ step \in {"retiring", "launching"} => client = 0
    /\ step = "retiring" => closures \subseteq run.waits
    /\ ~overtaken /\ step = "waiting" => closures \subseteq run.waits
    /\ ~overtaken /\ step = "launching" => closures = {}

\* close() takes the process once, and from then on every run is aborted.
HostInv ==
    /\ host \in {"open", "closing"} => taken = 0
    /\ host \in {"ending", "closed"} => client = 0 /\ (step # "idle" => run.aborted)
    /\ host = "closing" /\ lane /\ step # "idle" => run.aborted

\* One process at a time is not closed, so that one child at a time may run.
OneInv ==
    ~overtaken => \A p, q \in Processes :
       process[p].status \in {"open", "closing"} /\ process[q].status \in {"open", "closing"} => p = q

\* The steps of a run whose bridge has answered initialize.
Conversing == {"session", "configuring", "prompting"}

\* An open link leads to a running bridge, the run's link is its process's connection
\* while the bridge runs, and whoever converses over it does so with an open process.
LinkInv ==
    /\ \A p \in Processes : LET c == process[p].connection IN
          c # 0 /\ bridge[c].link = "open" =>
             bridge[c].os = "up" \/ (step = "initializing" /\ run.process = p /\ run.bridge = c)
    /\ step \in Conversing \cup {"initializing"} =>
          /\ bridge[run.bridge].os = "up" => process[run.process].connection = run.bridge
          /\ bridge[run.bridge].link # "none"
    /\ step \in Conversing /\ bridge[run.bridge].link = "open" =>
          bridge[run.bridge].os = "up" /\ process[run.process].status = "open"
    /\ step = "spawning" => process[run.process].connection # run.bridge

\* What is believed loaded is loaded in a running bridge.
LoadedInv ==
    /\ \A p \in Processes : LET c == process[p].connection IN
          /\ process[p].loaded => c # 0 /\ bridge[c].os = "up" /\ bridge[c].session
    /\ step = "spawning" => ~process[run.process].loaded

\* Sessions are counted up to the limit.
Rotating == \A p \in Processes : process[p].sessions <= MaxEphemeral

\* A mutation whose runs and processes are still to be looked at.
Pending(m) == change[m].stage \in {"saving", "saved", "interrupting"}

\* A plan made for the Agent of now carries the Agent's access; and when the open process
\* has another access, or belongs to a removed Agent, some change is on its way to close it.
AccessInv ==
    /\ \A i \in {agent.identity, previous.identity, run.plan} : i # 0 => change[i].stage # "none"
    /\ ~undone =>
        /\ step \in {"retiring", "launching"} /\ run.plan = agent.identity => run.access = agent.access
        /\ client # 0 /\ ~agent.present => \E m \in Changes : Pending(m) /\ change[m].kind = "remove"
        /\ client # 0 /\ agent.present /\ process[client].access # agent.access =>
              \E m \in Changes :
                 /\ Pending(m)
                 /\ \/ change[m].kind = "remove"
                    \/ change[m].kind = "access"
                         /\ (change[m].stage = "interrupting" \/ change[m].before = process[client].access)

\* The inductive invariant of the scope.
IInv ==
    /\ Typed /\ OwnInv /\ HeldInv /\ RunInv /\ HostInv /\ OneInv
    /\ LinkInv /\ LoadedInv /\ Rotating /\ AccessInv

-----------------------------------------------------------------------------
(* Bridges and processes: what ending one, or closing one, changes.        *)

\* 0, for none, is nobody's number, and a revision is a number.
LEMMA Ids ==
  /\ 0 \notin Processes /\ 0 \notin Bridges /\ 0 \notin Changes
  /\ MaxEphemeral \in Nat \ {0} /\ revision \in Nat
<1>1. 2 * MaxRuns \in Nat /\ MaxChanges \in Nat /\ MaxEphemeral \in Nat \ {0}
  BY BoundAssumption
<1>2. IsFiniteSet(Changes)
  BY <1>1, FS_Interval DEF Changes
<1>3. revision \in Nat
  BY <1>2, FS_Subset, FS_CardinalityType DEF revision
<1> QED BY <1>1, <1>3 DEF Processes, Bridges, Changes

\* A bridge that goes on as it was or is told to stop: its link may close, its cleanup begin.
Softer(old, new) ==
  /\ new.os = old.os /\ new.owner = old.owner /\ new.session = old.session
  /\ new.link = old.link \/ (old.link # "none" /\ new.link = "closed")
  /\ new.cleanup = old.cleanup \/ (old.cleanup \in {"none", "term"} /\ new.cleanup \in {"term", "kill"})

\* Terminated begins the cleanup of one bridge and leaves the others alone.
LEMMA TerminatedBridges ==
  ASSUME NEW bs \in [Bridges -> BridgeRecords], NEW b \in Bridges \cup {0},
         NEW signal \in {"term", "kill"}
  PROVE  LET new == Terminated(bs, b, signal)
         IN  /\ new \in [Bridges -> BridgeRecords]
             /\ \A c \in Bridges : /\ Softer(bs[c], new[c]) /\ new[c].link = bs[c].link
                                   /\ c # b => new[c] = bs[c]
             /\ b # 0 => new[b].cleanup # "none"
BY Ids DEF Terminated, BridgeRecords, Softer

\* Disconnected closes the link of one bridge.
LEMMA DisconnectedBridges ==
  ASSUME NEW bs \in [Bridges -> BridgeRecords], NEW b \in Bridges
  PROVE  LET new == Disconnected(bs, b)
         IN  /\ new \in [Bridges -> BridgeRecords]
             /\ \A c \in Bridges : /\ Softer(bs[c], new[c]) /\ new[c].cleanup = bs[c].cleanup
                                   /\ c # b => new[c] = bs[c]
             /\ new[b].link # "open"
BY DEF Disconnected, BridgeRecords, Softer

-----------------------------------------------------------------------------
(* Calm steps: no process is used, forgotten or reconnected.               *)

\* Of the processes only an open one changes: it closes, and its child and link with it.
Calm ==
  /\ process' \in [Processes -> ProcessRecords] /\ bridge' \in [Bridges -> BridgeRecords]
  /\ \A b \in Bridges : Softer(bridge[b], bridge'[b])
  /\ \A p \in Processes :
        /\ process'[p].access = process[p].access
        /\ process'[p].sessions = process[p].sessions
        /\ process'[p].child = process[p].child
        /\ process'[p].connection = process[p].connection
        /\ process'[p].loaded = process[p].loaded
        /\ process'[p].status # process[p].status =>
              /\ process[p].status = "open" /\ process'[p].status = "closing"
              /\ process[p].child # 0 => bridge'[process[p].child].cleanup # "none"
              /\ process[p].connection # 0 => bridge'[process[p].connection].link # "open"

\* A step that at most tells bridges to stop is calm,
LEMMA CalmBridges ==
  ASSUME Typed, UNCHANGED process, bridge' \in [Bridges -> BridgeRecords],
         \A b \in Bridges : Softer(bridge[b], bridge'[b])
  PROVE  Calm
BY DEF Calm, Typed

\* and so is one that touches neither bridges nor processes.
LEMMA CalmUnchanged ==
  ASSUME Typed, UNCHANGED <<process, bridge>>
  PROVE  Calm
BY DEF Calm, Typed, Softer

\* Being told to stop twice is being told to stop.
LEMMA SofterTwice ==
  ASSUME NEW r, NEW s, NEW t, Softer(r, s), Softer(s, t), s.link # "none" \/ t.link = s.link
  PROVE  Softer(r, t)
BY DEF Softer

\* Disconnecting a process's link and ending its child tells both bridges to stop.
LEMMA DroppedBridges ==
  ASSUME Typed, NEW p \in Processes, NEW signal \in {"term", "kill"}
  PROVE  LET c == process[p].connection
             new == Terminated(IF c = 0 THEN bridge ELSE Disconnected(bridge, c), process[p].child, signal)
         IN  /\ new \in [Bridges -> BridgeRecords]
             /\ \A b \in Bridges : Softer(bridge[b], new[b])
             /\ process[p].child # 0 => new[process[p].child].cleanup # "none"
             /\ c # 0 => new[c].link # "open"
             /\ \A b \in Bridges : b # process[p].child /\ b # c => new[b] = bridge[b]
<1> DEFINE c == process[p].connection
           mid == IF c = 0 THEN bridge ELSE Disconnected(bridge, c)
           new == Terminated(mid, process[p].child, signal)
<1>1. /\ bridge \in [Bridges -> BridgeRecords] /\ c \in Bridges \cup {0}
      /\ process[p].child \in Bridges \cup {0}
  BY DEF Typed, ProcessRecords
<1>2. /\ mid \in [Bridges -> BridgeRecords]
      /\ \A b \in Bridges : Softer(bridge[b], mid[b]) /\ (b # c => mid[b] = bridge[b])
      /\ c # 0 => mid[c].link # "open"
  <2>1. CASE c = 0
    BY <1>1, <2>1, Ids DEF Softer
  <2>2. CASE c # 0
    BY <1>1, <2>2, DisconnectedBridges
  <2> QED BY <2>1, <2>2
<1> HIDE DEF mid
<1>3. /\ new \in [Bridges -> BridgeRecords]
      /\ \A b \in Bridges : /\ Softer(mid[b], new[b]) /\ new[b].link = mid[b].link
                            /\ b # process[p].child => new[b] = mid[b]
      /\ process[p].child # 0 => new[process[p].child].cleanup # "none"
  BY <1>1, <1>2, TerminatedBridges
<1>4. \A b \in Bridges : Softer(bridge[b], new[b])
  BY <1>2, <1>3, SofterTwice
<1>5. c # 0 => new[c].link # "open"
  BY <1>1, <1>2, <1>3
<1> HIDE DEF new
<1>6. \A b \in Bridges : b # process[p].child /\ b # c => new[b] = bridge[b]
  BY <1>2, <1>3
<1> QED BY <1>3, <1>4, <1>5, <1>6 DEF new, mid

\* Of the processes ps those that are open begin to close, and no other does.
Shut(ps) ==
  \A q \in Processes : process'[q].status = IF q \in ps /\ process[q].status = "open" THEN "closing"
                                            ELSE process[q].status

\* Close(p) is calm, and shuts p only;
LEMMA CloseCalm ==
  ASSUME Typed, NEW p \in Processes, Close(p)
  PROVE  Calm /\ Shut({p})
<1>1. CASE process[p].status # "open"
  BY <1>1, CalmUnchanged DEF Close, Shut
<1>2. CASE process[p].status = "open"
  <2>1. /\ process' = [process EXCEPT ![p].status = "closing"]
        /\ bridge' = ClosingBridges(p)
    BY <1>2 DEF Close
  <2>2. /\ bridge' \in [Bridges -> BridgeRecords]
        /\ \A b \in Bridges : Softer(bridge[b], bridge'[b])
        /\ process[p].child # 0 => bridge'[process[p].child].cleanup # "none"
        /\ process[p].connection # 0 => bridge'[process[p].connection].link # "open"
    BY <2>1, DroppedBridges DEF ClosingBridges
  <2>3. process' \in [Processes -> ProcessRecords]
    BY <2>1 DEF Typed, ProcessRecords
  <2> QED BY <1>2, <2>1, <2>2, <2>3 DEF Calm, Shut, Typed, ProcessRecords
<1> QED BY <1>1, <1>2

\* closeAcpProcess is, too.
LEMMA CloseAcpCalm ==
  ASSUME Typed, NEW p \in Processes, CloseAcpProcess(p)
  PROVE  Calm /\ Shut({p})
BY CloseCalm DEF CloseAcpProcess

-----------------------------------------------------------------------------
(* Which actions are calm, and where they leave the run.                   *)

\* The connection of the run's process is no longer open.
ConnectionEnded ==
  process[run.process].connection # 0 =>
    bridge'[process[run.process].connection].link # "open"

\* The run stays where it is, with its process and its bridge.
RunKept == step' = step /\ run'.process = run.process /\ run'.bridge = run.bridge

\* How a calm step may move the run: not at all, out of the steps that use a process, or
\* along a conversation whose bridge answers.
RunMoves ==
  \/ RunKept
  \/ /\ step' \notin Using \/ (step' = "failing" /\ step = "initializing" /\ run' = run)
     /\ step = "initializing" =>
          ConnectionEnded \/ (UNCHANGED <<process, bridge>> /\ Reachable(run.bridge))
  \/ /\ step \in {"initializing", "session", "configuring"} /\ step' \in Conversing /\ run' = run
     /\ UNCHANGED <<process, bridge>> /\ Reachable(run.bridge)

\* HostEndsRuns is calm: it closes what acpProcesses holds and what an aborted run sets up.
LEMMA HostEndsCalm ==
  ASSUME IInv, HostEndsRuns
  PROVE  /\ Calm /\ RunKept
         /\ Shut({client} \cup (IF ~lane /\ step # "idle" /\ ~run.aborted /\ step \in Setup
                               THEN {run.process} ELSE {}))
<1> DEFINE ends == {client} \cup (IF ~lane /\ step # "idle" /\ ~run.aborted /\ step \in Setup
                                 THEN {run.process} ELSE {})
           open == {p \in ends \ {0} : process[p].status = "open"}
<1>1. /\ process' = [p \in Processes |->
                          IF p \in open THEN [process[p] EXCEPT !.status = "closing"] ELSE process[p]]
      /\ bridge' = [b \in Bridges |->
                         IF bridge[b].owner \in open
                         THEN ClosingBridges(bridge[b].owner)[b] ELSE bridge[b]]
      /\ step' = step
      /\ run' = run \/ run' = [run EXCEPT !.aborted = TRUE]
  BY DEF HostEndsRuns
<1>2. ends \subseteq Processes \cup {0} /\ open \subseteq Processes
  BY DEF IInv, Typed, RunRecords
<1>3. Typed /\ OwnInv
  BY DEF IInv
<1>4. /\ process \in [Processes -> ProcessRecords] /\ bridge \in [Bridges -> BridgeRecords]
      /\ run \in RunRecords
  BY <1>3 DEF Typed
<1> HIDE DEF ends
<1>5. ASSUME NEW p \in Processes
      PROVE  LET new == ClosingBridges(p)
         IN  /\ new \in [Bridges -> BridgeRecords]
             /\ \A b \in Bridges : Softer(bridge[b], new[b])
             /\ process[p].child # 0 => new[process[p].child].cleanup # "none"
             /\ process[p].connection # 0 => new[process[p].connection].link # "open"
  BY <1>3, DroppedBridges DEF ClosingBridges
<1>6. /\ bridge' \in [Bridges -> BridgeRecords]
      /\ \A b \in Bridges : Softer(bridge[b], bridge'[b])
  <2>1. \A b \in Bridges : bridge'[b] \in BridgeRecords /\ Softer(bridge[b], bridge'[b])
    <3>1. TAKE b \in Bridges
    <3>2. CASE bridge[b].owner \in open
      BY <1>1, <1>2, <1>5, <3>2
    <3>3. CASE bridge[b].owner \notin open
      BY <1>1, <1>4, <3>3 DEF Softer
    <3> QED BY <3>2, <3>3
  <2> QED BY <1>1, <2>1
<1>7. ASSUME NEW p \in Processes, process'[p].status # process[p].status
      PROVE  /\ process[p].status = "open" /\ process'[p].status = "closing"
             /\ process[p].child # 0 => bridge'[process[p].child].cleanup # "none"
             /\ process[p].connection # 0 => bridge'[process[p].connection].link # "open"
  <2>1. p \in open /\ process[p].status = "open" /\ process'[p].status = "closing"
    BY <1>1, <1>4, <1>7 DEF ProcessRecords
  <2>2. ASSUME NEW b \in Bridges, b = process[p].child \/ b = process[p].connection
        PROVE  bridge'[b] = ClosingBridges(p)[b]
    <3>1. bridge[b].owner = p
      BY <1>3, <2>2, Ids DEF OwnInv, Owns
    <3> QED BY <1>1, <2>1, <3>1
  <2>3. process[p].child \in Bridges \cup {0} /\ process[p].connection \in Bridges \cup {0}
    BY <1>4 DEF ProcessRecords
  <2> QED BY <1>5, <2>1, <2>2, <2>3
<1>8. process' \in [Processes -> ProcessRecords]
  BY <1>1, <1>4 DEF ProcessRecords
<1>9. \A p \in Processes :
        /\ process'[p].access = process[p].access
        /\ process'[p].sessions = process[p].sessions
        /\ process'[p].child = process[p].child
        /\ process'[p].connection = process[p].connection
        /\ process'[p].loaded = process[p].loaded
  BY <1>1, <1>4 DEF ProcessRecords
<1>10. Calm
  BY <1>6, <1>7, <1>8, <1>9 DEF Calm
<1>11. Shut(ends)
  BY <1>1, <1>4, Ids DEF Shut, ProcessRecords
<1> QED BY <1>1, <1>4, <1>10, <1>11 DEF RunKept, RunRecords, ends

\* The calm actions of a run,
CalmRun ==
  \/ StartRun \/ AwaitClosures \/ Retired \/ LaunchFails \/ StartFailed \/ Initialized \/ Prompt \/ Answered
  \/ RequestFails \/ RequestTimesOut \/ SessionMissing \/ Recovered
  \/ (step' \in {"idle", "launching", "retiring"} /\ (Acquire \/ Launched \/ Replaced))
  
\* and those of everybody else.
CalmEnv ==
  \/ Stop \/ CloseLanes \/ HostCloses \/ HostEndsRuns \/ HostClosed
  \/ \E m \in Changes : \/ ChangeAgent(m) \/ ChangeFails(m) \/ ChangeSaved(m) \/ Interrupt(m)
                         \/ CloseMatching(m) \/ ChangeDone(m)
  \/ \E b \in Bridges : ForceKill(b) \/ EndOfStream(b) \/ FrameTooLong(b)

\* abort of the run's signal is calm.
LEMMA AbortCalm ==
  ASSUME IInv, Abort, step' = step
  PROVE  Calm /\ RunKept
<1>1. Typed /\ run \in RunRecords /\ (step \in Setup => run.process \in Processes)
  BY DEF IInv, Typed, RunInv, Using, RunRecords
<1>2. RunKept
  BY <1>1 DEF Abort, RunKept, RunRecords
<1> QED BY <1>1, <1>2, CalmUnchanged, CloseAcpCalm DEF Abort

\* The others' calm actions are calm, and leave the run where it is.
LEMMA EnvCalm ==
  ASSUME IInv, CalmEnv
  PROVE  Calm /\ RunKept
<1>1. Typed /\ client \in Processes \cup {0} /\ bridge \in [Bridges -> BridgeRecords]
  BY DEF IInv, Typed
<1>2. CASE Stop \/ HostCloses
  BY <1>1, <1>2, AbortCalm, CalmUnchanged DEF Stop, HostCloses, RunKept
<1>3. CASE CloseLanes
  BY <1>1, <1>3, CloseAcpCalm DEF CloseLanes, RunKept
<1>4. CASE HostEndsRuns
  BY <1>4, HostEndsCalm
<1>5. CASE HostClosed
  BY <1>1, <1>5, CalmUnchanged DEF HostClosed, RunKept
<1>6. ASSUME NEW m \in Changes, ChangeAgent(m) \/ ChangeFails(m) \/ ChangeSaved(m) \/ ChangeDone(m)
      PROVE  Calm /\ RunKept
  BY <1>1, <1>6, CalmUnchanged
     DEF ChangeAgent, ChangeFails, ChangeSaved, ChangeDone, RunKept
<1>7. ASSUME NEW m \in Changes, Interrupt(m)
      PROVE  Calm /\ RunKept
  BY <1>1, <1>7, CalmUnchanged, AbortCalm DEF Interrupt, RunKept
<1>8. ASSUME NEW m \in Changes, CloseMatching(m)
      PROVE  Calm /\ RunKept
  BY <1>1, <1>8, CalmUnchanged, CloseAcpCalm DEF CloseMatching, Mismatched, RunKept
<1>9. ASSUME NEW b \in Bridges, ForceKill(b)
      PROVE  Calm /\ RunKept
  <2>1. /\ bridge' \in [Bridges -> BridgeRecords] /\ \A c \in Bridges : Softer(bridge[c], bridge'[c])
    BY <1>1, <1>9 DEF ForceKill, Softer, BridgeRecords
  <2>2. UNCHANGED <<process, step, run>>
    BY <1>9 DEF ForceKill, unchangedButBridges
  <2> QED BY <1>1, <2>1, <2>2, CalmBridges DEF RunKept
<1>10. ASSUME NEW b \in Bridges, EndOfStream(b)
      PROVE  Calm /\ RunKept
  <2>1. /\ bridge' \in [Bridges -> BridgeRecords] /\ \A c \in Bridges : Softer(bridge[c], bridge'[c])
    BY <1>1, <1>10, DisconnectedBridges DEF EndOfStream
  <2>2. UNCHANGED <<process, step, run>>
    BY <1>10 DEF EndOfStream, unchangedButBridges
  <2> QED BY <1>1, <2>1, <2>2, CalmBridges DEF RunKept
<1>11. ASSUME NEW b \in Bridges, FrameTooLong(b)
      PROVE  Calm /\ RunKept
  <2>1. LET mid == Disconnected(bridge, b)
        IN  /\ mid \in [Bridges -> BridgeRecords]
            /\ \A c \in Bridges : Softer(bridge[c], mid[c])
    BY <1>1, DisconnectedBridges
  <2>2. LET mid == Disconnected(bridge, b)
        IN  /\ bridge' \in [Bridges -> BridgeRecords]
            /\ \A c \in Bridges : Softer(mid[c], bridge'[c]) /\ bridge'[c].link = mid[c].link
    BY <1>11, <2>1, TerminatedBridges DEF FrameTooLong
  <2>3. \A c \in Bridges : Softer(bridge[c], bridge'[c])
    BY <2>1, <2>2, SofterTwice
  <2>4. UNCHANGED <<process, step, run>>
    BY <1>11 DEF FrameTooLong, unchangedButBridges
  <2> QED BY <1>1, <2>2, <2>3, <2>4, CalmBridges DEF RunKept
<1> QED BY <1>2, <1>3, <1>4, <1>5, <1>6, <1>7, <1>8, <1>9, <1>10, <1>11 DEF CalmEnv

\* The types that most steps need.
LEMMA Facts ==
  ASSUME IInv
  PROVE  /\ Typed /\ step \in Steps /\ run \in RunRecords
         /\ run.process \in Processes \cup {0}
         /\ run.bridge \in Bridges \cup {0}
         /\ process \in [Processes -> ProcessRecords]
         /\ bridge \in [Bridges -> BridgeRecords]
         /\ client \in Processes \cup {0}
         /\ step \in Using => run.process \in Processes
         /\ step \in Using \ {"replacing"} => run.bridge \in Bridges
BY DEF IInv, Typed, RunInv, RunRecords

\* A timer, or a start that fails, is calm and ends the connection.
LEMMA DroppedCalm ==
  ASSUME IInv, step \in Using, UNCHANGED process,
         \/ bridge' = Dropped(bridge, run.process)
         \/ step # "replacing" /\ bridge' = Terminated(Dropped(bridge, run.process), run.bridge, "kill")
  PROVE  Calm /\ ConnectionEnded
<1>1. /\ Typed /\ run.process \in Processes
  BY Facts
<1> DEFINE mid == Dropped(bridge, run.process)
           c == process[run.process].connection
<1>2. /\ mid \in [Bridges -> BridgeRecords] /\ \A b \in Bridges : Softer(bridge[b], mid[b])
      /\ c # 0 => mid[c].link # "open"
  BY <1>1, DroppedBridges DEF Dropped
<1> HIDE DEF mid
<1>3. CASE bridge' = mid
  BY <1>1, <1>2, <1>3, CalmBridges DEF ConnectionEnded
<1>4. CASE step # "replacing" /\ bridge' = Terminated(mid, run.bridge, "kill")
  <2>1. run.bridge \in Bridges
    BY <1>4, Facts
  <2>2. /\ bridge' \in [Bridges -> BridgeRecords]
        /\ \A b \in Bridges : Softer(mid[b], bridge'[b]) /\ bridge'[b].link = mid[b].link
    BY <1>2, <1>4, <2>1, TerminatedBridges
  <2>3. \A b \in Bridges : Softer(bridge[b], bridge'[b])
    BY <1>2, <2>2, SofterTwice
  <2>4. c \in Bridges \cup {0}
    BY <1>1 DEF Typed, ProcessRecords
  <2>5. Calm
    BY <1>1, <2>2, <2>3, CalmBridges
  <2> QED BY <1>2, <2>2, <2>4, <2>5 DEF ConnectionEnded
<1> QED BY <1>3, <1>4 DEF mid

\* The run's calm actions are calm.
LEMMA RunCalm ==
  ASSUME IInv, CalmRun
  PROVE  Calm /\ RunMoves
<1>1. /\ Typed /\ step \in Steps /\ client \in Processes \cup {0}
      /\ step \in Using => run.process \in Processes
      /\ step \in Using \ {"replacing"} => run.bridge \in Bridges
  BY Facts
<1>2. CASE StartRun
  BY <1>1, <1>2, CalmUnchanged DEF StartRun, RunMoves, Using, Setup
<1>3. CASE AwaitClosures
  BY <1>1, <1>3, CalmUnchanged DEF AwaitClosures, EndRun, RunMoves, Using, Setup
<1>4. CASE Retired \/ LaunchFails \/ StartFailed
  BY <1>1, <1>4, CalmUnchanged
     DEF Retired, LaunchFails, StartFailed, EndRun, RunMoves, RunKept, Using, Setup
<1>5. CASE Initialized \/ Prompt
  BY <1>1, <1>5, CalmUnchanged
     DEF Initialized, Prompt, Continue, Answers, EndRun, RunMoves, Conversing, Using,
         Setup
<1>6. CASE Answered \/ Recovered
  BY <1>1, <1>6, CalmUnchanged DEF Answered, Recovered, EndRun, RunMoves, Using, Setup
<1>7. CASE RequestTimesOut \/ (RequestFails /\ step = "initializing")
  <2>1. step \in Request /\ UNCHANGED process
    BY <1>7 DEF RequestTimesOut, RequestFails
  <2>2. \/ bridge' = Dropped(bridge, run.process) /\ step' = "idle"
        \/ /\ step' = "failing" /\ run' = run /\ step = "initializing"
           /\ bridge' = Terminated(Dropped(bridge, run.process), run.bridge, "kill")
    BY <1>7 DEF RequestTimesOut, RequestFails, StartFails, EndRun
  <2>3. step \in Using \ {"replacing"}
    BY <2>1 DEF Request, Using, Setup
  <2>4. Calm /\ ConnectionEnded
    BY <2>1, <2>2, <2>3, DroppedCalm
  <2> QED BY <2>2, <2>4 DEF RunMoves, Using, Setup
<1>8. CASE RequestFails /\ step # "initializing"
  BY <1>1, <1>8, CalmUnchanged DEF RequestFails, EndRun, RunMoves, Using, Setup
<1>9. CASE SessionMissing
  BY <1>1, <1>9, CalmUnchanged, CloseCalm DEF SessionMissing, EndRun, RunMoves, Using,
        Setup
<1>10. CASE Acquire /\ step' \in {"idle", "launching", "retiring"}
  <2>1. step = "waiting" /\ ~(client # 0 /\ Use(client, process))
    BY <1>10 DEF Acquire, Use, Spawn
  <2> QED BY <1>1, <1>10, <2>1, CalmUnchanged, CloseAcpCalm
             DEF Acquire, EndRun, RunMoves, Using, Setup
<1>11. CASE Launched /\ step' \in {"idle", "launching", "retiring"}
  <2>1. ASSUME NEW p \in Processes, NEW ps, Use(p, ps)
        PROVE  FALSE
    <3>1. step' \in {"session", "replacing", "spawning"}
      BY <2>1 DEF Use, Spawn
    <3> QED BY <1>11, <3>1
  <2> QED BY <1>1, <1>11, <2>1, CalmUnchanged DEF Launched, EndRun, RunMoves, Using, Setup
<1>12. CASE Replaced /\ step' \in {"idle", "launching", "retiring"}
  BY <1>1, <1>12, CalmUnchanged DEF Replaced, Spawn, EndRun, RunMoves, Using, Setup
<1> QED BY <1>2, <1>3, <1>4, <1>5, <1>6, <1>7, <1>8, <1>9, <1>10, <1>11, <1>12 DEF CalmRun

-----------------------------------------------------------------------------
(* Calm steps preserve what processes and bridges know of each other.      *)

\* A calm step keeps what processes and bridges know of each other,
LEMMA OwnCalm ==
  ASSUME IInv, Calm
  PROVE  OwnInv'
<1>1. /\ process \in [Processes -> ProcessRecords] /\ bridge \in [Bridges -> BridgeRecords]
      /\ process' \in [Processes -> ProcessRecords]
      /\ bridge' \in [Bridges -> BridgeRecords]
  BY Facts DEF Calm
<1>2. OwnInv
  BY DEF IInv
<1>3. ASSUME NEW p \in Processes
      PROVE  /\ (Owns(p, process[p].child) /\ Owns(p, process[p].connection))'
             /\ process'[p].status = "none" =>
                   process'[p].connection = 0 /\ process'[p].sessions = 0 /\ ~process'[p].loaded
             /\ process'[p].status \in {"none", "closed"} => process'[p].child = 0
             /\ process'[p].child # 0 =>
                   /\ bridge'[process'[p].child].cleanup # "done"
                   /\ process'[p].status = "closing" => bridge'[process'[p].child].cleanup # "none"
  <2>1. process[p].child \in Bridges \cup {0} /\ process[p].connection \in Bridges \cup {0}
    BY <1>1 DEF ProcessRecords
  <2> QED BY <1>1, <1>2, <2>1 DEF OwnInv, Owns, Calm, Softer
<1>4. ASSUME NEW b \in Bridges
      PROVE  /\ bridge'[b].os = "none" => bridge'[b].cleanup # "done"
             /\ bridge'[b].os # "none" => bridge'[b].owner \in Processes
             /\ bridge'[b].os = "up" => process'[bridge'[b].owner].child = b
  BY <1>1, <1>2 DEF OwnInv, Calm, Softer
<1> QED BY <1>3, <1>4 DEF OwnInv, Owns

\* the sessions counted,
LEMMA RotatingCalm ==
  ASSUME IInv, Calm
  PROVE  Rotating'
BY DEF IInv, Rotating, Calm

\* the number of processes not closed,
LEMMA OneCalm ==
  ASSUME IInv, Calm, overtaken => overtaken'
  PROVE  OneInv'
BY DEF IInv, OneInv, Calm

\* what is loaded,
LEMMA LoadedCalm ==
  ASSUME IInv, Calm, RunMoves
  PROVE  LoadedInv'
<1>1. /\ process \in [Processes -> ProcessRecords] /\ bridge \in [Bridges -> BridgeRecords]
  BY Facts
<1>2. \A p \in Processes : process[p].connection \in Bridges \cup {0}
  BY <1>1 DEF ProcessRecords
<1>3. step' = "spawning" => step = "spawning" /\ run'.process = run.process /\ run.process \in Processes
  BY Facts DEF RunMoves, RunKept, Using, Setup, Conversing
<1> QED BY <1>1, <1>2, <1>3 DEF IInv, LoadedInv, Calm, Softer

\* and what the run knows of its link.
LEMMA LinkCalm ==
  ASSUME IInv, Calm, RunMoves
  PROVE  LinkInv'
<1>1. /\ process \in [Processes -> ProcessRecords] /\ bridge \in [Bridges -> BridgeRecords]
      /\ bridge' \in [Bridges -> BridgeRecords]
      /\ step \in Using => run.process \in Processes
      /\ step \in Using \ {"replacing"} => run.bridge \in Bridges
  BY Facts DEF Calm
<1>2. \A p \in Processes : process[p].connection \in Bridges \cup {0}
  BY <1>1 DEF ProcessRecords
<1>3. LinkInv /\ OwnInv /\ RunInv
  BY DEF IInv
<1>4. step \in Conversing \cup {"initializing"} => run.process \in Processes /\ run.bridge \in Bridges
  BY <1>1 DEF Using, Setup, Conversing
<1>5. ASSUME NEW p \in Processes
      PROVE  LET c == process'[p].connection IN
          c # 0 /\ bridge'[c].link = "open" =>
             bridge'[c].os = "up" \/ (step' = "initializing" /\ run'.process = p /\ run'.bridge = c)
  <2> DEFINE c == process[p].connection
  <2>1. SUFFICES ASSUME c # 0, bridge'[c].link = "open", bridge'[c].os # "up"
                 PROVE  step' = "initializing" /\ run'.process = p /\ run'.bridge = c
    BY DEF Calm
  <2>2. c \in Bridges /\ bridge[c].link = "open" /\ bridge[c].os # "up"
    BY <1>1, <1>2, <2>1 DEF Calm, Softer
  <2>3. step = "initializing" /\ run.process = p /\ run.bridge = c
    BY <1>3, <2>2, <2>1 DEF LinkInv
  <2> QED BY <2>1, <2>2, <2>3 DEF RunMoves, RunKept, ConnectionEnded, Reachable
<1>6. ASSUME step' \in Conversing \cup {"initializing"}
      PROVE  /\ bridge'[run'.bridge].os = "up" => process'[run'.process].connection = run'.bridge
             /\ bridge'[run'.bridge].link # "none"
             /\ step' \in Conversing /\ bridge'[run'.bridge].link = "open" =>
                  bridge'[run'.bridge].os = "up" /\ process'[run'.process].status = "open"
  <2>1. CASE RunKept
    <3>1. step \in Conversing \cup {"initializing"} /\ step' = step /\ run'.process = run.process
          /\ run'.bridge = run.bridge /\ run.process \in Processes /\ run.bridge \in Bridges
      BY <1>4, <1>6, <2>1 DEF RunKept
    <3>2. /\ bridge[run.bridge].os = "up" => process[run.process].connection = run.bridge
          /\ bridge[run.bridge].link # "none"
          /\ step \in Conversing /\ bridge[run.bridge].link = "open" =>
               bridge[run.bridge].os = "up" /\ process[run.process].status = "open"
      BY <1>3, <3>1 DEF LinkInv
    <3>3. /\ bridge'[run.bridge].os = bridge[run.bridge].os
          /\ bridge'[run.bridge].link = "none" => bridge[run.bridge].link = "none"
          /\ bridge'[run.bridge].link = "open" => bridge[run.bridge].link = "open"
          /\ process'[run.process].connection = process[run.process].connection
          /\ process'[run.process].status # process[run.process].status
               /\ process[run.process].connection # 0 =>
                    bridge'[process[run.process].connection].link # "open"
      BY <3>1 DEF Calm, Softer
    <3> QED BY <3>1, <3>2, <3>3, Ids
  <2>2. CASE /\ step \in {"initializing", "session", "configuring"} /\ step' \in Conversing
             /\ run' = run /\ UNCHANGED <<process, bridge>> /\ Reachable(run.bridge)
    <3>1. run.process \in Processes /\ run.bridge \in Bridges
          /\ step \in Conversing \cup {"initializing"} /\ step \in Using \ {"replacing"}
      BY <1>4, <2>2 DEF Conversing, Using, Setup
    <3>2. /\ bridge[run.bridge].os = "up" /\ bridge[run.bridge].link = "open"
          /\ bridge[run.bridge].cleanup = "none" /\ bridge[run.bridge].owner = run.process
          /\ process[run.process].connection = run.bridge
          /\ process[run.process].child = run.bridge
      BY <1>3, <2>2, <3>1 DEF Reachable, LinkInv, OwnInv, RunInv
    <3>3. process[run.process].status = "open"
      <4>1. /\ process[run.process].status \notin {"none", "closed", "closing"}
        BY <1>3, <3>1, <3>2, Ids DEF OwnInv
      <4> QED BY <1>1, <3>1, <4>1 DEF ProcessRecords
    <3> QED BY <2>2, <3>2, <3>3
  <2> QED BY <1>6, <2>1, <2>2 DEF RunMoves, Conversing, Using, Setup
<1>7. ASSUME step' = "spawning"
      PROVE  process'[run'.process].connection # run'.bridge
  <2>1. step = "spawning" /\ run'.process = run.process /\ run.process \in Processes
        /\ run'.bridge = run.bridge
    BY <1>1, <1>7 DEF RunMoves, RunKept, Using, Setup, Conversing
  <2> QED BY <1>3, <2>1 DEF Calm, LinkInv
<1> QED BY <1>5, <1>6, <1>7 DEF LinkInv

-----------------------------------------------------------------------------
(* A run begins to use a process.                                          *)

\* The run begins to use p: over its open connection, after ending its child, or with a new
\* child.  p was open or is new, and every other process is left alone.
Serves(p) ==
  /\ process' \in [Processes -> ProcessRecords]
  /\ \A q \in Processes \ {p} : process'[q] = process[q]
  /\ process[p].status \in {"none", "open"} /\ process'[p].status = "open"
  /\ process'[p].connection = process[p].connection
  /\ process'[p].loaded = process[p].loaded
  /\ process'[p].sessions <= MaxEphemeral
  /\ run' \in RunRecords /\ run'.process = p /\ run'.aborted = run.aborted
  /\ run'.plan = run.plan
  /\ \/ /\ step' = "session" /\ UNCHANGED bridge /\ process'[p].child = process[p].child
        /\ process[p].connection # 0 /\ run'.bridge = process[p].connection
        /\ bridge[process[p].connection].link = "open"
     \/ /\ step' = "replacing" /\ process'[p].child = process[p].child
        /\ bridge' = Terminated(bridge, process[p].child, "kill")
     \/ \E b \in Bridges :
           /\ step' = "spawning" /\ process[p].child = 0 /\ process'[p].child = b
           /\ bridge[b].os = "none" /\ run'.bridge = b
           /\ bridge' = [bridge EXCEPT ![b].os = "up", ![b].owner = p]

\* #start of a process without a child serves it.
LEMMA SpawnServes ==
  ASSUME IInv, NEW p \in Processes, NEW ps \in [Processes -> ProcessRecords], Spawn(p, ps),
         \A q \in Processes \ {p} : ps[q] = process[q],
         process[p].status \in {"none", "open"}, ps[p].status = "open", process[p].child = 0,
         ps[p].connection = process[p].connection, ps[p].loaded = process[p].loaded,
         ps[p].sessions <= MaxEphemeral
  PROVE  Serves(p) /\ process'[p].access = ps[p].access
<1>1. PICK b \in Bridges :
        /\ bridge[b].os = "none"
        /\ bridge' = [bridge EXCEPT ![b].os = "up", ![b].owner = p]
        /\ process' = [ps EXCEPT ![p].child = b]
        /\ run' = [run EXCEPT !.process = p, !.bridge = b, !.waits = {}]
        /\ step' = "spawning"
  BY DEF Spawn
<1>2. /\ process' \in [Processes -> ProcessRecords]
      /\ \A q \in Processes \ {p} : process'[q] = process[q]
      /\ process'[p].status = "open" /\ process'[p].connection = process[p].connection
      /\ process'[p].loaded = process[p].loaded /\ process'[p].sessions <= MaxEphemeral
      /\ process'[p].child = b /\ process'[p].access = ps[p].access
  BY <1>1 DEF ProcessRecords
<1>3. /\ run' \in RunRecords /\ run'.process = p /\ run'.bridge = b
      /\ run'.aborted = run.aborted /\ run'.plan = run.plan
  BY <1>1, Facts DEF RunRecords
<1> QED BY <1>1, <1>2, <1>3 DEF Serves

\* #ensureStarted serves the process, whichever way it takes.
LEMMA UseServes ==
  ASSUME IInv, NEW p \in Processes, NEW ps \in [Processes -> ProcessRecords], Use(p, ps),
         \A q \in Processes \ {p} : ps[q] = process[q],
         process[p].status \in {"none", "open"}, ps[p].status = "open",
         ps[p].child = process[p].child, ps[p].sessions = process[p].sessions,
         ps[p].connection = process[p].connection, ps[p].loaded = process[p].loaded,
         lane => process[p].sessions + 1 <= MaxEphemeral
  PROVE  Serves(p) /\ process'[p].access = ps[p].access
<1> DEFINE counted == [ps EXCEPT ![p].sessions = IF lane THEN @ + 1 ELSE @]
           c == ps[p].connection
<1>1. /\ counted \in [Processes -> ProcessRecords]
      /\ \A q \in Processes \ {p} : counted[q] = process[q]
      /\ counted[p].status = "open" /\ counted[p].connection = process[p].connection
      /\ counted[p].loaded = process[p].loaded /\ counted[p].child = process[p].child
      /\ counted[p].access = ps[p].access
      /\ counted[p].sessions = IF lane THEN process[p].sessions + 1 ELSE process[p].sessions
  BY Ids DEF ProcessRecords
<1>2. counted[p].sessions <= MaxEphemeral
  BY <1>1, Facts DEF IInv, Rotating
<1>3. \/ /\ c # 0 /\ bridge[c].link = "open"
         /\ step' = "session"
         /\ run' = [run EXCEPT !.process = p, !.bridge = c, !.waits = {}]
         /\ process' = counted /\ UNCHANGED bridge
      \/ /\ step' = "replacing"
         /\ run' = [run EXCEPT !.process = p, !.waits = {}]
         /\ bridge' = Terminated(bridge, ps[p].child, "kill")
         /\ process' = counted
      \/ ps[p].child = 0 /\ Spawn(p, counted)
  BY DEF Use
<1> HIDE DEF counted
<1>4. run \in RunRecords /\ c \in Bridges \cup {0}
  BY Facts DEF ProcessRecords
<1>5. CASE /\ c # 0 /\ bridge[c].link = "open"
           /\ step' = "session"
           /\ run' = [run EXCEPT !.process = p, !.bridge = c, !.waits = {}]
           /\ process' = counted /\ UNCHANGED bridge
  <2>1. /\ run' \in RunRecords /\ run'.process = p /\ run'.bridge = c
        /\ run'.aborted = run.aborted /\ run'.plan = run.plan
    BY <1>4, <1>5 DEF RunRecords
  <2> QED BY <1>1, <1>2, <1>5, <2>1 DEF Serves
<1>6. CASE /\ step' = "replacing"
           /\ run' = [run EXCEPT !.process = p, !.waits = {}]
           /\ bridge' = Terminated(bridge, ps[p].child, "kill")
           /\ process' = counted
  <2>1. /\ run' \in RunRecords /\ run'.process = p
        /\ run'.aborted = run.aborted /\ run'.plan = run.plan
    BY <1>4, <1>6 DEF RunRecords
  <2> QED BY <1>1, <1>2, <1>6, <2>1 DEF Serves
<1>7. CASE ps[p].child = 0 /\ Spawn(p, counted)
  BY <1>1, <1>2, <1>7, SpawnServes
<1> QED BY <1>3, <1>5, <1>6, <1>7

\* acquireAcpProcess, when it returns the scope's process, serves it: its access is the Agent's.
LEMMA AcquireServes ==
  ASSUME IInv, Acquire, step' \notin {"idle", "launching", "retiring"}
  PROVE  /\ client \in Processes /\ Serves(client) /\ UNCHANGED <<client, closures>>
         /\ step = "waiting"
         /\ process'[client].access = process[client].access
         /\ process[client].access = agent.access
         /\ process[client].status = "open"
         /\ agent.present /\ ScopeCurrent
<1>1. /\ client # 0 /\ ~Outdated(client) /\ Use(client, process)
      /\ UNCHANGED <<client, closures>>
      /\ step = "waiting" /\ ScopeCurrent /\ agent.present
  BY DEF Acquire, EndRun
<1>2. /\ client \in Processes /\ process \in [Processes -> ProcessRecords]
      /\ process[client].status = "open"
  BY <1>1, Facts DEF IInv, HeldInv
<1>3. process[client].access = agent.access /\ (lane => process[client].sessions + 1 <= MaxEphemeral)
  BY <1>1, <1>2, Ids DEF Outdated, ProcessRecords
<1>4. Serves(client) /\ process'[client].access = process[client].access
  BY <1>1, <1>2, <1>3, UseServes
<1> QED BY <1>1, <1>2, <1>3, <1>4

\* A launch whose plan holds serves a process that is new and has the plan's access.
LEMMA LaunchedServes ==
  ASSUME IInv, Launched, step' \notin {"idle", "launching", "retiring"}
  PROVE  /\ step = "launching" /\ UNCHANGED closures /\ PlanHolds
         /\ \E p \in Processes : /\ process[p].status = "none" /\ client' = p /\ Serves(p)
                                 /\ process'[p].access = run.access
<1>1. /\ step = "launching" /\ UNCHANGED closures /\ PlanHolds
  BY DEF Launched, EndRun
<1>2. PICK p \in Processes :
               /\ process[p].status = "none"
               /\ client' = p
               /\ Use(p, [process EXCEPT ![p].status = "open", ![p].access = run.access])
  BY <1>1 DEF Launched
<1> DEFINE ps == [process EXCEPT ![p].status = "open", ![p].access = run.access]
<1>3. /\ ps \in [Processes -> ProcessRecords]
      /\ \A q \in Processes \ {p} : ps[q] = process[q]
      /\ ps[p].status = "open" /\ ps[p].child = process[p].child
      /\ ps[p].sessions = process[p].sessions /\ ps[p].connection = process[p].connection
      /\ ps[p].loaded = process[p].loaded /\ ps[p].access = run.access
  <2>1. run.access \in BOOLEAN /\ process \in [Processes -> ProcessRecords]
    BY Facts DEF RunRecords
  <2> QED BY <1>2, <2>1 DEF ProcessRecords
<1>4. lane => process[p].sessions + 1 <= MaxEphemeral
  BY <1>2, Ids DEF IInv, OwnInv
<1> HIDE DEF ps
<1>5. Use(p, ps)
  BY <1>2 DEF ps
<1>6. Serves(p) /\ process'[p].access = ps[p].access
  BY <1>2, <1>3, <1>4, <1>5, UseServes
<1> QED BY <1>1, <1>2, <1>3, <1>6

\* Once its old child is gone the process is served by a new one.
LEMMA ReplacedServes ==
  ASSUME IInv, Replaced, step' \notin {"idle", "launching", "retiring"}
  PROVE  /\ step = "replacing" /\ UNCHANGED <<client, closures>>
         /\ run.process \in Processes /\ Serves(run.process)
         /\ process[run.process].status = "open"
         /\ process'[run.process].access = process[run.process].access
<1>1. /\ step = "replacing" /\ UNCHANGED <<client, closures>>
      /\ process[run.process].child = 0
      /\ process[run.process].status = "open" /\ Spawn(run.process, process)
  BY DEF Replaced, EndRun
<1>2. run.process \in Processes /\ process \in [Processes -> ProcessRecords]
  BY <1>1, Facts DEF Using, Setup
<1>3. Serves(run.process) /\ process'[run.process].access = process[run.process].access
  BY <1>1, <1>2, SpawnServes DEF IInv, Rotating
<1> QED BY <1>1, <1>2, <1>3

\* The bridges after each way to serve: at most one is new, and the others go on or are
\* told to stop.
LEMMA ServesShape ==
  ASSUME IInv, NEW p \in Processes, Serves(p)
  PROVE  /\ bridge' \in [Bridges -> BridgeRecords]
         /\ \/ /\ step' # "spawning" /\ process'[p].child = process[p].child
               /\ \A b \in Bridges : Softer(bridge[b], bridge'[b])
            \/ \E b \in Bridges :
                  /\ step' = "spawning" /\ process[p].child = 0 /\ process'[p].child = b
                  /\ bridge[b].os = "none" /\ run'.bridge = b
                  /\ \A c \in Bridges \ {b} : bridge'[c] = bridge[c]
                  /\ bridge'[b].os = "up" /\ bridge'[b].owner = p
                  /\ bridge'[b].link = bridge[b].link
                  /\ bridge'[b].cleanup = bridge[b].cleanup
<1>1. /\ bridge \in [Bridges -> BridgeRecords] /\ process[p].child \in Bridges \cup {0}
  BY Facts DEF ProcessRecords
<1>2. CASE step' = "session"
  BY <1>1, <1>2 DEF Serves, Softer
<1>3. CASE step' = "replacing"
  <2>1. bridge' = Terminated(bridge, process[p].child, "kill") /\ process'[p].child = process[p].child
    BY <1>3 DEF Serves
  <2> QED BY <1>1, <1>3, <2>1, TerminatedBridges
<1>4. CASE step' = "spawning"
  <2>1. PICK b \in Bridges :
           /\ process[p].child = 0 /\ process'[p].child = b
           /\ bridge[b].os = "none" /\ run'.bridge = b
           /\ bridge' = [bridge EXCEPT ![b].os = "up", ![b].owner = p]
    BY <1>4 DEF Serves
  <2>2. /\ bridge' \in [Bridges -> BridgeRecords]
        /\ \A c \in Bridges \ {b} : bridge'[c] = bridge[c]
        /\ bridge'[b].os = "up" /\ bridge'[b].owner = p
        /\ bridge'[b].link = bridge[b].link /\ bridge'[b].cleanup = bridge[b].cleanup
    <3>1. bridge[b] \in BridgeRecords
      BY <1>1
    <3>2. [bridge[b] EXCEPT !.os = "up", !.owner = p] \in BridgeRecords
      BY <3>1 DEF BridgeRecords
    <3>3. bridge' = [bridge EXCEPT ![b] = [bridge[b] EXCEPT !.os = "up", !.owner = p]]
      BY <1>1, <2>1
    <3>4. bridge' \in [Bridges -> BridgeRecords] /\ \A c \in Bridges \ {b} : bridge'[c] = bridge[c]
      BY <1>1, <3>2, <3>3
    <3>5. bridge'[b] = [bridge[b] EXCEPT !.os = "up", !.owner = p]
      BY <1>1, <3>3
    <3> QED BY <3>1, <3>4, <3>5 DEF BridgeRecords
  <2> QED BY <1>4, <2>1, <2>2
<1> QED BY <1>2, <1>3, <1>4 DEF Serves

\* Serving a process keeps what processes and bridges know of each other,
LEMMA OwnServes ==
  ASSUME IInv, NEW p \in Processes, Serves(p)
  PROVE  OwnInv'
<1>1. /\ process \in [Processes -> ProcessRecords] /\ bridge \in [Bridges -> BridgeRecords]
      /\ process' \in [Processes -> ProcessRecords]
      /\ bridge' \in [Bridges -> BridgeRecords]
      /\ OwnInv
  BY Facts, ServesShape DEF Serves, IInv
<1>2. \A q \in Processes : /\ process[q].child \in Bridges \cup {0}
                           /\ process[q].connection \in Bridges \cup {0}
  BY <1>1 DEF ProcessRecords
<1>3. /\ \A q \in Processes \ {p} : process'[q] = process[q]
      /\ process'[p].status = "open" /\ process'[p].connection = process[p].connection
  BY DEF Serves
<1>4. CASE /\ process'[p].child = process[p].child
           /\ \A b \in Bridges : Softer(bridge[b], bridge'[b])
  <2>1. ASSUME NEW q \in Processes
        PROVE  /\ (Owns(q, process[q].child) /\ Owns(q, process[q].connection))'
               /\ process'[q].status = "none" =>
                     process'[q].connection = 0 /\ process'[q].sessions = 0 /\ ~process'[q].loaded
               /\ process'[q].status \in {"none", "closed"} => process'[q].child = 0
               /\ process'[q].child # 0 =>
                     /\ bridge'[process'[q].child].cleanup # "done"
                     /\ process'[q].status = "closing" => bridge'[process'[q].child].cleanup # "none"
    <3>1. CASE q = p
      BY <1>1, <1>2, <1>3, <1>4, <3>1 DEF OwnInv, Owns, Softer
    <3>2. CASE q # p
      BY <1>1, <1>2, <1>3, <1>4, <3>2 DEF OwnInv, Owns, Softer
    <3> QED BY <3>1, <3>2
  <2>2. ASSUME NEW b \in Bridges
        PROVE  /\ bridge'[b].os = "none" => bridge'[b].cleanup # "done"
               /\ bridge'[b].os # "none" => bridge'[b].owner \in Processes
               /\ bridge'[b].os = "up" => process'[bridge'[b].owner].child = b
    BY <1>1, <1>3, <1>4 DEF OwnInv, Softer
  <2> QED BY <2>1, <2>2 DEF OwnInv, Owns
<1>5. ASSUME NEW b \in Bridges,
             /\ process[p].child = 0 /\ process'[p].child = b
             /\ bridge[b].os = "none"
             /\ \A c \in Bridges \ {b} : bridge'[c] = bridge[c]
             /\ bridge'[b].os = "up" /\ bridge'[b].owner = p
             /\ bridge'[b].link = bridge[b].link /\ bridge'[b].cleanup = bridge[b].cleanup
      PROVE  OwnInv'
  <2>1. ASSUME NEW q \in Processes
        PROVE  /\ (Owns(q, process[q].child) /\ Owns(q, process[q].connection))'
               /\ process'[q].status = "none" =>
                     process'[q].connection = 0 /\ process'[q].sessions = 0 /\ ~process'[q].loaded
               /\ process'[q].status \in {"none", "closed"} => process'[q].child = 0
               /\ process'[q].child # 0 =>
                     /\ bridge'[process'[q].child].cleanup # "done"
                     /\ process'[q].status = "closing" => bridge'[process'[q].child].cleanup # "none"
    <3>1. CASE q = p
      BY <1>1, <1>2, <1>3, <1>5, <3>1 DEF OwnInv, Owns
    <3>2. CASE q # p
      BY <1>1, <1>2, <1>3, <1>5, <3>2 DEF OwnInv, Owns
    <3> QED BY <3>1, <3>2
  <2>2. ASSUME NEW c \in Bridges
        PROVE  /\ bridge'[c].os = "none" => bridge'[c].cleanup # "done"
               /\ bridge'[c].os # "none" => bridge'[c].owner \in Processes
               /\ bridge'[c].os = "up" => process'[bridge'[c].owner].child = c
    <3>1. CASE c = b
      BY <1>5, <3>1
    <3>2. CASE c # b
      BY <1>1, <1>3, <1>5, <3>2, Ids DEF OwnInv
    <3> QED BY <3>1, <3>2
  <2> QED BY <2>1, <2>2 DEF OwnInv, Owns
<1> QED BY <1>4, <1>5, ServesShape

\* the links, what is loaded and the sessions counted.
LEMMA LinkServes ==
  ASSUME IInv, NEW p \in Processes, Serves(p), step \in {"waiting", "launching", "replacing"}
  PROVE  LinkInv' /\ LoadedInv' /\ Rotating'
<1>1. /\ process \in [Processes -> ProcessRecords] /\ bridge \in [Bridges -> BridgeRecords]
      /\ bridge' \in [Bridges -> BridgeRecords]
      /\ OwnInv /\ LinkInv /\ LoadedInv /\ Rotating
  BY Facts, ServesShape DEF IInv
<1>2. \A q \in Processes : process[q].connection \in Bridges \cup {0}
  BY <1>1 DEF ProcessRecords
<1>3. \A q \in Processes : /\ process'[q].connection = process[q].connection
                           /\ process'[q].loaded = process[q].loaded
                           /\ process'[q].sessions <= MaxEphemeral
  BY <1>1 DEF Serves, Rotating
<1>4. ASSUME NEW b \in Bridges, bridge[b].os # "none"
      PROVE  /\ bridge'[b].os = bridge[b].os /\ bridge'[b].session = bridge[b].session
             /\ bridge'[b].link = "open" => bridge[b].link = "open"
  BY <1>4, ServesShape DEF Softer
<1>5. \A q \in Processes : LET c == process'[q].connection IN
          /\ c # 0 /\ bridge'[c].link = "open" => bridge'[c].os = "up"
          /\ process'[q].loaded => c # 0 /\ bridge'[c].os = "up" /\ bridge'[c].session
  BY <1>1, <1>2, <1>3, <1>4 DEF OwnInv, Owns, LinkInv, LoadedInv
<1>6. CASE step' = "session"
  <2>1. /\ bridge' = bridge /\ process[p].connection # 0
        /\ run'.bridge = process[p].connection
        /\ bridge[run'.bridge].link = "open" /\ process'[p].status = "open"
        /\ run'.process = p
    BY <1>6 DEF Serves
  <2> QED BY <1>3, <1>5, <1>6, <2>1 DEF LinkInv, LoadedInv, Rotating
<1>7. CASE step' = "replacing"
  BY <1>3, <1>5, <1>7 DEF LinkInv, LoadedInv, Rotating, Conversing
<1>8. CASE step' = "spawning"
  <2>1. process[p].child = 0 /\ run'.process = p
    BY <1>8 DEF Serves
  <2>2. ~process[p].loaded
    BY <1>1, <1>2, <2>1, Ids DEF OwnInv, Owns, LoadedInv
  <2>3. process'[p].connection # run'.bridge
    <3>1. PICK b \in Bridges : bridge[b].os = "none" /\ run'.bridge = b
      BY <1>8 DEF Serves
    <3>2. process[p].connection # b
      BY <1>1, <3>1, Ids DEF OwnInv, Owns
    <3> QED BY <1>3, <3>1, <3>2
  <2> QED BY <1>3, <1>5, <1>8, <2>1, <2>2, <2>3 DEF LinkInv, LoadedInv, Rotating,
        Conversing
<1> QED BY <1>6, <1>7, <1>8 DEF Serves

-----------------------------------------------------------------------------
(* The steps that change one process or one bridge.                        *)

\* Only p changes, and it keeps its access and its sessions.
SameBut(p) ==
  /\ process' \in [Processes -> ProcessRecords]
  /\ \A q \in Processes \ {p} : process'[q] = process[q]
  /\ process'[p].access = process[p].access /\ process'[p].sessions = process[p].sessions

\* #clearConnectionState of p.
Clears(p) == process'[p].connection = 0 /\ ~process'[p].loaded

\* Cleared forgets the connection and what is loaded, and nothing else.
LEMMA ClearedRecord ==
  ASSUME NEW rec \in ProcessRecords
  PROVE  /\ Cleared(rec) \in ProcessRecords
         /\ Cleared(rec).connection = 0 /\ ~Cleared(rec).loaded
         /\ Cleared(rec).status = rec.status /\ Cleared(rec).access = rec.access
         /\ Cleared(rec).sessions = rec.sessions /\ Cleared(rec).child = rec.child
BY DEF Cleared, ProcessRecords

\* What the end of a close changes,
LEMMA CloseDoneShape ==
  ASSUME IInv, NEW p \in Processes, CloseDone(p)
  PROVE  /\ SameBut(p) /\ Clears(p) /\ process'[p].child = 0 /\ process[p].child = 0
         /\ process[p].status = "closing" /\ process'[p].status = "closed"
         /\ UNCHANGED <<bridge, step, run>>
<1>1. /\ process \in [Processes -> ProcessRecords] /\ OwnInv
  BY Facts DEF IInv
<1>2. /\ process' = [process EXCEPT ![p] = [Cleared(process[p]) EXCEPT !.status = "closed"]]
      /\ process[p].status = "closing" /\ UNCHANGED <<bridge, step, run>>
      /\ process[p].child = 0
  BY <1>1 DEF CloseDone, OwnInv
<1>3. /\ Cleared(process[p]) \in ProcessRecords
      /\ Cleared(process[p]).connection = 0 /\ ~Cleared(process[p]).loaded
      /\ Cleared(process[p]).access = process[p].access /\ Cleared(process[p]).child = 0
      /\ Cleared(process[p]).sessions = process[p].sessions
  BY <1>1, <1>2, ClearedRecord
<1> DEFINE new == [Cleared(process[p]) EXCEPT !.status = "closed"]
<1>4. new \in ProcessRecords /\ new.status = "closed" /\ new.connection = 0 /\ ~new.loaded
      /\ new.access = process[p].access /\ new.sessions = process[p].sessions
      /\ new.child = 0
  BY <1>3 DEF ProcessRecords
<1> HIDE DEF new
<1>5. process' = [process EXCEPT ![p] = new]
  BY <1>2 DEF new
<1> QED BY <1>1, <1>2, <1>4, <1>5 DEF SameBut, Clears

\* the exit of a bridge,
LEMMA ExitShape ==
  ASSUME IInv, NEW b \in Bridges, Exit(b)
  PROVE  LET o == bridge[b].owner
         IN  /\ o \in Processes /\ process[o].child = b /\ process'[o].child = b
             /\ SameBut(o) /\ Clears(o) /\ process'[o].status = process[o].status
             /\ bridge' \in [Bridges -> BridgeRecords]
             /\ \A c \in Bridges \ {b} : bridge'[c] = bridge[c]
             /\ bridge[b].os = "up" /\ bridge'[b].os = "gone" /\ bridge'[b].owner = o
             /\ bridge'[b].link # "open" /\ (bridge'[b].link = "none" => bridge[b].link = "none")
             /\ bridge'[b].cleanup # "none" /\ (bridge'[b].cleanup = "done" => bridge[b].cleanup = "done")
             /\ UNCHANGED <<step, run>>
<1> DEFINE o == bridge[b].owner
           gone == [bridge EXCEPT ![b].os = "gone"]
<1>1. /\ process \in [Processes -> ProcessRecords] /\ bridge \in [Bridges -> BridgeRecords]
      /\ OwnInv
  BY Facts DEF IInv
<1>2. /\ bridge[b].os = "up" /\ o \in Processes /\ process[o].child = b
  BY <1>1 DEF Exit, OwnInv
<1>3. /\ bridge' = Terminated(Disconnected(gone, b), b, "kill")
      /\ process' = [process EXCEPT ![o] = Cleared(process[o])] /\ UNCHANGED <<step, run>>
  BY <1>1, <1>2 DEF Exit, unchangedButBridges
<1>4. /\ gone \in [Bridges -> BridgeRecords] /\ \A c \in Bridges \ {b} : gone[c] = bridge[c]
      /\ gone[b].os = "gone" /\ gone[b].owner = o /\ gone[b].link = bridge[b].link
      /\ gone[b].cleanup = bridge[b].cleanup
  BY <1>1 DEF BridgeRecords
<1> DEFINE mid == Disconnected(gone, b)
<1> HIDE DEF gone
<1>5. /\ mid \in [Bridges -> BridgeRecords] /\ mid[b].link # "open"
      /\ \A c \in Bridges : Softer(gone[c], mid[c]) /\ (c # b => mid[c] = gone[c])
  BY <1>4, DisconnectedBridges
<1> HIDE DEF mid
<1>6. /\ bridge' \in [Bridges -> BridgeRecords] /\ bridge'[b].cleanup # "none"
      /\ \A c \in Bridges : Softer(mid[c], bridge'[c]) /\ (c # b => bridge'[c] = mid[c])
      /\ bridge'[b].link = mid[b].link
  BY <1>3, <1>5, TerminatedBridges, Ids DEF mid
<1>7. /\ \A c \in Bridges \ {b} : bridge'[c] = bridge[c]
      /\ bridge'[b].os = "gone" /\ bridge'[b].owner = o
      /\ bridge'[b].link # "open" /\ (bridge'[b].link = "none" => bridge[b].link = "none")
      /\ bridge'[b].cleanup = "done" => bridge[b].cleanup = "done"
  BY <1>4, <1>5, <1>6 DEF Softer
<1>8. /\ Cleared(process[o]) \in ProcessRecords
      /\ Cleared(process[o]).connection = 0 /\ ~Cleared(process[o]).loaded
      /\ Cleared(process[o]).status = process[o].status
      /\ Cleared(process[o]).access = process[o].access
      /\ Cleared(process[o]).sessions = process[o].sessions
      /\ Cleared(process[o]).child = process[o].child
  BY <1>1, <1>2, ClearedRecord
<1>9. SameBut(o) /\ Clears(o) /\ process'[o].status = process[o].status /\ process'[o].child = b
  BY <1>1, <1>2, <1>3, <1>8 DEF SameBut, Clears
<1> QED BY <1>2, <1>3, <1>6, <1>7, <1>9

\* the end of its cleanup,
LEMMA CleanupShape ==
  ASSUME IInv, NEW b \in Bridges, CleanupDone(b)
  PROVE  LET o == bridge[b].owner
         IN  /\ o \in Processes
             /\ \/ UNCHANGED process /\ process[o].child # b
                \/ /\ SameBut(o) /\ Clears(o) /\ process[o].child = b /\ process'[o].child = 0
                   /\ process'[o].status = process[o].status
             /\ process' \in [Processes -> ProcessRecords]
             /\ bridge' \in [Bridges -> BridgeRecords]
             /\ \A c \in Bridges \ {b} : bridge'[c] = bridge[c]
             /\ bridge[b].os = "gone" /\ bridge'[b].os = "gone" /\ bridge'[b].owner = o
             /\ bridge'[b].link = bridge[b].link /\ bridge'[b].session = bridge[b].session
             /\ UNCHANGED <<step, run>>
<1> DEFINE o == bridge[b].owner
<1>1. /\ process \in [Processes -> ProcessRecords] /\ bridge \in [Bridges -> BridgeRecords]
      /\ OwnInv
  BY Facts DEF IInv
<1>2. /\ bridge[b].os = "gone" /\ o \in Processes /\ UNCHANGED <<step, run>>
      /\ bridge' = [bridge EXCEPT ![b].cleanup = "done"]
  BY <1>1 DEF CleanupDone, OwnInv, unchangedButBridges
<1>3. /\ bridge' \in [Bridges -> BridgeRecords]
      /\ \A c \in Bridges \ {b} : bridge'[c] = bridge[c]
      /\ bridge'[b].os = "gone" /\ bridge'[b].owner = o
      /\ bridge'[b].link = bridge[b].link /\ bridge'[b].session = bridge[b].session
  BY <1>1, <1>2 DEF BridgeRecords
<1>4. CASE process[o].child # b
  BY <1>1, <1>2, <1>3, <1>4 DEF CleanupDone
<1>5. CASE process[o].child = b
  <2> DEFINE new == [Cleared(process[o]) EXCEPT !.child = 0]
  <2>1. process' = [process EXCEPT ![o] = new]
    BY <1>1, <1>2, <1>5 DEF CleanupDone
  <2>2. /\ Cleared(process[o]) \in ProcessRecords
        /\ Cleared(process[o]).connection = 0 /\ ~Cleared(process[o]).loaded
        /\ Cleared(process[o]).status = process[o].status
        /\ Cleared(process[o]).access = process[o].access
        /\ Cleared(process[o]).sessions = process[o].sessions
    BY <1>1, <1>2, ClearedRecord
  <2>3. /\ new \in ProcessRecords /\ new.connection = 0 /\ ~new.loaded /\ new.child = 0
        /\ new.status = process[o].status /\ new.access = process[o].access
        /\ new.sessions = process[o].sessions
    BY <2>2 DEF ProcessRecords
  <2> HIDE DEF new
  <2>4. SameBut(o) /\ Clears(o) /\ process'[o].child = 0 /\ process'[o].status = process[o].status
    BY <1>1, <1>2, <2>1, <2>3 DEF SameBut, Clears
  <2> QED BY <1>2, <1>3, <1>5, <2>4 DEF SameBut
<1> QED BY <1>4, <1>5

\* a child that could not be spawned,
LEMMA SpawnFailsShape ==
  ASSUME IInv, SpawnFails
  PROVE  /\ run.bridge \in Bridges /\ UNCHANGED process /\ step = "spawning"
         /\ run.process \in Processes
         /\ bridge' \in [Bridges -> BridgeRecords]
         /\ \A c \in Bridges \ {run.bridge} : bridge'[c] = bridge[c]
         /\ bridge[run.bridge].os = "up" /\ bridge'[run.bridge].os = "gone"
         /\ bridge'[run.bridge].owner = bridge[run.bridge].owner
         /\ bridge'[run.bridge].link = bridge[run.bridge].link
         /\ bridge'[run.bridge].cleanup = bridge[run.bridge].cleanup
              \/ bridge'[run.bridge].cleanup = "kill"
         /\ (step' = "failing" /\ run' = run) \/ step' = "idle"
<1> DEFINE b == run.bridge
           gone == [bridge EXCEPT ![b].os = "gone"]
<1>1. /\ bridge \in [Bridges -> BridgeRecords] /\ b \in Bridges /\ UNCHANGED process
      /\ step = "spawning" /\ run.process \in Processes /\ bridge[b].os = "up"
  BY Facts DEF SpawnFails, Using, Setup
<1>2. /\ gone \in [Bridges -> BridgeRecords] /\ \A c \in Bridges \ {b} : gone[c] = bridge[c]
      /\ gone[b].os = "gone" /\ gone[b].owner = bridge[b].owner
      /\ gone[b].link = bridge[b].link
      /\ gone[b].cleanup = bridge[b].cleanup
  BY <1>1 DEF BridgeRecords
<1>3. \/ bridge' = gone /\ step' = "idle"
      \/ bridge' = Terminated(gone, b, "kill") /\ step' = "failing" /\ run' = run
  BY DEF SpawnFails, StartFails, EndRun
<1> HIDE DEF gone
<1>4. CASE bridge' = gone /\ step' = "idle"
  BY <1>1, <1>2, <1>4
<1>5. CASE bridge' = Terminated(gone, b, "kill") /\ step' = "failing" /\ run' = run
  <2>1. /\ bridge' \in [Bridges -> BridgeRecords]
        /\ \A c \in Bridges : Softer(gone[c], bridge'[c]) /\ bridge'[c].link = gone[c].link
                              /\ (c # b => bridge'[c] = gone[c])
    BY <1>1, <1>2, <1>5, TerminatedBridges
  <2>2. bridge'[b].cleanup = gone[b].cleanup \/ bridge'[b].cleanup = "kill"
    BY <1>1, <1>2, <1>5 DEF Terminated, BridgeRecords
  <2> QED BY <1>1, <1>2, <1>5, <2>1, <2>2 DEF Softer
<1> QED BY <1>3, <1>4, <1>5

\* a child whose stream is open,
LEMMA SpawnedShape ==
  ASSUME IInv, Spawned
  PROVE  LET p == run.process
             b == run.bridge
         IN  /\ p \in Processes /\ b \in Bridges
             /\ step = "spawning" /\ step' = "initializing" /\ run' = run
             /\ SameBut(p) /\ process'[p].connection = b
             /\ process'[p].loaded = process[p].loaded
             /\ process'[p].child = process[p].child
             /\ process'[p].status = process[p].status
             /\ bridge' \in [Bridges -> BridgeRecords]
             /\ \A c \in Bridges \ {b} : bridge'[c] = bridge[c]
             /\ bridge'[b].os = bridge[b].os /\ bridge'[b].owner = bridge[b].owner
             /\ bridge'[b].cleanup = bridge[b].cleanup /\ bridge'[b].link = "open"
<1>1. /\ process \in [Processes -> ProcessRecords] /\ bridge \in [Bridges -> BridgeRecords]
      /\ run.bridge \in Bridges /\ run.process \in Processes
  BY Facts DEF Spawned, Using, Setup
<1>2. /\ bridge' = [bridge EXCEPT ![run.bridge].link = "open"]
      /\ process' = [process EXCEPT ![run.process].connection = run.bridge]
      /\ step = "spawning" /\ step' = "initializing" /\ run' = run
  BY DEF Spawned
<1>3. process' \in [Processes -> ProcessRecords]
  BY <1>1, <1>2 DEF ProcessRecords
<1>4. bridge' \in [Bridges -> BridgeRecords]
  BY <1>1, <1>2 DEF BridgeRecords
<1> QED BY <1>1, <1>2, <1>3, <1>4 DEF SameBut, ProcessRecords, BridgeRecords

\* and a session that is ready.
LEMMA ReadyShape ==
  ASSUME IInv, SessionReady
  PROVE  LET p == run.process
             b == run.bridge
         IN  /\ p \in Processes /\ b \in Bridges /\ step = "session"
             /\ (step' = "configuring" /\ run' = run) \/ step' = "idle"
             /\ SameBut(p) /\ process'[p].connection = process[p].connection
             /\ process'[p].child = process[p].child
             /\ process'[p].status = process[p].status
             /\ process'[p].loaded => process[p].loaded \/ (Reachable(b) /\ bridge'[b].session)
             /\ bridge' \in [Bridges -> BridgeRecords]
             /\ \A c \in Bridges : /\ bridge'[c].os = bridge[c].os /\ bridge'[c].owner = bridge[c].owner
                                   /\ bridge'[c].cleanup = bridge[c].cleanup
                                   /\ bridge'[c].link = bridge[c].link
                                   /\ bridge[c].session => bridge'[c].session
<1>1. /\ process \in [Processes -> ProcessRecords] /\ bridge \in [Bridges -> BridgeRecords]
      /\ run.bridge \in Bridges /\ run.process \in Processes /\ step = "session"
      /\ lane \in BOOLEAN
  BY Facts DEF SessionReady, Using, Setup, Typed
<1>2. /\ Loaded \/ Reachable(run.bridge)
      /\ bridge' = IF Loaded THEN bridge ELSE [bridge EXCEPT ![run.bridge].session = TRUE]
      /\ process' = [process EXCEPT ![run.process].loaded = ~lane]
      /\ (step' = "configuring" /\ run' = run) \/ step' = "idle"
  BY DEF SessionReady, Answers, Continue, EndRun
<1>3. /\ process' \in [Processes -> ProcessRecords] /\ SameBut(run.process)
      /\ process'[run.process].connection = process[run.process].connection
      /\ process'[run.process].child = process[run.process].child
      /\ process'[run.process].status = process[run.process].status
  BY <1>1, <1>2 DEF ProcessRecords, SameBut
<1>4. /\ bridge' \in [Bridges -> BridgeRecords]
      /\ \A c \in Bridges : /\ bridge'[c].os = bridge[c].os /\ bridge'[c].owner = bridge[c].owner
                            /\ bridge'[c].cleanup = bridge[c].cleanup
                            /\ bridge'[c].link = bridge[c].link
                            /\ bridge[c].session => bridge'[c].session
      /\ ~Loaded => bridge'[run.bridge].session
  <2>1. CASE Loaded
    BY <1>1, <1>2, <2>1
  <2>2. CASE ~Loaded
    <3>1. bridge' = [bridge EXCEPT ![run.bridge].session = TRUE]
      BY <1>2, <2>2
    <3> QED BY <1>1, <2>2, <3>1 DEF BridgeRecords
  <2> QED BY <2>1, <2>2
<1>5. Loaded => process[run.process].loaded
  BY DEF Loaded
<1> QED BY <1>1, <1>2, <1>3, <1>4, <1>5

\* OwnInv of one process,
OwnProcess(p) ==
  /\ Owns(p, process[p].child) /\ Owns(p, process[p].connection)
  /\ process[p].status = "none" =>
        process[p].connection = 0 /\ process[p].sessions = 0 /\ ~process[p].loaded
  /\ process[p].status \in {"none", "closed"} => process[p].child = 0
  /\ process[p].child # 0 =>
        /\ bridge[process[p].child].cleanup # "done"
        /\ process[p].status = "closing" => bridge[process[p].child].cleanup # "none"

\* and of one bridge.
OwnBridge(b) ==
  /\ bridge[b].os = "none" => bridge[b].cleanup # "done"
  /\ bridge[b].os # "none" => bridge[b].owner \in Processes
  /\ bridge[b].os = "up" => process[bridge[b].owner].child = b

\* OwnInv is its parts, before a step and after it.
LEMMA OwnParts ==
  /\ OwnInv <=> (\A p \in Processes : OwnProcess(p)) /\ (\A b \in Bridges : OwnBridge(b))
  /\ OwnInv' <=> (\A p \in Processes : OwnProcess(p)') /\ (\A b \in Bridges : OwnBridge(b)')
BY DEF OwnInv, OwnProcess, OwnBridge

\* The steps of this section.
Settling ==
  \/ \E p \in Processes : CloseDone(p)
  \/ \E b \in Bridges : Exit(b) \/ CleanupDone(b)
  \/ SpawnFails \/ Spawned \/ SessionReady

\* They keep what processes and bridges know of each other,
LEMMA OwnOthers ==
  ASSUME IInv, Settling
  PROVE  OwnInv'
<1>0. /\ process \in [Processes -> ProcessRecords] /\ bridge \in [Bridges -> BridgeRecords]
      /\ \A q \in Processes : OwnProcess(q)
      /\ \A c \in Bridges : OwnBridge(c)
      /\ \A q \in Processes : /\ process[q].child \in Bridges \cup {0}
                              /\ process[q].connection \in Bridges \cup {0}
  BY Facts, OwnParts DEF IInv, ProcessRecords
<1>1. ASSUME NEW p \in Processes, CloseDone(p)
      PROVE  OwnInv'
  <2>1. /\ SameBut(p) /\ Clears(p) /\ process'[p].child = 0 /\ process[p].child = 0
        /\ process'[p].status = "closed" /\ bridge' = bridge
    BY <1>1, CloseDoneShape
  <2>2. ASSUME NEW q \in Processes
        PROVE  OwnProcess(q)'
    BY <1>0, <2>1 DEF SameBut, Clears, OwnProcess, Owns
  <2>3. ASSUME NEW c \in Bridges
        PROVE  OwnBridge(c)'
    BY <1>0, <2>1, Ids DEF SameBut, OwnBridge
  <2> QED BY <2>2, <2>3, OwnParts
<1>2. ASSUME NEW b \in Bridges, Exit(b)
      PROVE  OwnInv'
  <2> DEFINE o == bridge[b].owner
  <2>1. /\ o \in Processes /\ process[o].child = b /\ process'[o].child = b
        /\ SameBut(o) /\ Clears(o) /\ process'[o].status = process[o].status
        /\ \A c \in Bridges \ {b} : bridge'[c] = bridge[c]
        /\ bridge[b].os = "up" /\ bridge'[b].os = "gone" /\ bridge'[b].owner = o
        /\ bridge'[b].cleanup # "none" /\ (bridge'[b].cleanup = "done" => bridge[b].cleanup = "done")
    BY <1>2, ExitShape
  <2>2. ASSUME NEW q \in Processes
        PROVE  OwnProcess(q)'
    BY <1>0, <2>1 DEF SameBut, Clears, OwnProcess, Owns
  <2>3. ASSUME NEW c \in Bridges
        PROVE  OwnBridge(c)'
    BY <1>0, <2>1 DEF SameBut, OwnBridge
  <2> QED BY <2>2, <2>3, OwnParts
<1>3. ASSUME NEW b \in Bridges, CleanupDone(b)
      PROVE  OwnInv'
  <2> DEFINE o == bridge[b].owner
  <2>1. /\ o \in Processes
        /\ \/ UNCHANGED process /\ process[o].child # b
           \/ /\ SameBut(o) /\ Clears(o) /\ process[o].child = b /\ process'[o].child = 0
              /\ process'[o].status = process[o].status
        /\ \A c \in Bridges \ {b} : bridge'[c] = bridge[c]
        /\ bridge[b].os = "gone" /\ bridge'[b].os = "gone" /\ bridge'[b].owner = o
    BY <1>3, CleanupShape
  <2>2. ASSUME NEW q \in Processes
        PROVE  OwnProcess(q)'
    BY <1>0, <2>1 DEF SameBut, Clears, OwnProcess, Owns
  <2>3. ASSUME NEW c \in Bridges
        PROVE  OwnBridge(c)'
    BY <1>0, <2>1 DEF SameBut, OwnBridge
  <2> QED BY <2>2, <2>3, OwnParts
<1>4. CASE SpawnFails
  <2> DEFINE b == run.bridge
  <2>1. /\ b \in Bridges /\ UNCHANGED process
        /\ \A c \in Bridges \ {b} : bridge'[c] = bridge[c]
        /\ bridge[b].os = "up" /\ bridge'[b].os = "gone"
        /\ bridge'[b].owner = bridge[b].owner
        /\ bridge'[b].cleanup = bridge[b].cleanup \/ bridge'[b].cleanup = "kill"
    BY <1>4, SpawnFailsShape
  <2>2. ASSUME NEW q \in Processes
        PROVE  OwnProcess(q)'
    BY <1>0, <2>1 DEF OwnProcess, Owns
  <2>3. ASSUME NEW c \in Bridges
        PROVE  OwnBridge(c)'
    BY <1>0, <2>1 DEF OwnBridge
  <2> QED BY <2>2, <2>3, OwnParts
<1>5. CASE Spawned
  <2> DEFINE p == run.process
             b == run.bridge
  <2>1. /\ p \in Processes /\ b \in Bridges /\ step = "spawning"
        /\ SameBut(p) /\ process'[p].connection = b
        /\ process'[p].loaded = process[p].loaded
        /\ process'[p].child = process[p].child /\ process'[p].status = process[p].status
        /\ \A c \in Bridges \ {b} : bridge'[c] = bridge[c]
        /\ bridge'[b].os = bridge[b].os /\ bridge'[b].owner = bridge[b].owner
        /\ bridge'[b].cleanup = bridge[b].cleanup
    BY <1>5, SpawnedShape
  <2>a. /\ bridge[b].os # "none" /\ bridge[b].owner = p /\ process[p].status # "none"
    BY <2>1 DEF IInv, RunInv, Using, Setup
  <2>2. ASSUME NEW q \in Processes
        PROVE  OwnProcess(q)'
    BY <1>0, <2>1, <2>a DEF SameBut, OwnProcess, Owns
  <2>3. ASSUME NEW c \in Bridges
        PROVE  OwnBridge(c)'
    BY <1>0, <2>1 DEF SameBut, OwnBridge
  <2> QED BY <2>2, <2>3, OwnParts
<1>6. CASE SessionReady
  <2> DEFINE p == run.process
             b == run.bridge
  <2>1. /\ p \in Processes /\ b \in Bridges /\ step = "session"
        /\ SameBut(p) /\ process'[p].connection = process[p].connection
        /\ process'[p].child = process[p].child /\ process'[p].status = process[p].status
        /\ \A c \in Bridges : /\ bridge'[c].os = bridge[c].os /\ bridge'[c].owner = bridge[c].owner
                              /\ bridge'[c].cleanup = bridge[c].cleanup
    BY <1>6, ReadyShape
  <2>a. process[p].status # "none"
    BY <2>1 DEF IInv, RunInv, Using, Setup
  <2>2. ASSUME NEW q \in Processes
        PROVE  OwnProcess(q)'
    BY <1>0, <2>1, <2>a DEF SameBut, OwnProcess, Owns
  <2>3. ASSUME NEW c \in Bridges
        PROVE  OwnBridge(c)'
    BY <1>0, <2>1 DEF SameBut, OwnBridge
  <2> QED BY <2>2, <2>3, OwnParts
<1> QED BY <1>1, <1>2, <1>3, <1>4, <1>5, <1>6 DEF Settling

\* and the sessions counted.
LEMMA RotatingOthers ==
  ASSUME IInv, Settling
  PROVE  Rotating'
<1>1. \A p \in Processes : process[p].sessions <= MaxEphemeral
  BY DEF IInv, Rotating
<1>2. UNCHANGED process \/ \E p \in Processes : SameBut(p)
  BY CloseDoneShape, ExitShape, CleanupShape, SpawnFailsShape, SpawnedShape, ReadyShape
     DEF Settling
<1> QED BY <1>1, <1>2 DEF Rotating, SameBut

\* LinkInv of one process, LinkInv of the run, and LoadedInv of one process.
LinkProcess(p) ==
  LET c == process[p].connection
  IN  c # 0 /\ bridge[c].link = "open" =>
         bridge[c].os = "up" \/ (step = "initializing" /\ run.process = p /\ run.bridge = c)
LinkRun ==
  /\ step \in Conversing \cup {"initializing"} =>
        /\ bridge[run.bridge].os = "up" => process[run.process].connection = run.bridge
        /\ bridge[run.bridge].link # "none"
  /\ step \in Conversing /\ bridge[run.bridge].link = "open" =>
        bridge[run.bridge].os = "up" /\ process[run.process].status = "open"
  /\ step = "spawning" => process[run.process].connection # run.bridge
LoadedProcess(p) ==
  LET c == process[p].connection
  IN  process[p].loaded => c # 0 /\ bridge[c].os = "up" /\ bridge[c].session

\* LinkInv and LoadedInv are their parts, before a step and after it.
LEMMA LinkParts ==
  /\ LinkInv <=> (\A p \in Processes : LinkProcess(p)) /\ LinkRun
  /\ LinkInv' <=> (\A p \in Processes : LinkProcess(p)') /\ LinkRun'
  /\ LoadedInv <=> (\A p \in Processes : LoadedProcess(p))
                     /\ (step = "spawning" => ~process[run.process].loaded)
  /\ LoadedInv' <=> (\A p \in Processes : LoadedProcess(p)')
                     /\ (step' = "spawning" => ~process'[run'.process].loaded)
<1>1. LinkInv <=> (\A p \in Processes : LinkProcess(p)) /\ LinkRun
  BY DEF LinkInv, LinkProcess, LinkRun
<1>2. LinkInv' <=> (\A p \in Processes : LinkProcess(p)') /\ LinkRun'
  BY DEF LinkInv, LinkProcess, LinkRun
<1>3. LoadedInv <=> (\A p \in Processes : LoadedProcess(p))
                     /\ (step = "spawning" => ~process[run.process].loaded)
  BY DEF LoadedInv, LoadedProcess
<1>4. LoadedInv' <=> (\A p \in Processes : LoadedProcess(p)')
                     /\ (step' = "spawning" => ~process'[run'.process].loaded)
  BY DEF LoadedInv, LoadedProcess
<1> QED BY <1>1, <1>2, <1>3, <1>4

\* The settling steps keep the links and what is loaded.
LEMMA LinkOthers ==
  ASSUME IInv, Settling
  PROVE  LinkInv' /\ LoadedInv'
<1>0. /\ process \in [Processes -> ProcessRecords] /\ bridge \in [Bridges -> BridgeRecords]
      /\ \A q \in Processes : OwnProcess(q) /\ LinkProcess(q) /\ LoadedProcess(q)
      /\ \A c \in Bridges : OwnBridge(c)
      /\ \A q \in Processes : /\ process[q].child \in Bridges \cup {0}
                              /\ process[q].connection \in Bridges \cup {0}
      /\ LinkRun
      /\ step = "spawning" => ~process[run.process].loaded
  BY Facts, OwnParts, LinkParts DEF IInv, ProcessRecords
<1>a. step \in Conversing \cup {"initializing", "spawning"} =>
        /\ run.process \in Processes /\ run.bridge \in Bridges
        /\ bridge[run.bridge].os # "none" /\ bridge[run.bridge].owner = run.process
  BY Facts DEF IInv, RunInv, Using, Setup, Conversing
<1>1. ASSUME NEW p \in Processes, CloseDone(p)
      PROVE  LinkInv' /\ LoadedInv'
  <2>1. /\ SameBut(p) /\ Clears(p) /\ process'[p].child = 0 /\ process[p].child = 0
        /\ process[p].status = "closing" /\ UNCHANGED <<bridge, step, run>>
    BY <1>1, CloseDoneShape
  <2>2. ASSUME NEW q \in Processes
        PROVE  LinkProcess(q)' /\ LoadedProcess(q)'
    BY <1>0, <2>1 DEF SameBut, Clears, LinkProcess, LoadedProcess
  <2>3. LinkRun' /\ (step' = "spawning" => ~process'[run'.process].loaded)
    <3>1. CASE step \in Conversing \cup {"initializing", "spawning"}
      <4>1. bridge[run.bridge].os = "up" => run.process # p
        BY <1>0, <1>a, <2>1, <3>1, Ids DEF OwnBridge
      <4> QED BY <1>0, <1>a, <2>1, <3>1, <4>1, Ids DEF SameBut, Clears, LinkRun
    <3>2. CASE step \notin Conversing \cup {"initializing", "spawning"}
      BY <2>1, <3>2 DEF LinkRun
    <3> QED BY <3>1, <3>2
  <2> QED BY <2>2, <2>3, LinkParts
<1>2. ASSUME NEW b \in Bridges, Exit(b)
      PROVE  LinkInv' /\ LoadedInv'
  <2> DEFINE o == bridge[b].owner
  <2>1. /\ o \in Processes /\ process[o].child = b
        /\ SameBut(o) /\ Clears(o) /\ process'[o].status = process[o].status
        /\ \A c \in Bridges \ {b} : bridge'[c] = bridge[c]
        /\ bridge[b].os = "up" /\ bridge'[b].os = "gone"
        /\ bridge'[b].link # "open" /\ (bridge'[b].link = "none" => bridge[b].link = "none")
        /\ UNCHANGED <<step, run>>
    BY <1>2, ExitShape
  <2>2. ASSUME NEW q \in Processes
        PROVE  LinkProcess(q)' /\ LoadedProcess(q)'
    BY <1>0, <2>1 DEF SameBut, Clears, LinkProcess, LoadedProcess, OwnProcess, Owns
  <2>3. LinkRun' /\ (step' = "spawning" => ~process'[run'.process].loaded)
    <3>1. CASE step \in Conversing \cup {"initializing", "spawning"}
      <4>1. bridge[run.bridge].os = "up" /\ run.process = o => run.bridge = b
        BY <1>0, <1>a, <2>1, <3>1, Ids DEF OwnBridge
      <4> QED BY <1>0, <1>a, <2>1, <3>1, <4>1, Ids DEF SameBut, Clears, LinkRun
    <3>2. CASE step \notin Conversing \cup {"initializing", "spawning"}
      BY <2>1, <3>2 DEF LinkRun
    <3> QED BY <3>1, <3>2
  <2> QED BY <2>2, <2>3, LinkParts
<1>3. ASSUME NEW b \in Bridges, CleanupDone(b)
      PROVE  LinkInv' /\ LoadedInv'
  <2> DEFINE o == bridge[b].owner
  <2>1. /\ o \in Processes
        /\ \/ UNCHANGED process /\ process[o].child # b
           \/ /\ SameBut(o) /\ Clears(o) /\ process[o].child = b
              /\ process'[o].status = process[o].status
        /\ \A c \in Bridges \ {b} : bridge'[c] = bridge[c]
        /\ bridge[b].os = "gone" /\ bridge'[b].os = "gone"
        /\ bridge'[b].link = bridge[b].link /\ bridge'[b].session = bridge[b].session
        /\ UNCHANGED <<step, run>>
    BY <1>3, CleanupShape
  <2>2. ASSUME NEW q \in Processes
        PROVE  LinkProcess(q)' /\ LoadedProcess(q)'
    <3>1. \A c \in Bridges : /\ bridge'[c].os = bridge[c].os /\ bridge'[c].link = bridge[c].link
                             /\ bridge'[c].session = bridge[c].session
      BY <2>1
    <3>2. process'[q] = process[q] \/ Clears(q)
      BY <2>1 DEF SameBut
    <3> QED BY <1>0, <2>1, <3>1, <3>2 DEF Clears, LinkProcess, LoadedProcess
  <2>3. LinkRun' /\ (step' = "spawning" => ~process'[run'.process].loaded)
    <3>1. CASE step \in Conversing \cup {"initializing", "spawning"}
      <4>1. bridge[run.bridge].os = "up" /\ run.process = o => process[o].child = run.bridge /\ run.bridge # b
        BY <1>0, <1>a, <2>1, <3>1, Ids DEF OwnBridge
      <4>2. /\ bridge'[run.bridge].os = bridge[run.bridge].os
            /\ bridge'[run.bridge].link = bridge[run.bridge].link
        BY <1>a, <2>1, <3>1
      <4>3. process'[run.process].status = process[run.process].status
        BY <1>a, <2>1, <3>1 DEF SameBut
      <4>4. \/ process'[run.process] = process[run.process]
            \/ Clears(run.process) /\ run.process = o /\ process[o].child = b
        BY <1>a, <2>1, <3>1 DEF SameBut
      <4> QED BY <1>0, <1>a, <2>1, <3>1, <4>1, <4>2, <4>3, <4>4, Ids DEF Clears, LinkRun
    <3>2. CASE step \notin Conversing \cup {"initializing", "spawning"}
      BY <2>1, <3>2 DEF LinkRun
    <3> QED BY <3>1, <3>2
  <2> QED BY <2>2, <2>3, LinkParts
<1>4. CASE SpawnFails
  <2> DEFINE b == run.bridge
  <2>1. /\ b \in Bridges /\ UNCHANGED process /\ step = "spawning"
        /\ run.process \in Processes
        /\ \A c \in Bridges \ {b} : bridge'[c] = bridge[c]
        /\ bridge[b].os = "up" /\ step' \in {"failing", "idle"}
    BY <1>4, SpawnFailsShape
  <2>2. ASSUME NEW q \in Processes
        PROVE  LinkProcess(q)' /\ LoadedProcess(q)'
    <3>1. process[q].connection # b
      BY <1>0, <1>a, <2>1, Ids DEF OwnProcess, Owns, LinkRun
    <3> QED BY <1>0, <2>1, <3>1 DEF LinkProcess, LoadedProcess
  <2>3. LinkRun' /\ (step' = "spawning" => ~process'[run'.process].loaded)
    BY <2>1 DEF LinkRun, Conversing
  <2> QED BY <2>2, <2>3, LinkParts
<1>5. CASE Spawned
  <2> DEFINE p == run.process
             b == run.bridge
  <2>1. /\ p \in Processes /\ b \in Bridges /\ step = "spawning"
        /\ step' = "initializing" /\ run' = run
        /\ SameBut(p) /\ process'[p].connection = b
        /\ process'[p].loaded = process[p].loaded
        /\ \A c \in Bridges \ {b} : bridge'[c] = bridge[c]
        /\ bridge'[b].os = bridge[b].os /\ bridge'[b].link = "open"
    BY <1>5, SpawnedShape
  <2>2. ASSUME NEW q \in Processes
        PROVE  LinkProcess(q)' /\ LoadedProcess(q)'
    <3>1. CASE q = p
      BY <1>0, <2>1, <3>1 DEF LinkProcess, LoadedProcess
    <3>2. CASE q # p
      <4>1. process[q].connection # b
        BY <1>0, <1>a, <2>1, <3>2, Ids DEF OwnProcess, Owns
      <4> QED BY <1>0, <2>1, <3>2, <4>1 DEF LinkProcess, LoadedProcess, SameBut
    <3> QED BY <3>1, <3>2
  <2>3. LinkRun' /\ (step' = "spawning" => ~process'[run'.process].loaded)
    BY <2>1 DEF LinkRun, Conversing
  <2> QED BY <2>2, <2>3, LinkParts
<1>6. CASE SessionReady
  <2> DEFINE p == run.process
             b == run.bridge
  <2>1. /\ p \in Processes /\ b \in Bridges /\ step = "session"
        /\ (step' = "configuring" /\ run' = run) \/ step' = "idle"
        /\ SameBut(p) /\ process'[p].connection = process[p].connection
        /\ process'[p].status = process[p].status
        /\ process'[p].loaded => process[p].loaded \/ (Reachable(b) /\ bridge'[b].session)
        /\ \A c \in Bridges : /\ bridge'[c].os = bridge[c].os
                              /\ bridge'[c].link = bridge[c].link
                              /\ bridge[c].session => bridge'[c].session
    BY <1>6, ReadyShape
  <2>2. ASSUME NEW q \in Processes
        PROVE  LinkProcess(q)' /\ LoadedProcess(q)'
    <3>1. LinkProcess(q)'
      BY <1>0, <2>1 DEF LinkProcess, SameBut
    <3>2. CASE process[q].loaded
      BY <1>0, <2>1, <3>1, <3>2 DEF LoadedProcess, SameBut
    <3>3. CASE ~process[q].loaded /\ process'[q].loaded
      <4>1. q = p /\ Reachable(b) /\ bridge'[b].session
        BY <2>1, <3>3 DEF SameBut
      <4>2. process[p].connection = b /\ bridge[b].os = "up"
        BY <1>0, <2>1, <4>1 DEF Reachable, LinkRun, Conversing
      <4> QED BY <2>1, <3>1, <4>1, <4>2, Ids DEF LoadedProcess
    <3> QED BY <3>1, <3>2, <3>3 DEF LoadedProcess
  <2>3. LinkRun' /\ (step' = "spawning" => ~process'[run'.process].loaded)
    BY <1>0, <2>1 DEF LinkRun, Conversing
  <2> QED BY <2>2, <2>3, LinkParts
<1> QED BY <1>1, <1>2, <1>3, <1>4, <1>5, <1>6 DEF Settling

\* They open no process.
LEMMA OneOthers ==
  ASSUME IInv, Settling
  PROVE  OneInv'
<1>1. \A p \in Processes :
         process'[p].status \in {"open", "closing"} => process[p].status \in {"open", "closing"}
  <2>1. ASSUME NEW p \in Processes, CloseDone(p)
        PROVE  \A q \in Processes :
                 process'[q].status \in {"open", "closing"} => process[q].status \in {"open", "closing"}
    BY <2>1, CloseDoneShape DEF SameBut
  <2>2. ASSUME NEW b \in Bridges, Exit(b) \/ CleanupDone(b)
        PROVE  \A q \in Processes : process'[q].status = process[q].status
    BY <2>2, ExitShape, CleanupShape DEF SameBut
  <2>3. CASE SpawnFails \/ Spawned \/ SessionReady
    BY <2>3, SpawnFailsShape, SpawnedShape, ReadyShape DEF SameBut
  <2> QED BY <2>1, <2>2, <2>3 DEF Settling
<1>2. UNCHANGED overtaken
  BY DEF Settling, CloseDone, Exit, CleanupDone, SpawnFails, Spawned, SessionReady,
         unchangedByRun, unchangedButBridges
<1> QED BY <1>1, <1>2 DEF IInv, OneInv

-----------------------------------------------------------------------------
(* Types.                                                                  *)

\* The variables other than the processes and their bridges.
TypedRest ==
    /\ run \in RunRecords /\ change \in [Changes -> ChangeRecords]
    /\ agent \in Agents /\ previous \in Agents
    /\ client \in Processes \cup {0} /\ taken \in Processes \cup {0}
    /\ closures \subseteq Processes
    /\ lane \in BOOLEAN /\ active \in BOOLEAN /\ undone \in BOOLEAN /\ overtaken \in BOOLEAN
    /\ step \in Steps /\ host \in {"open", "closing", "ending", "closed"}

\* Typed is these parts.
LEMMA TypedParts ==
  /\ Typed <=> /\ process \in [Processes -> ProcessRecords] /\ bridge \in [Bridges -> BridgeRecords]
               /\ TypedRest
  /\ Typed' <=> /\ process' \in [Processes -> ProcessRecords] /\ bridge' \in [Bridges -> BridgeRecords]
                /\ TypedRest'
BY DEF Typed, TypedRest

\* The variables of the run.
RunTyped == run \in RunRecords /\ step \in Steps /\ active \in BOOLEAN

\* A step of the run gives them values of their types,
LEMMA RunTypedNext ==
  ASSUME IInv, StartRun \/ RunStep \/ Answered
  PROVE  RunTyped'
<1>a. /\ TypedRest /\ process \in [Processes -> ProcessRecords]
      /\ step \in Using => run.process \in Processes
  BY TypedParts, Facts DEF IInv
<1> USE DEF TypedRest, RunTyped
<1>b. NoRun \in RunRecords
  BY DEF NoRun, RunRecords
<1>c. EndRun => RunTyped'
  BY <1>b DEF EndRun, Steps
<1>d. \A b \in Bridges \cup {0}, p \in Processes \cup {0}, w \in SUBSET Processes :
        /\ [run EXCEPT !.resumes = FALSE, !.process = p, !.bridge = 0] \in RunRecords
        /\ [run EXCEPT !.process = p] \in RunRecords
        /\ [run EXCEPT !.waits = w] \in RunRecords
  BY <1>a DEF RunRecords
<1>e. \A w \in SUBSET Processes :
        /\ [run EXCEPT !.plan = agent.identity, !.access = agent.access] \in RunRecords
        /\ [run EXCEPT !.plan = agent.identity, !.access = agent.access, !.waits = w] \in RunRecords
  BY <1>a DEF RunRecords, Agents
<1>f. ASSUME NEW p \in Processes, Serves(p), UNCHANGED active
      PROVE  RunTyped'
  BY <1>a, <1>f DEF Serves, Steps, Setup
<1>1. CASE StartRun
  <2>1. \A r, a \in BOOLEAN : [NoRun EXCEPT !.resumes = r, !.authority = a, !.revision = revision] \in RunRecords
    BY <1>b, Ids DEF RunRecords
  <2>2. agent.access \in BOOLEAN
    BY <1>a DEF Agents
  <2> QED BY <1>a, <1>1, <2>1, <2>2 DEF StartRun, Steps
<1>2. CASE AwaitClosures
  BY <1>2, <1>a, <1>c, <1>d DEF AwaitClosures, Steps
<1>3. CASE Acquire
  <2>1. CASE step' \notin {"idle", "launching", "retiring"}
    <3>1. client \in Processes /\ Serves(client)
      BY <1>3, <2>1, AcquireServes
    <3>2. UNCHANGED active
      BY <1>3, <2>1 DEF Acquire, EndRun, Use
    <3> QED BY <1>f, <3>1, <3>2
  <2>2. CASE step' \in {"idle", "launching", "retiring"}
    <3>1. ~(client # 0 /\ Use(client, process))
      BY <2>2 DEF Use, Spawn
    <3>2. closures \cup (IF client = 0 THEN {} ELSE {client}) \in SUBSET Processes
      BY <1>a
    <3> QED BY <1>3, <1>a, <1>c, <1>e, <2>2, <3>1, <3>2 DEF Acquire, Steps
  <2> QED BY <2>1, <2>2
<1>4. CASE Retired \/ LaunchFails
  BY <1>4, <1>a, <1>c DEF Retired, LaunchFails, Steps
<1>5. CASE Launched
  <2>1. CASE step' \notin {"idle", "launching", "retiring"}
    <3>1. PICK p \in Processes : Serves(p)
      BY <1>5, <2>1, LaunchedServes
    <3>2. UNCHANGED active
      <4>1. PICK q \in Processes : Use(q, [process EXCEPT ![q].status = "open", ![q].access = run.access])
        BY <1>5, <2>1 DEF Launched, EndRun
      <4> QED BY <4>1 DEF Use
    <3> QED BY <1>f, <3>1, <3>2
  <2>2. CASE step' \in {"idle", "launching", "retiring"}
    <3>1. ASSUME NEW q \in Processes, NEW ps, Use(q, ps)
          PROVE  FALSE
      <4>1. step' \in {"session", "replacing", "spawning"}
        BY <3>1 DEF Use, Spawn
      <4> QED BY <2>2, <4>1
    <3> QED BY <1>5, <1>c, <3>1 DEF Launched
  <2> QED BY <2>1, <2>2
<1>6. CASE Replaced
  <2>1. CASE step' \notin {"idle", "launching", "retiring"}
    <3>1. run.process \in Processes /\ Serves(run.process)
      BY <1>6, <2>1, ReplacedServes
    <3>2. UNCHANGED active
      BY <1>6, <2>1 DEF Replaced, EndRun
    <3> QED BY <1>f, <3>1, <3>2
  <2>2. CASE step' \in {"idle", "launching", "retiring"}
    BY <1>6, <1>c, <2>2 DEF Replaced, Spawn
  <2> QED BY <2>1, <2>2
<1>7. CASE Spawned \/ SessionReady \/ Initialized \/ Prompt
  BY <1>7, <1>a, <1>c DEF Spawned, SessionReady, Initialized, Prompt, Continue, Steps,
                          Setup
<1>8. CASE SpawnFails \/ StartFailed \/ Answered \/ RequestFails \/ RequestTimesOut
  BY <1>8, <1>a, <1>c
     DEF SpawnFails, StartFailed, Answered, RequestFails, RequestTimesOut, StartFails,
         Steps, Setup
<1>9. CASE SessionMissing
  BY <1>9, <1>a, <1>c, <1>d DEF SessionMissing, Steps
<1>10. CASE Recovered
  BY <1>10, <1>a, <1>d DEF Recovered, Steps
<1> QED BY <1>1, <1>2, <1>3, <1>4, <1>5, <1>6, <1>7, <1>8, <1>9, <1>10 DEF RunStep

\* and client and closures, too.
LEMMA HolderTypedNext ==
  ASSUME IInv, StartRun \/ RunStep \/ Answered
  PROVE  client' \in Processes \cup {0} /\ closures' \subseteq Processes
<1>a. /\ client \in Processes \cup {0} /\ closures \subseteq Processes
  BY TypedParts DEF IInv, TypedRest
<1>1. CASE Acquire
  BY <1>a, <1>1 DEF Acquire, CloseAcpProcess
<1>2. CASE Launched
  BY <1>a, <1>2 DEF Launched
<1>3. CASE SessionMissing
  BY <1>a, <1>3 DEF SessionMissing
<1>4. CASE \/ StartRun \/ Answered \/ AwaitClosures \/ Retired \/ LaunchFails \/ Replaced \/ Spawned
           \/ SpawnFails \/ StartFailed \/ Initialized \/ SessionReady \/ Prompt
           \/ RequestFails \/ RequestTimesOut \/ Recovered
  BY <1>a, <1>4
     DEF StartRun, Answered, AwaitClosures, Retired, LaunchFails, Replaced, Spawned,
         SpawnFails, StartFailed, Initialized, SessionReady, Prompt, RequestFails,
         RequestTimesOut, Recovered
<1> QED BY <1>1, <1>2, <1>3, <1>4 DEF RunStep

\* A step of a run leaves the Agent and the host alone,
LEMMA RunFrame ==
  ASSUME StartRun \/ RunStep \/ Answered
  PROVE  UNCHANGED <<lane, agent, previous, change, host, taken, undone, overtaken>>
BY DEF RunStep, StartRun, Answered, AwaitClosures, Acquire, Retired, Launched, LaunchFails,
       Replaced, Spawned, SpawnFails, StartFailed, Initialized, SessionReady, Prompt,
       RequestFails, RequestTimesOut, SessionMissing, Recovered, unchangedByRun

\* and one of a bridge, or the end of a close, everything but those.
BridgeAct == BridgeStep \/ \E p \in Processes : CloseDone(p)

\* It leaves the run and acpProcesses alone and at most takes a process from closures.
LEMMA BridgeFrame ==
  ASSUME BridgeAct
  PROVE  /\ UNCHANGED <<lane, agent, previous, change, host, taken, undone, overtaken>>
         /\ UNCHANGED <<client, step, run, active>> /\ closures' \subseteq closures
BY DEF BridgeAct, BridgeStep, CloseDone, Exit, ForceKill, CleanupDone, EndOfStream,
       FrameTooLong, unchangedButBridges

\* Those who end a run or a process from outside.
Outside ==
  \/ Stop \/ CloseLanes \/ HostCloses \/ HostEndsRuns \/ HostClosed
  \/ \E m \in Changes : \/ ChangeAgent(m) \/ ChangeFails(m) \/ ChangeSaved(m) \/ Interrupt(m)
                         \/ CloseMatching(m) \/ ChangeDone(m)

\* Every step is one of a run, of a bridge, or from outside;
LEMMA NextParts ==
  Next <=> StartRun \/ RunStep \/ Answered \/ BridgeAct \/ Outside
BY DEF Next, BridgeAct, Outside

\* and every step is calm, settling, or begins to use a process.
LEMMA Classes ==
  ASSUME Next
  PROVE  \/ CalmRun \/ CalmEnv \/ Settling
         \/ step' \notin {"idle", "launching", "retiring"} /\ (Acquire \/ Launched \/ Replaced)
BY DEF Next, RunStep, BridgeStep, CalmRun, CalmEnv, Settling

\* A step from outside keeps the types.
LEMMA OutsideTyped ==
  ASSUME IInv, Outside
  PROVE  TypedRest'
<1>a. /\ TypedRest /\ (step \in Using => run.process \in Processes)
  BY TypedParts, Facts DEF IInv
<1>b. [run EXCEPT !.aborted = TRUE] \in RunRecords
  BY <1>a DEF TypedRest, RunRecords
<1>c. ASSUME NEW p \in Processes, CloseAcpProcess(p)
      PROVE  client' \in Processes \cup {0} /\ closures' \subseteq Processes
  BY <1>a, <1>c DEF TypedRest, CloseAcpProcess
<1>d. Abort => run' \in RunRecords /\ client' \in Processes \cup {0} /\ closures' \subseteq Processes
  BY <1>a, <1>b, <1>c DEF Abort, Using, TypedRest
<1>1. CASE Stop \/ CloseLanes \/ HostCloses \/ HostClosed
  BY <1>1, <1>a, <1>c, <1>d DEF Stop, CloseLanes, HostCloses, HostClosed, TypedRest
<1>2. CASE HostEndsRuns
  <2>1. /\ run' \in RunRecords /\ client' = 0 /\ taken' = client /\ active' = FALSE
        /\ host' = "ending"
        /\ UNCHANGED <<lane, agent, previous, change, step, undone, overtaken>>
    BY <1>a, <1>b, <1>2 DEF HostEndsRuns, TypedRest
  <2>2. closures' \subseteq Processes
    BY <1>a, <1>2 DEF HostEndsRuns, TypedRest, Using
  <2> QED BY <1>a, <2>1, <2>2 DEF TypedRest
<1>3. ASSUME NEW m \in Changes, ChangeAgent(m)
      PROVE  TypedRest'
  <2>1. agent \in Agents /\ change \in [Changes -> ChangeRecords]
    BY <1>a DEF TypedRest
  <2>2. PICK kind \in {"access", "remove", "add"} :
          /\ change' = [change EXCEPT ![m] = [kind |-> kind, stage |-> "saving",
                                             before |-> agent.access, waits |-> {}]]
          /\ agent' = [present |-> kind # "remove",
                       access |-> kind = "access" /\ ~agent.access, identity |-> m]
    BY <1>3 DEF ChangeAgent
  <2>3. agent' \in Agents
    BY <2>2 DEF Agents
  <2>4. [kind |-> kind, stage |-> "saving", before |-> agent.access, waits |-> {}] \in ChangeRecords
    BY <2>1 DEF Agents, ChangeRecords
  <2>5. change' \in [Changes -> ChangeRecords]
    BY <2>1, <2>2, <2>4
  <2>6. /\ previous' = agent
        /\ UNCHANGED <<lane, client, closures, step, run, active, host, taken, undone, overtaken>>
    BY <1>3 DEF ChangeAgent
  <2> QED BY <1>a, <2>3, <2>5, <2>6 DEF TypedRest
<1>e. ASSUME NEW m \in Changes
      PROVE  /\ Done(change[m]) \in ChangeRecords
             /\ \A s \in {"failed", "done", "saved", "interrupting", "closing"} :
                   /\ [change[m] EXCEPT !.stage = s] \in ChangeRecords
                   /\ \A w \in SUBSET Processes : [change[m] EXCEPT !.stage = s, !.waits = w] \in ChangeRecords
  <2>1. change[m] \in ChangeRecords
    BY <1>a DEF TypedRest
  <2> QED BY <2>1 DEF ChangeRecords, Done
<1>4. ASSUME NEW m \in Changes, ChangeFails(m) \/ ChangeSaved(m) \/ ChangeDone(m)
      PROVE  TypedRest'
  <2>1. change' \in [Changes -> ChangeRecords]
    <3>1. PICK rec \in ChangeRecords : change' = [change EXCEPT ![m] = rec]
      BY <1>4, <1>e DEF ChangeFails, ChangeSaved, ChangeDone
    <3> QED BY <1>a, <3>1 DEF TypedRest
  <2> QED BY <1>a, <1>4, <2>1 DEF ChangeFails, ChangeSaved, ChangeDone, TypedRest
<1>5. ASSUME NEW m \in Changes, Interrupt(m)
      PROVE  TypedRest'
  <2>1. change' \in [Changes -> ChangeRecords]
    <3>1. PICK rec \in ChangeRecords : change' = [change EXCEPT ![m] = rec]
      BY <1>5, <1>e DEF Interrupt
    <3> QED BY <1>a, <3>1 DEF TypedRest
  <2>2. run' \in RunRecords /\ client' \in Processes \cup {0} /\ closures' \subseteq Processes
    BY <1>a, <1>5, <1>d DEF Interrupt, TypedRest
  <2> QED BY <1>a, <1>5, <2>1, <2>2 DEF Interrupt, TypedRest
<1>6. ASSUME NEW m \in Changes, CloseMatching(m)
      PROVE  TypedRest'
  <2>0. closures \cup {client} \in SUBSET Processes \/ client = 0
    BY <1>a DEF TypedRest
  <2>1. change' \in [Changes -> ChangeRecords]
    <3>1. PICK rec \in ChangeRecords : change' = [change EXCEPT ![m] = rec]
      <4>1. CASE Mismatched(m)
        <5>1. /\ change' = [change EXCEPT ![m].stage = "closing", ![m].waits = closures \cup {client}]
              /\ closures \cup {client} \in SUBSET Processes
          BY <1>6, <2>0, <4>1 DEF CloseMatching, Mismatched
        <5>2. [change[m] EXCEPT !.stage = "closing", !.waits = closures \cup {client}] \in ChangeRecords
          BY <1>e, <5>1
        <5>3. change' = [change EXCEPT ![m] =
                           [change[m] EXCEPT !.stage = "closing", !.waits = closures \cup {client}]]
          BY <5>1
        <5> QED BY <5>2, <5>3
      <4>2. CASE ~Mismatched(m)
        BY <1>6, <1>e, <4>2 DEF CloseMatching
      <4> QED BY <4>1, <4>2
    <3> QED BY <1>a, <3>1 DEF TypedRest
  <2>2. client' \in Processes \cup {0} /\ closures' \subseteq Processes
    BY <1>a, <1>6, <1>c DEF CloseMatching, Mismatched, TypedRest
  <2>3. active' \in BOOLEAN /\ overtaken' \in BOOLEAN
    BY <1>a, <1>6 DEF CloseMatching, TypedRest
  <2>4. UNCHANGED <<lane, agent, previous, step, run, host, taken, undone>>
    BY <1>6 DEF CloseMatching
  <2> QED BY <1>a, <2>1, <2>2, <2>3, <2>4 DEF TypedRest
<1> QED BY <1>1, <1>2, <1>3, <1>4, <1>5, <1>6 DEF Outside

\* Every step keeps the types.
LEMMA TypedNext ==
  ASSUME IInv, Next
  PROVE  Typed'
<1>1. process' \in [Processes -> ProcessRecords] /\ bridge' \in [Bridges -> BridgeRecords]
  <2>1. CASE CalmRun \/ CalmEnv
    BY <2>1, RunCalm, EnvCalm DEF Calm
  <2>2. CASE Settling
    <3>0. process \in [Processes -> ProcessRecords] /\ bridge \in [Bridges -> BridgeRecords]
      BY Facts
    <3>1. ASSUME NEW p \in Processes, CloseDone(p)
          PROVE  process' \in [Processes -> ProcessRecords] /\ bridge' = bridge
      BY <3>1, CloseDoneShape DEF SameBut
    <3>2. ASSUME NEW b \in Bridges, Exit(b) \/ CleanupDone(b)
          PROVE  process' \in [Processes -> ProcessRecords] /\ bridge' \in [Bridges -> BridgeRecords]
      BY <3>2, ExitShape, CleanupShape DEF SameBut
    <3>3. CASE SpawnFails \/ Spawned \/ SessionReady
      BY <3>0, <3>3, SpawnFailsShape, SpawnedShape, ReadyShape DEF SameBut
    <3> QED BY <2>2, <3>0, <3>1, <3>2, <3>3 DEF Settling
  <2>3. CASE step' \notin {"idle", "launching", "retiring"} /\ (Acquire \/ Launched \/ Replaced)
    <3>1. \E p \in Processes : Serves(p)
      BY <2>3, AcquireServes, LaunchedServes, ReplacedServes
    <3> QED BY <3>1, ServesShape DEF Serves
  <2> QED BY <2>1, <2>2, <2>3, Classes
<1>2. TypedRest'
  <2>0. TypedRest
    BY TypedParts DEF IInv
  <2>1. CASE StartRun \/ RunStep \/ Answered
    <3>1. RunTyped' /\ client' \in Processes \cup {0} /\ closures' \subseteq Processes
      BY <2>1, RunTypedNext, HolderTypedNext
    <3> QED BY <2>0, <2>1, <3>1, RunFrame DEF TypedRest, RunTyped
  <2>2. CASE BridgeAct
    <3>1. UNCHANGED <<lane, agent, previous, change, host, taken, undone, overtaken>>
      BY <2>2, BridgeFrame
    <3>2. UNCHANGED <<client, step, run, active>> /\ closures' \subseteq closures
      BY <2>2, BridgeFrame
    <3> QED BY <2>0, <3>1, <3>2 DEF TypedRest
  <2>3. CASE Outside
    BY <2>3, OutsideTyped
  <2> QED BY <2>1, <2>2, <2>3, NextParts
<1> QED BY <1>1, <1>2, TypedParts

-----------------------------------------------------------------------------
(* Open is the process acpProcesses has, closing the one somebody waits for.*)

\* No process opens, begins to close, or is closed.
StatusKept == \A p \in Processes : process'[p].status = process[p].status

\* A run that waits for the process it closed in SessionMissing goes on waiting for it.
RecoveryKept ==
  step = "recovering" =>
    \/ step' = "recovering" /\ run'.process = run.process
    \/ run.process \notin Processes \/ process[run.process].status # "closing"

\* A step that changes no status and nobody's hold on a process keeps HeldInv,
LEMMA HeldStill ==
  ASSUME IInv, StatusKept, UNCHANGED <<client, closures, taken>>, RecoveryKept
  PROVE  HeldInv'
BY DEF IInv, HeldInv, StatusKept, RecoveryKept

\* and so does closeAcpProcess.
LEMMA HeldClose ==
  ASSUME IInv, NEW p \in Processes, process[p].status # "none", CloseAcpProcess(p),
         UNCHANGED taken, RecoveryKept
  PROVE  HeldInv'
<1>1. Shut({p})
  BY CloseAcpCalm DEF IInv
<1>2. /\ client' = IF client = p THEN 0 ELSE client
      /\ closures' = IF process[p].status = "closed" THEN closures ELSE closures \cup {p}
  BY DEF CloseAcpProcess
<1>3. \A q \in Processes : process[q].status \in {"none", "open", "closing", "closed"}
  BY Facts DEF ProcessRecords
<1> QED BY <1>1, <1>2, <1>3, Ids DEF IInv, HeldInv, Shut, RecoveryKept

\* What a step of a run does to acpProcesses: nothing; acquireAcpProcess retires the open
\* process; a launch puts a new one there; or SessionMissing closes it.
LEMMA RunShapes ==
  ASSUME IInv, StartRun \/ RunStep \/ Answered
  PROVE  \/ StatusKept /\ UNCHANGED <<client, closures>>
         \/ /\ Acquire /\ step' = "retiring" /\ client \in Processes
            /\ process[client].status = "open" /\ CloseAcpProcess(client)
            /\ closures' = closures \cup {client} /\ client' = 0
            /\ run'.waits = closures' /\ run'.process = run.process
         \/ /\ step = "launching" /\ PlanHolds /\ UNCHANGED closures
            /\ \E p \in Processes : /\ process[p].status = "none" /\ client' = p /\ Serves(p)
                                    /\ process'[p].access = run.access
         \/ /\ SessionMissing /\ step' = "recovering" /\ run'.process = client /\ client' = 0
            /\ UNCHANGED closures /\ (client # 0 => Close(client)) /\ host = "open"
            /\ (client = 0 => StatusKept)
            /\ run'.aborted = run.aborted
<1>0. /\ client \in Processes \cup {0} /\ run \in RunRecords
      /\ process \in [Processes -> ProcessRecords]
      /\ HeldInv
  BY Facts DEF IInv
<1>a. UNCHANGED process => StatusKept
  BY DEF StatusKept
<1>b. ASSUME NEW p \in Processes, Serves(p), process[p].status = "open"
      PROVE  StatusKept
  BY <1>b DEF Serves, StatusKept
<1>1. CASE \/ StartRun \/ Answered \/ AwaitClosures \/ Retired \/ LaunchFails
           \/ StartFailed \/ Initialized \/ Prompt \/ RequestFails \/ RequestTimesOut \/ Recovered
           \/ SpawnFails
  BY <1>a, <1>1 DEF StartRun, Answered, AwaitClosures, Retired, LaunchFails, StartFailed,
                    Initialized, Prompt, RequestFails, RequestTimesOut, Recovered,
                    SpawnFails
<1>2. CASE Spawned \/ SessionReady
  <2>1. StatusKept
    BY <1>2, SpawnedShape, ReadyShape DEF SameBut, StatusKept
  <2> QED BY <1>2, <2>1 DEF Spawned, SessionReady
<1>3. CASE Acquire
  <2>1. CASE step' \notin {"idle", "launching", "retiring"}
    BY <1>3, <2>1, <1>b, AcquireServes
  <2>2. CASE step' \in {"idle", "launching"}
    <3>1. ~(client # 0 /\ Use(client, process))
      BY <2>2 DEF Use, Spawn
    <3> QED BY <1>3, <1>a, <2>2, <3>1 DEF Acquire, EndRun
  <2>3. CASE step' = "retiring"
    <3>1. ~(client # 0 /\ Use(client, process))
      BY <2>3 DEF Use, Spawn
    <3>2. /\ client # 0 /\ CloseAcpProcess(client)
          /\ run' = [run EXCEPT !.plan = agent.identity, !.access = agent.access,
                                !.waits = closures \cup {client}]
      BY <1>3, <2>3, <3>1 DEF Acquire, EndRun
    <3>3. process[client].status = "open" /\ client' = 0 /\ closures' = closures \cup {client}
      BY <1>0, <3>2 DEF HeldInv, CloseAcpProcess
    <3>4. run'.waits = closures \cup {client} /\ run'.process = run.process
      BY <1>0, <3>2 DEF RunRecords
    <3> QED BY <1>0, <1>3, <2>3, <3>2, <3>3, <3>4
  <2> QED BY <2>1, <2>2, <2>3
<1>4. CASE Launched
  <2>1. CASE step' \notin {"idle", "launching", "retiring"}
    BY <1>4, <2>1, LaunchedServes
  <2>2. CASE step' \in {"idle", "launching", "retiring"}
    <3>1. ASSUME NEW q \in Processes, NEW ps, Use(q, ps)
          PROVE  FALSE
      <4>1. step' \in {"session", "replacing", "spawning"}
        BY <3>1 DEF Use, Spawn
      <4> QED BY <2>2, <4>1
    <3> QED BY <1>4, <1>a, <3>1 DEF Launched
  <2> QED BY <2>1, <2>2
<1>5. CASE Replaced
  <2>1. CASE step' \notin {"idle", "launching", "retiring"}
    BY <1>5, <2>1, <1>b, ReplacedServes
  <2>2. CASE step' \in {"idle", "launching", "retiring"}
    BY <1>5, <1>a, <2>2 DEF Replaced, Spawn
  <2> QED BY <2>1, <2>2
<1>6. CASE SessionMissing
  <2>1. CASE ~RunCurrent
    BY <1>6, <1>a, <2>1 DEF SessionMissing
  <2>2. CASE RunCurrent
    <3>1. /\ step' = "recovering" /\ client' = 0 /\ host = "open" /\ UNCHANGED closures
          /\ run' = [run EXCEPT !.resumes = FALSE, !.process = client, !.bridge = 0]
          /\ IF client = 0 THEN UNCHANGED <<process, bridge>> ELSE Close(client)
      BY <1>6, <2>2 DEF SessionMissing, RunCurrent
    <3>2. run'.process = client /\ run'.aborted = run.aborted
      BY <1>0, <3>1 DEF RunRecords
    <3> QED BY <1>6, <1>a, <3>1, <3>2
  <2> QED BY <2>1, <2>2
<1> QED BY <1>1, <1>2, <1>3, <1>4, <1>5, <1>6 DEF RunStep

\* HeldInv after a step of a run,
LEMMA HeldRun ==
  ASSUME IInv, StartRun \/ RunStep \/ Answered
  PROVE  HeldInv'
<1>0. /\ client \in Processes \cup {0} /\ HeldInv /\ RunInv /\ UNCHANGED taken
      /\ \A q \in Processes : process[q].status \in {"none", "open", "closing", "closed"}
  BY Facts, RunFrame DEF IInv, ProcessRecords
<1>1. RecoveryKept
  <2>1. SUFFICES ASSUME step = "recovering"
                 PROVE  RecoveryKept
    BY DEF RecoveryKept
  <2>2. Recovered \/ SpawnFails \/ Retired \/ LaunchFails
    BY <2>1
       DEF RunStep, StartRun, Answered, AwaitClosures, Acquire, Retired, Launched,
           LaunchFails, Replaced, Spawned, SpawnFails, StartFailed, Initialized,
           SessionReady, Prompt, RequestFails, RequestTimesOut, SessionMissing, Recovered,
           Request, Answers
  <2>3. run.process = 0 \/ process[run.process].status = "closed"
    BY <2>1, <2>2 DEF Recovered, SpawnFails, Retired, LaunchFails
  <2> QED BY <2>3, Ids DEF RecoveryKept
<1>2. CASE StatusKept /\ UNCHANGED <<client, closures>>
  BY <1>0, <1>1, <1>2, HeldStill
<1>3. CASE /\ client \in Processes
           /\ process[client].status = "open" /\ CloseAcpProcess(client)
  BY <1>0, <1>1, <1>3, HeldClose
<1>4. ASSUME step = "launching", UNCHANGED closures,
             NEW p \in Processes, process[p].status = "none", client' = p, Serves(p)
      PROVE  HeldInv'
  <2>1. client = 0
    BY <1>0, <1>4 DEF RunInv
  <2> QED BY <1>0, <1>4, <2>1, Ids DEF HeldInv, Serves
<1>5. CASE /\ SessionMissing /\ step' = "recovering" /\ run'.process = client /\ client' = 0
           /\ UNCHANGED closures /\ (client # 0 => Close(client))
           /\ (client = 0 => StatusKept)
  <2>1. step # "recovering"
    BY <1>5 DEF SessionMissing
  <2>2. CASE client = 0
    BY <1>0, <1>5, <2>1, <2>2, Ids DEF HeldInv, StatusKept
  <2>3. CASE client # 0
    <3>1. Shut({client})
      BY <1>0, <1>5, <2>3, CloseCalm DEF IInv
    <3> QED BY <1>0, <1>5, <2>1, <2>3, <3>1, Ids DEF HeldInv, Shut
  <2> QED BY <2>2, <2>3
<1> QED BY <1>2, <1>3, <1>4, <1>5, RunShapes

\* after one of a bridge or the end of a close,
LEMMA HeldBridge ==
  ASSUME IInv, BridgeAct
  PROVE  HeldInv' /\ (StatusKept \/ \E p \in Processes : CloseDone(p))
<1>0. HeldInv /\ UNCHANGED <<client, step, run, taken>> /\ closures' \subseteq closures
  BY BridgeFrame DEF IInv
<1>1. ASSUME NEW p \in Processes, CloseDone(p)
      PROVE  HeldInv'
  <2>1. /\ SameBut(p) /\ process[p].status = "closing" /\ process'[p].status = "closed"
        /\ closures' = closures \ {p}
    BY <1>1, CloseDoneShape DEF CloseDone
  <2> QED BY <1>0, <2>1 DEF HeldInv, SameBut
<1>2. CASE BridgeStep
  <2>1. StatusKept
    <3>1. ASSUME NEW b \in Bridges, Exit(b) \/ CleanupDone(b)
          PROVE  StatusKept
      BY <3>1, ExitShape, CleanupShape DEF SameBut, StatusKept
    <3>2. ASSUME NEW b \in Bridges, ForceKill(b) \/ EndOfStream(b) \/ FrameTooLong(b)
          PROVE  StatusKept
      BY <3>2 DEF ForceKill, EndOfStream, FrameTooLong, StatusKept
    <3> QED BY <1>2, <3>1, <3>2 DEF BridgeStep
  <2>2. UNCHANGED closures
    BY <1>2
       DEF BridgeStep, Exit, ForceKill, CleanupDone, EndOfStream, FrameTooLong,
           unchangedButBridges
  <2> QED BY <1>0, <2>1, <2>2, HeldStill DEF RecoveryKept
<1> QED BY <1>1, <1>2 DEF BridgeAct

\* What those from outside do with processes: at most they close one, and abort the run.
LEMMA OutsideShapes ==
  ASSUME IInv, Outside, ~HostEndsRuns
  PROVE  /\ \/ StatusKept /\ UNCHANGED <<client, closures>>
            \/ \E p \in Processes :
                  /\ process[p].status # "none" /\ CloseAcpProcess(p)
                  /\ p = client \/ (step \in Setup /\ p = run.process)
         /\ UNCHANGED <<step, taken, lane>>
         /\ run' = run \/ (run' = [run EXCEPT !.aborted = TRUE] /\ step # "idle")
<1>0. /\ client \in Processes \cup {0} /\ HeldInv
      /\ step \in Setup => run.process \in Processes /\ process[run.process].status # "none"
  BY Facts DEF IInv, RunInv, Using
<1>a. UNCHANGED process => StatusKept
  BY DEF StatusKept
<1>b. client # 0 => client \in Processes /\ process[client].status # "none"
  BY <1>0 DEF HeldInv
<1>c. Abort => /\ \/ StatusKept /\ UNCHANGED <<client, closures>>
                  \/ \E p \in Processes :
                        /\ process[p].status # "none" /\ CloseAcpProcess(p)
                        /\ p = client \/ (step \in Setup /\ p = run.process)
               /\ run' = [run EXCEPT !.aborted = TRUE]
  BY <1>0, <1>a DEF Abort
<1>1. CASE Stop \/ HostCloses
  BY <1>1, <1>a, <1>c DEF Stop, HostCloses
<1>2. CASE CloseLanes \/ HostClosed
  BY <1>2, <1>a, <1>b DEF CloseLanes, HostClosed
<1>3. ASSUME NEW m \in Changes, ChangeAgent(m) \/ ChangeFails(m) \/ ChangeSaved(m) \/ ChangeDone(m)
      PROVE  StatusKept /\ UNCHANGED <<client, closures, step, taken, run, lane>>
  BY <1>3, <1>a DEF ChangeAgent, ChangeFails, ChangeSaved, ChangeDone
<1>4. ASSUME NEW m \in Changes, Interrupt(m)
      PROVE  /\ \/ StatusKept /\ UNCHANGED <<client, closures>>
                \/ \E p \in Processes :
                      /\ process[p].status # "none" /\ CloseAcpProcess(p)
                      /\ p = client \/ (step \in Setup /\ p = run.process)
             /\ UNCHANGED <<step, taken, lane>>
             /\ run' = run \/ (run' = [run EXCEPT !.aborted = TRUE] /\ step # "idle")
  BY <1>4, <1>a, <1>c DEF Interrupt
<1>5. ASSUME NEW m \in Changes, CloseMatching(m)
      PROVE  /\ \/ StatusKept /\ UNCHANGED <<client, closures>>
                \/ client \in Processes /\ process[client].status # "none" /\ CloseAcpProcess(client)
             /\ UNCHANGED <<step, taken, run, lane>>
  BY <1>5, <1>a, <1>b DEF CloseMatching, Mismatched
<1> QED BY <1>1, <1>2, <1>3, <1>4, <1>5 DEF Outside

\* after one from outside,
LEMMA HeldOutside ==
  ASSUME IInv, Outside
  PROVE  HeldInv'
<1>0. run \in RunRecords /\ HeldInv /\ HostInv /\ client \in Processes \cup {0}
  BY Facts DEF IInv
<1>1. CASE ~HostEndsRuns
  <2>1. RecoveryKept /\ UNCHANGED taken
    BY <1>0, <1>1, OutsideShapes DEF RecoveryKept, RunRecords
  <2> QED BY <1>1, <2>1, OutsideShapes, HeldStill, HeldClose
<1>2. CASE HostEndsRuns
  <2> DEFINE aborts == ~lane /\ step # "idle" /\ ~run.aborted /\ step \in Setup
             ends == {client} \cup (IF aborts THEN {run.process} ELSE {})
  <2>1. /\ Shut(ends) /\ RunKept
    BY <1>2, HostEndsCalm
  <2>2. /\ taken' = client /\ client' = 0 /\ host = "closing"
        /\ closures' = IF aborts /\ process[run.process].status # "closed"
                       THEN closures \cup {run.process} ELSE closures
    BY <1>2 DEF HostEndsRuns
  <2>3. /\ step \in Setup => run.process \in Processes /\ process[run.process].status # "none"
        /\ taken = 0
        /\ \A q \in Processes : process[q].status \in {"none", "open", "closing", "closed"}
    BY <1>0, <2>2, Facts DEF IInv, RunInv, Using, HostInv, ProcessRecords
  <2> QED BY <1>0, <2>1, <2>2, <2>3, Ids DEF HeldInv, Shut, RunKept
<1> QED BY <1>1, <1>2

\* and after every step.
LEMMA HeldNext ==
  ASSUME IInv, Next
  PROVE  HeldInv'
BY NextParts, HeldRun, HeldBridge, HeldOutside

-----------------------------------------------------------------------------
(* The run and what it uses.                                               *)

\* RunInv after a step that is not the run's: the run stays, and at "waiting" a close that
\* adds to closures is remembered in overtaken.
LEMMA RunInvOutside ==
  ASSUME IInv, Outside \/ BridgeAct
  PROVE  RunInv'
<1>0. /\ RunInv /\ run \in RunRecords /\ process \in [Processes -> ProcessRecords]
      /\ step \in Using => run.process \in Processes
      /\ step \in Using \ {"replacing"} => run.bridge \in Bridges
      /\ closures \subseteq Processes /\ client \in Processes \cup {0}
  BY Facts DEF IInv, Typed
<1>1. /\ \A p \in Processes : process'[p].status = "none" => process[p].status = "none"
      /\ \A b \in Bridges : /\ bridge'[b].os = "none" => bridge[b].os = "none"
                            /\ bridge[b].os # "none" => bridge'[b].owner = bridge[b].owner
  <2>1. CASE Calm
    BY <1>0, <2>1 DEF Calm, Softer
  <2>2. ASSUME NEW p \in Processes, CloseDone(p)
        PROVE  /\ process'[p].status = "closed" /\ SameBut(p) /\ bridge' = bridge
    BY <2>2, CloseDoneShape
  <2>3. ASSUME NEW b \in Bridges, Exit(b)
        PROVE  /\ StatusKept /\ bridge'[b].os = "gone" /\ bridge'[b].owner = bridge[b].owner
               /\ \A c \in Bridges \ {b} : bridge'[c] = bridge[c]
    BY <2>3, ExitShape DEF SameBut, StatusKept
  <2>4. ASSUME NEW b \in Bridges, CleanupDone(b)
        PROVE  /\ StatusKept /\ bridge'[b].os = "gone" /\ bridge'[b].owner = bridge[b].owner
               /\ \A c \in Bridges \ {b} : bridge'[c] = bridge[c]
    BY <2>4, CleanupShape DEF SameBut, StatusKept
  <2>5. CASE CalmEnv
    BY <2>1, <2>5, EnvCalm
  <2> QED BY <2>2, <2>3, <2>4, <2>5
             DEF BridgeAct, BridgeStep, Outside, CalmEnv, SameBut, StatusKept
<1>2. /\ step' = step /\ run'.process = run.process /\ run'.bridge = run.bridge
      /\ run'.waits = run.waits
      /\ step = "idle" => run' = run
  <2>1. CASE BridgeAct
    BY <2>1, BridgeFrame
  <2>2. CASE Outside /\ ~HostEndsRuns
    BY <1>0, <2>2, OutsideShapes DEF RunRecords
  <2>3. CASE HostEndsRuns
    BY <1>0, <2>3 DEF HostEndsRuns, RunRecords
  <2> QED BY <2>1, <2>2, <2>3
<1>3. /\ step \in {"retiring", "launching"} => client' = 0
      /\ step \in {"retiring", "launching"} => closures' \subseteq closures
      /\ step = "waiting" /\ ~overtaken' => closures' \subseteq closures
      /\ ~overtaken' => ~overtaken
  <2>1. CASE BridgeAct
    BY <1>0, <2>1, BridgeFrame DEF RunInv
  <2>2. CASE Outside /\ ~HostEndsRuns
    <3>1. \/ UNCHANGED <<client, closures>>
          \/ \E p \in Processes :
                /\ CloseAcpProcess(p)
                /\ p = client \/ (step \in Setup /\ p = run.process)
      BY <2>2, OutsideShapes
    <3>2. step \in {"retiring", "launching"} => UNCHANGED <<client, closures>>
      BY <1>0, <3>1, Ids DEF RunInv, Setup
    <3>3. ~overtaken' => ~overtaken
      BY <2>2
         DEF Outside, Stop, CloseLanes, HostCloses, HostClosed, ChangeAgent, ChangeFails,
             ChangeSaved, Interrupt, CloseMatching, ChangeDone
    <3>4. step = "waiting" /\ ~overtaken' => closures' = closures
      <4>1. SUFFICES ASSUME step = "waiting", ~overtaken'
                     PROVE  closures' = closures
        OBVIOUS
      <4>2. Abort => closures' = closures
        BY <4>1 DEF Abort, Setup
      <4> QED BY <2>2, <4>1, <4>2
                 DEF Outside, Stop, CloseLanes, HostCloses, HostClosed, ChangeAgent,
                     ChangeFails, ChangeSaved, Interrupt, CloseMatching, ChangeDone
    <3> QED BY <1>0, <3>2, <3>3, <3>4 DEF RunInv
  <2>3. CASE HostEndsRuns
    BY <2>3 DEF HostEndsRuns, Setup
  <2> QED BY <2>1, <2>2, <2>3
<1>4. step \in Using \ {"replacing"} => step \in Using
  OBVIOUS
<1> QED BY <1>0, <1>1, <1>2, <1>3, <1>4 DEF RunInv

\* RunInv after a step of the run.
LEMMA RunInvRun ==
  ASSUME IInv, StartRun \/ RunStep \/ Answered
  PROVE  RunInv'
<1>0. /\ RunInv /\ OwnInv /\ HeldInv /\ run \in RunRecords
      /\ process \in [Processes -> ProcessRecords]
      /\ bridge \in [Bridges -> BridgeRecords]
      /\ step \in Using => run.process \in Processes
      /\ step \in Using \ {"replacing"} => run.bridge \in Bridges
      /\ closures \subseteq Processes /\ client \in Processes \cup {0}
      /\ UNCHANGED overtaken
  BY Facts, RunFrame DEF IInv, Typed
<1>a. EndRun => RunInv'
  BY DEF EndRun, RunInv, Using, Setup
<1>b. ASSUME NEW p \in Processes, Serves(p)
      PROVE  RunInv'
  <2>1. /\ run'.process = p /\ process'[p].status = "open"
        /\ step' \in {"session", "replacing", "spawning"}
    BY <1>b DEF Serves
  <2>2. p # 0
    BY Ids
  <2>3. step' # "replacing" => run'.bridge \in Bridges /\ bridge'[run'.bridge].os # "none"
                                /\ bridge'[run'.bridge].owner = p
    <3>1. CASE step' = "session"
      <4>1. bridge' = bridge /\ process[p].connection # 0 /\ run'.bridge = process[p].connection
        BY <1>b, <3>1 DEF Serves
      <4>2. process[p].connection \in Bridges \cup {0}
        BY <1>0 DEF ProcessRecords
      <4> QED BY <1>0, <4>1, <4>2 DEF OwnInv, Owns
    <3>2. CASE step' = "spawning"
      BY <1>b, <3>2, ServesShape
    <3> QED BY <2>1, <3>1, <3>2
  <2> QED BY <2>1, <2>2, <2>3, Ids DEF RunInv
<1>1. CASE StartRun
  BY <1>1 DEF StartRun, RunInv, Using, Setup
<1>2. CASE AwaitClosures
  <2>1. [run EXCEPT !.waits = closures].waits = closures
    BY <1>0 DEF RunRecords
  <2> QED BY <1>2, <1>a, <2>1 DEF AwaitClosures, RunInv, Using, Setup
<1>3. CASE Acquire
  <2>1. CASE step' \notin {"idle", "launching", "retiring"}
    BY <1>3, <1>b, <2>1, AcquireServes
  <2>2. CASE step' = "idle"
    BY <1>3, <1>a, <2>2 DEF Acquire, Use, Spawn
  <2>3. CASE step' = "launching"
    <3>1. client = 0 /\ step = "waiting" /\ Ended(run.waits) /\ UNCHANGED <<client, closures>>
      BY <1>3, <2>3 DEF Acquire, EndRun, Use, Spawn
    <3>2. ~overtaken => closures = {}
      BY <1>0, <3>1 DEF Ended, RunInv
    <3> QED BY <1>0, <2>3, <3>1, <3>2 DEF RunInv, Using, Setup
  <2>4. CASE step' = "retiring"
    <3>1. client' = 0 /\ run'.waits = closures'
      <4>1. /\ client # 0 /\ CloseAcpProcess(client)
            /\ run' = [run EXCEPT !.plan = agent.identity, !.access = agent.access,
                                  !.waits = closures \cup {client}]
        BY <1>3, <2>4 DEF Acquire, EndRun, Use, Spawn
      <4>2. process[client].status = "open"
        BY <1>0, <4>1 DEF HeldInv
      <4> QED BY <1>0, <4>1, <4>2 DEF CloseAcpProcess, RunRecords
    <3> QED BY <2>4, <3>1 DEF RunInv, Using, Setup
  <2> QED BY <2>1, <2>2, <2>3, <2>4
<1>4. CASE Retired
  BY <1>0, <1>4, <1>a DEF Retired, Ended, RunInv, Using, Setup
<1>5. CASE LaunchFails \/ StartFailed \/ Answered
  BY <1>5, <1>a DEF LaunchFails, StartFailed, Answered
<1>6. CASE Launched
  <2>1. CASE step' \notin {"idle", "launching", "retiring"}
    BY <1>6, <1>b, <2>1, LaunchedServes
  <2>2. CASE step' \in {"idle", "launching", "retiring"}
    <3>1. ASSUME NEW q \in Processes, NEW ps, Use(q, ps)
          PROVE  FALSE
      <4>1. step' \in {"session", "replacing", "spawning"}
        BY <3>1 DEF Use, Spawn
      <4> QED BY <2>2, <4>1
    <3> QED BY <1>6, <1>a, <3>1 DEF Launched
  <2> QED BY <2>1, <2>2
<1>7. CASE Replaced
  <2>1. CASE step' \notin {"idle", "launching", "retiring"}
    BY <1>7, <1>b, <2>1, ReplacedServes
  <2>2. CASE step' \in {"idle", "launching", "retiring"}
    BY <1>7, <1>a, <2>2 DEF Replaced, Spawn
  <2> QED BY <2>1, <2>2
<1>c. ASSUME step \in Using \ {"replacing"}, step' \in Using \ {"replacing"}, run' = run,
             bridge'[run.bridge].os # "none" \/ bridge'[run.bridge].os = bridge[run.bridge].os,
             bridge'[run.bridge].owner = bridge[run.bridge].owner,
             process'[run.process].status = process[run.process].status
      PROVE  RunInv'
  BY <1>0, <1>c DEF RunInv, Using, Setup
<1>8. CASE Spawned
  <2>1. /\ step \in Using \ {"replacing"} /\ step' \in Using \ {"replacing"} /\ run' = run
        /\ bridge'[run.bridge].os = bridge[run.bridge].os
        /\ bridge'[run.bridge].owner = bridge[run.bridge].owner
        /\ process'[run.process].status = process[run.process].status
    BY <1>8, SpawnedShape DEF Using, Setup
  <2> QED BY <1>c, <2>1
<1>9. CASE SpawnFails
  <2>1. CASE step' = "idle"
    BY <1>9, <1>a, <2>1 DEF SpawnFails, StartFails
  <2>2. CASE step' # "idle"
    <3>1. /\ step \in Using \ {"replacing"} /\ step' \in Using \ {"replacing"} /\ run' = run
          /\ bridge'[run.bridge].os # "none"
          /\ bridge'[run.bridge].owner = bridge[run.bridge].owner
          /\ process'[run.process].status = process[run.process].status
      BY <1>9, <2>2, SpawnFailsShape DEF Using, Setup
    <3> QED BY <1>c, <3>1
  <2> QED BY <2>1, <2>2
<1>10. CASE SessionReady
  <2>1. CASE step' = "idle"
    BY <1>10, <1>a, <2>1 DEF SessionReady, Continue
  <2>2. CASE step' # "idle"
    <3>1. /\ step \in Using \ {"replacing"} /\ step' \in Using \ {"replacing"} /\ run' = run
          /\ bridge'[run.bridge].os = bridge[run.bridge].os
          /\ bridge'[run.bridge].owner = bridge[run.bridge].owner
          /\ process'[run.process].status = process[run.process].status
      BY <1>10, <2>2, ReadyShape DEF Using, Setup
    <3> QED BY <1>c, <3>1
  <2> QED BY <2>1, <2>2
<1>11. CASE Initialized \/ Prompt
  <2>1. CASE step' = "idle"
    BY <1>11, <1>a, <2>1 DEF Initialized, Prompt, Continue
  <2>2. CASE step' # "idle"
    <3>1. /\ step \in Using \ {"replacing"} /\ step' \in Using \ {"replacing"} /\ run' = run
          /\ UNCHANGED <<process, bridge>>
      BY <1>11, <2>2 DEF Initialized, Prompt, Continue, EndRun, Using, Setup
    <3> QED BY <1>c, <3>1
  <2> QED BY <2>1, <2>2
<1>12. CASE RequestFails \/ RequestTimesOut
  <2>1. CASE step' = "idle"
    BY <1>12, <1>a, <2>1 DEF RequestFails, RequestTimesOut, StartFails
  <2>2. CASE step' # "idle"
    <3>1. /\ step = "initializing" /\ step' = "failing" /\ run' = run /\ UNCHANGED process
      BY <1>12, <2>2 DEF RequestFails, RequestTimesOut, StartFails, EndRun
    <3>2. Calm
      BY <1>12, RunCalm DEF CalmRun
    <3>3. /\ step \in Using \ {"replacing"} /\ step' \in Using \ {"replacing"}
      BY <3>1 DEF Using, Setup
    <3> QED BY <1>0, <1>c, <3>1, <3>2, <3>3 DEF Calm, Softer
  <2> QED BY <2>1, <2>2
<1>13. CASE SessionMissing
  BY <1>13, <1>a DEF SessionMissing, RunInv, Using, Setup
<1>14. CASE Recovered
  BY <1>14 DEF Recovered, RunInv, Using, Setup
<1> QED BY <1>1, <1>2, <1>3, <1>4, <1>5, <1>6, <1>7, <1>8, <1>9, <1>10, <1>11, <1>12, <1>13, <1>14
        DEF RunStep

-----------------------------------------------------------------------------
(* The host's close, and one process at a time.                            *)

\* What a run remembers of itself while it goes on: that it was aborted, and which Agent
\* its plan was made for.
LEMMA RunMemory ==
  ASSUME IInv, StartRun \/ RunStep \/ Answered
  PROVE  /\ step' # "idle" => run'.aborted = run.aborted \/ StartRun
         /\ StartRun => step = "idle" /\ host = "open"
         /\ run'.plan \in {0, run.plan, agent.identity}
         /\ step' \in {"retiring", "launching"} =>
              \/ run'.plan = agent.identity /\ run'.access = agent.access
              \/ step = "retiring" /\ run' = run
         /\ step = "idle" => StartRun
<1>0. run \in RunRecords
  BY Facts DEF IInv
<1>a. /\ NoRun.plan = 0
      /\ EndRun => step' = "idle" /\ run'.plan = 0
  BY DEF NoRun, EndRun
<1>b. ASSUME NEW p \in Processes, Serves(p)
      PROVE  /\ run'.aborted = run.aborted /\ run'.plan = run.plan
             /\ step' \notin {"retiring", "launching"}
  BY <1>b DEF Serves
<1>c. /\ StartRun => step = "idle" /\ host = "open"
      /\ RunStep \/ Answered => step # "idle"
  <2>1. RequestFails \/ RequestTimesOut \/ SessionMissing \/ Prompt \/ Initialized \/ SessionReady \/ Answered
          => step # "idle"
    BY DEF RequestFails, RequestTimesOut, SessionMissing, Prompt, Initialized,
           SessionReady, Answered, Request
  <2>2. AwaitClosures \/ Acquire \/ Retired \/ Launched \/ LaunchFails \/ Replaced => step # "idle"
    BY DEF AwaitClosures, Acquire, Retired, Launched, LaunchFails, Replaced
  <2>3. Spawned \/ SpawnFails \/ StartFailed \/ Recovered => step # "idle"
    BY DEF Spawned, SpawnFails, StartFailed, Recovered
  <2>4. StartRun => step = "idle" /\ host = "open"
    BY DEF StartRun
  <2> QED BY <2>1, <2>2, <2>3, <2>4 DEF RunStep
<1> SUFFICES /\ step' # "idle" => run'.aborted = run.aborted \/ StartRun
             /\ run'.plan \in {0, run.plan, agent.identity}
             /\ step' \in {"retiring", "launching"} =>
                  \/ run'.plan = agent.identity /\ run'.access = agent.access
                  \/ step = "retiring" /\ run' = run
  BY <1>c
<1>1. CASE StartRun
  <2>1. run'.plan = 0 /\ step' = "starting"
    BY <1>1 DEF StartRun, NoRun
  <2> QED BY <1>1, <2>1
<1>2. CASE AwaitClosures
  BY <1>0, <1>2, <1>a DEF AwaitClosures, RunRecords
<1>3. CASE Acquire
  <2>1. CASE step' \notin {"idle", "launching", "retiring"}
    BY <1>3, <1>b, <2>1, AcquireServes
  <2>2. CASE step' \in {"idle", "launching", "retiring"}
    <3>1. ~(client # 0 /\ Use(client, process))
      BY <2>2 DEF Use, Spawn
    <3> QED BY <1>0, <1>3, <1>a, <3>1 DEF Acquire, RunRecords
  <2> QED BY <2>1, <2>2
<1>4. CASE Launched
  <2>1. CASE step' \notin {"idle", "launching", "retiring"}
    BY <1>4, <1>b, <2>1, LaunchedServes
  <2>2. CASE step' \in {"idle", "launching", "retiring"}
    <3>1. ASSUME NEW q \in Processes, NEW ps, Use(q, ps)
          PROVE  FALSE
      <4>1. step' \in {"session", "replacing", "spawning"}
        BY <3>1 DEF Use, Spawn
      <4> QED BY <2>2, <4>1
    <3> QED BY <1>4, <1>a, <3>1 DEF Launched
  <2> QED BY <2>1, <2>2
<1>5. CASE Replaced
  <2>1. CASE step' \notin {"idle", "launching", "retiring"}
    BY <1>5, <1>b, <2>1, ReplacedServes
  <2>2. CASE step' \in {"idle", "launching", "retiring"}
    BY <1>5, <1>a, <2>2 DEF Replaced, Spawn
  <2> QED BY <2>1, <2>2
<1>6. CASE Retired \/ LaunchFails \/ StartFailed \/ Answered
  BY <1>6, <1>a DEF Retired, LaunchFails, StartFailed, Answered
<1>7. CASE Spawned \/ SessionReady \/ Initialized \/ Prompt
  BY <1>7, <1>a DEF Spawned, SessionReady, Initialized, Prompt, Continue
<1>8. CASE SpawnFails \/ RequestFails \/ RequestTimesOut
  BY <1>8, <1>a DEF SpawnFails, RequestFails, RequestTimesOut, StartFails, Request,
                    Answers
<1>9. CASE SessionMissing \/ Recovered
  BY <1>0, <1>9, <1>a DEF SessionMissing, Recovered, RunRecords
<1> QED BY <1>1, <1>2, <1>3, <1>4, <1>5, <1>6, <1>7, <1>8, <1>9 DEF RunStep

\* Every step keeps HostInv: nothing is launched once runs are aborted.
LEMMA HostNext ==
  ASSUME IInv, Next
  PROVE  HostInv'
<1>0. HostInv /\ run \in RunRecords /\ RunInv /\ lane \in BOOLEAN
      /\ client \in Processes \cup {0}
      /\ run.aborted \in BOOLEAN /\ host \in {"open", "closing", "ending", "closed"}
  BY Facts DEF IInv, Typed, RunRecords
<1>1. CASE StartRun \/ RunStep \/ Answered
  <2>1. UNCHANGED <<lane, host, taken>>
    BY <1>1, RunFrame
  <2>2. step' # "idle" => run'.aborted = run.aborted \/ StartRun
    BY <1>1, RunMemory
  <2>3. (StartRun => step = "idle" /\ host = "open") /\ (step = "idle" => StartRun)
    BY <1>1, RunMemory
  <2>4. host \in {"ending", "closed"} => client' = 0
    <3>1. SUFFICES ASSUME host \in {"ending", "closed"}
                   PROVE  client' = 0
      OBVIOUS
    <3>2. client = 0 /\ run.aborted
      BY <1>0, <2>3, <3>1 DEF HostInv
    <3>3. ~PlanHolds
      BY <3>2 DEF PlanHolds, ScopeCurrent
    <3> QED BY <1>1, <3>2, <3>3, RunShapes
  <2> QED BY <1>0, <2>1, <2>2, <2>3, <2>4 DEF HostInv
<1>2. CASE BridgeAct
  <2>1. UNCHANGED <<lane, host, taken, client, step, run>>
    BY <1>2, BridgeFrame
  <2> QED BY <1>0, <2>1 DEF HostInv
<1>3. CASE Outside /\ ~HostEndsRuns
  <2>1. /\ client' \in {0, client} /\ UNCHANGED <<step, taken, lane>>
        /\ run.aborted => run'.aborted
    BY <1>0, <1>3, OutsideShapes DEF CloseAcpProcess, RunRecords
  <2>2. \/ host' = host
        \/ /\ host = "open" /\ host' = "closing"
           /\ lane /\ step # "idle" => run'.aborted
        \/ host = "ending" /\ host' = "closed"
    <3>1. CASE HostCloses
      BY <1>0, <3>1 DEF HostCloses, Abort, RunRecords
    <3>2. CASE HostClosed
      BY <3>2 DEF HostClosed
    <3>3. CASE ~HostCloses /\ ~HostClosed
      BY <1>3, <3>3
         DEF Outside, Stop, CloseLanes, ChangeAgent, ChangeFails, ChangeSaved, Interrupt,
             CloseMatching, ChangeDone
    <3> QED BY <3>1, <3>2, <3>3
  <2> QED BY <1>0, <2>1, <2>2 DEF HostInv
<1>4. CASE HostEndsRuns
  <2>1. /\ host = "closing" /\ host' = "ending" /\ client' = 0 /\ step' = step
        /\ run' = IF ~lane /\ step # "idle" /\ ~run.aborted
                  THEN [run EXCEPT !.aborted = TRUE] ELSE run
    BY <1>4 DEF HostEndsRuns
  <2>2. step # "idle" => run'.aborted
    BY <1>0, <2>1 DEF HostInv, RunRecords
  <2> QED BY <2>1, <2>2 DEF HostInv
<1> QED BY <1>1, <1>2, <1>3, <1>4, NextParts

\* Every step keeps OneInv: at "launching" no process is open, none is in closures, and
\* none was taken by close().
LEMMA OneNext ==
  ASSUME IInv, Next
  PROVE  OneInv'
<1>0. OneInv /\ HeldInv /\ RunInv /\ HostInv
  BY DEF IInv
<1>1. overtaken => overtaken'
  BY DEF Next, RunStep, BridgeStep, StartRun, Answered, AwaitClosures, Acquire, Retired,
         Launched, LaunchFails, Replaced, Spawned, SpawnFails, StartFailed, Initialized,
         SessionReady, Prompt, RequestFails, RequestTimesOut, SessionMissing, Recovered,
         Stop, CloseDone, Exit, ForceKill, CleanupDone, EndOfStream, FrameTooLong,
         ChangeAgent, ChangeFails, ChangeSaved, Interrupt, CloseMatching, ChangeDone,
         CloseLanes, HostCloses, HostEndsRuns, HostClosed, unchangedByRun,
         unchangedButBridges
<1>2. CASE CalmRun \/ CalmEnv
  BY <1>1, <1>2, RunCalm, EnvCalm, OneCalm
<1>3. CASE Settling
  BY <1>3, OneOthers
<1>4. ASSUME NEW p \in Processes, Serves(p), process[p].status = "open"
      PROVE  OneInv'
  BY <1>0, <1>1, <1>4 DEF OneInv, Serves
<1>5. CASE step' \notin {"idle", "launching", "retiring"} /\ (Acquire \/ Replaced)
  BY <1>4, <1>5, AcquireServes, ReplacedServes, Facts
<1>6. CASE step' \notin {"idle", "launching", "retiring"} /\ Launched
  <2>1. PICK p \in Processes : process[p].status = "none" /\ Serves(p)
    BY <1>6, LaunchedServes
  <2>2. step = "launching" /\ ~run.aborted /\ client = 0
    BY <1>0, <1>6, LaunchedServes DEF PlanHolds, ScopeCurrent, RunInv
  <2>3. taken = 0 /\ (~overtaken => closures = {})
    BY <1>0, <2>2, Facts DEF HostInv, RunInv, Typed
  <2>4. ~overtaken => \A q \in Processes : process[q].status \notin {"open", "closing"}
    BY <1>0, <2>2, <2>3, Ids DEF HeldInv
  <2> QED BY <1>1, <2>1, <2>4 DEF OneInv, Serves
<1> QED BY <1>2, <1>3, <1>5, <1>6, Classes

-----------------------------------------------------------------------------
(* Access.                                                                 *)

\* A number the Agent or a plan carries is that of a change that was made.
Known == \A i \in {agent.identity, previous.identity, run.plan} : i # 0 => change[i].stage # "none"

\* The plan for the Agent of now carries its access.
Planned == step \in {"retiring", "launching"} /\ run.plan = agent.identity => run.access = agent.access

\* Change m has still to close process p, whose access is not the Agent's.
Answering(m, p) ==
  /\ Pending(m)
  /\ \/ change[m].kind = "remove"
     \/ /\ agent.present /\ change[m].kind = "access"
        /\ change[m].stage = "interrupting" \/ change[m].before = process[p].access

\* When the open process is not the Agent's any more some change has still to close it.
AccessOwed ==
  client # 0 /\ (~agent.present \/ process[client].access # agent.access)
    => \E m \in Changes : Answering(m, client)

\* AccessInv is these parts, before a step and after it.
LEMMA AccessParts ==
  /\ AccessInv <=> Known /\ (~undone => Planned /\ AccessOwed)
  /\ AccessInv' <=> Known' /\ (~undone' => Planned' /\ AccessOwed')
<1>1. AccessInv <=> Known /\ (~undone => Planned /\ AccessOwed)
  BY DEF AccessInv, Known, Planned, AccessOwed, Answering
<1>2. AccessInv' <=> Known' /\ (~undone' => Planned' /\ AccessOwed')
  BY DEF AccessInv, Known, Planned, AccessOwed, Answering, Pending
<1> QED BY <1>1, <1>2

\* A process keeps its access from its launch on.
LEMMA AccessKept ==
  ASSUME IInv, Next, NEW p \in Processes, process[p].status # "none"
  PROVE  process'[p].access = process[p].access
<1>0. bridge \in [Bridges -> BridgeRecords] /\ process \in [Processes -> ProcessRecords]
  BY Facts
<1>1. CASE CalmRun \/ CalmEnv
  BY <1>1, RunCalm, EnvCalm DEF Calm
<1>2. CASE Settling
  <2>1. ASSUME NEW q \in Processes, CloseDone(q)
        PROVE  SameBut(q)
    BY <2>1, CloseDoneShape
  <2>2. ASSUME NEW b \in Bridges, Exit(b)
        PROVE  bridge[b].owner \in Processes /\ SameBut(bridge[b].owner)
    BY <2>2, ExitShape
  <2>3. ASSUME NEW b \in Bridges, CleanupDone(b)
        PROVE  process' = process \/ (bridge[b].owner \in Processes /\ SameBut(bridge[b].owner))
    BY <2>3, CleanupShape
  <2>4. SpawnFails => process' = process
    BY SpawnFailsShape
  <2>5. Spawned \/ SessionReady => run.process \in Processes /\ SameBut(run.process)
    BY SpawnedShape, ReadyShape
  <2> QED BY <1>2, <2>1, <2>2, <2>3, <2>4, <2>5 DEF Settling, SameBut
<1>3. CASE step' \notin {"idle", "launching", "retiring"} /\ Acquire
  BY <1>3, AcquireServes DEF Serves
<1>4. CASE step' \notin {"idle", "launching", "retiring"} /\ Launched
  BY <1>4, LaunchedServes DEF Serves
<1>5. CASE step' \notin {"idle", "launching", "retiring"} /\ Replaced
  BY <1>5, ReplacedServes DEF Serves
<1> QED BY <1>1, <1>2, <1>3, <1>4, <1>5, Classes

\* Every step keeps Known.
LEMMA KnownNext ==
  ASSUME IInv, Next
  PROVE  Known'
<1>0. /\ Known /\ change \in [Changes -> ChangeRecords] /\ run \in RunRecords
      /\ agent.identity \in Changes \cup {0} /\ previous.identity \in Changes \cup {0}
      /\ run.plan \in Changes \cup {0}
  BY AccessParts DEF IInv, Typed, RunRecords, Agents
<1>1. CASE StartRun \/ RunStep \/ Answered
  BY <1>0, <1>1, RunFrame, RunMemory DEF Known
<1>2. CASE BridgeAct
  BY <1>0, <1>2, BridgeFrame DEF Known
<1>3. CASE Outside
  <2>1. run'.plan = run.plan
    BY <1>0, <1>3, OutsideShapes DEF HostEndsRuns, RunRecords
  <2>2. CASE \E m \in Changes : ChangeAgent(m)
    <3>1. PICK m \in Changes : ChangeAgent(m)
      BY <2>2
    <3>2. /\ agent'.identity = m /\ previous' = agent /\ change'[m].stage = "saving"
          /\ \A n \in Changes \ {m} : change'[n] = change[n]
      BY <1>0, <3>1 DEF ChangeAgent
    <3> QED BY <1>0, <2>1, <3>2 DEF Known
  <2>3. CASE ~\E m \in Changes : ChangeAgent(m)
    <3>a. agent' \in {agent, previous} /\ previous' \in {agent, previous}
      BY <1>3, <2>3
         DEF Outside, Stop, CloseLanes, HostCloses, HostEndsRuns, HostClosed, ChangeFails,
             ChangeSaved, Interrupt, CloseMatching, ChangeDone
    <3>b. ASSUME NEW n \in Changes,
                 ChangeFails(n) \/ ChangeSaved(n) \/ Interrupt(n) \/ CloseMatching(n) \/ ChangeDone(n)
          PROVE  change'[n].stage # "none" /\ \A m \in Changes \ {n} : change'[m] = change[m]
      <4>1. Done(change[n]).stage = "done"
        BY <1>0 DEF Done, ChangeRecords
      <4>2. CASE ChangeFails(n) \/ ChangeSaved(n)
        BY <1>0, <4>2 DEF ChangeFails, ChangeSaved, ChangeRecords
      <4>3. CASE Interrupt(n) \/ CloseMatching(n) \/ ChangeDone(n)
        BY <1>0, <4>1, <4>3 DEF Interrupt, CloseMatching, ChangeDone, ChangeRecords
      <4> QED BY <3>b, <4>2, <4>3
    <3>c. UNCHANGED change \/ \E n \in Changes :
             ChangeFails(n) \/ ChangeSaved(n) \/ Interrupt(n) \/ CloseMatching(n) \/ ChangeDone(n)
      BY <1>3, <2>3 DEF Outside, Stop, CloseLanes, HostCloses, HostEndsRuns, HostClosed
    <3>1. /\ agent' \in {agent, previous} /\ previous' \in {agent, previous}
          /\ \A m \in Changes : change[m].stage # "none" => change'[m].stage # "none"
      BY <3>a, <3>b, <3>c
    <3> QED BY <1>0, <2>1, <3>1 DEF Known
  <2> QED BY <2>2, <2>3
<1> QED BY <1>1, <1>2, <1>3, NextParts

\* Every step but the undoing of a change keeps Planned: a change gives the Agent an identity
\* no plan has.
LEMMA PlannedNext ==
  ASSUME IInv, Next, ~undone'
  PROVE  ~undone /\ Planned'
<1>0. /\ Known /\ (~undone => Planned) /\ change \in [Changes -> ChangeRecords] /\ run \in RunRecords
  BY AccessParts DEF IInv, Typed
<1>1. CASE StartRun \/ RunStep \/ Answered
  BY <1>0, <1>1, RunFrame, RunMemory DEF Planned
<1>2. CASE BridgeAct
  BY <1>0, <1>2, BridgeFrame DEF Planned
<1>3. CASE Outside
  <2>1. run'.plan = run.plan /\ run'.access = run.access /\ step' = step
    BY <1>0, <1>3, OutsideShapes DEF HostEndsRuns, RunRecords
  <2>2. ~undone
    BY <1>3
       DEF Outside, Stop, CloseLanes, HostCloses, HostEndsRuns, HostClosed, ChangeAgent,
           ChangeFails, ChangeSaved, Interrupt, CloseMatching, ChangeDone
  <2>3. agent' = agent \/ agent'.identity # run.plan
    <3>1. ASSUME NEW m \in Changes, ChangeAgent(m)
          PROVE  agent'.identity # run.plan
      <4>1. agent'.identity = m /\ change[m].stage = "none" /\ m # 0
        BY <3>1, Ids DEF ChangeAgent
      <4> QED BY <1>0, <4>1 DEF Known
    <3> QED BY <1>3, <3>1
               DEF Outside, Stop, CloseLanes, HostCloses, HostEndsRuns, HostClosed,
                   ChangeFails, ChangeSaved, Interrupt, CloseMatching, ChangeDone
  <2> QED BY <1>0, <2>1, <2>2, <2>3 DEF Planned
<1> QED BY <1>1, <1>2, <1>3, NextParts

\* A change that answers for the open process goes on doing so until the process is closed.
LEMMA AnsweringKept ==
  ASSUME IInv, Outside, ~undone', NEW m \in Changes, Answering(m, client), client # 0, client' = client,
         process'[client].access = process[client].access,
         ~agent.present \/ process[client].access # agent.access, agent' = agent,
         ~\E n \in Changes : ChangeAgent(n)
  PROVE  Answering(m, client)'
<1>0. change \in [Changes -> ChangeRecords] /\ client \in Processes /\ process[client].status = "open"
  BY Facts DEF IInv, Typed, HeldInv
<1>1. CASE UNCHANGED change
  BY <1>1 DEF Answering, Pending
<1>2. ASSUME NEW n \in Changes, ChangeSaved(n)
      PROVE  Answering(m, client)'
  BY <1>0, <1>2 DEF ChangeSaved, Answering, Pending, ChangeRecords
<1>3. ASSUME NEW n \in Changes, Interrupt(n)
      PROVE  Answering(m, client)'
  BY <1>0, <1>3 DEF Interrupt, NothingToApply, Answering, Pending, ChangeRecords, Done
<1>4. ASSUME NEW n \in Changes, CloseMatching(n)
      PROVE  Answering(m, client)'
  <2>1. ~Mismatched(n)
    BY <1>4 DEF CloseMatching, CloseAcpProcess
  <2>2. m # n
    BY <1>4, <2>1 DEF CloseMatching, Mismatched, Answering
  <2>3. change'[m] = change[m]
    BY <1>0, <1>4, <2>1, <2>2 DEF CloseMatching
  <2> QED BY <2>3 DEF Answering, Pending
<1>5. ASSUME NEW n \in Changes, ChangeDone(n)
      PROVE  Answering(m, client)'
  BY <1>0, <1>5 DEF ChangeDone, Answering, Pending, ChangeRecords, Done
<1>6. ASSUME NEW n \in Changes, ChangeFails(n)
      PROVE  FALSE
  BY <1>6 DEF ChangeFails
<1> QED BY <1>1, <1>2, <1>3, <1>4, <1>5, <1>6
           DEF Outside, Stop, CloseLanes, HostCloses, HostEndsRuns, HostClosed

\* Every step but the undoing of a change keeps AccessOwed.
LEMMA AnsweredNext ==
  ASSUME IInv, Next, ~undone'
  PROVE  AccessOwed'
<1>0. /\ ~undone /\ Planned /\ AccessOwed /\ change \in [Changes -> ChangeRecords]
      /\ HeldInv
      /\ client \in Processes \cup {0} /\ agent \in Agents
      /\ process \in [Processes -> ProcessRecords]
  BY AccessParts, PlannedNext, Facts DEF IInv, Typed
<1>1. CASE client' = 0
  BY <1>1 DEF AccessOwed
<1>2. CASE client' # 0 /\ client' = client
  <2>1. client \in Processes /\ process'[client].access = process[client].access
    BY <1>0, <1>2, AccessKept DEF HeldInv
  <2>2. CASE UNCHANGED <<agent, change>>
    BY <1>0, <1>2, <2>1, <2>2 DEF AccessOwed, Answering, Pending
  <2>3. CASE Outside /\ \E m \in Changes : ChangeAgent(m)
    <3>1. PICK m \in Changes : ChangeAgent(m)
      BY <2>3
    <3>2. /\ change[m].stage = "none" /\ previous' = agent
          /\ \A n \in Changes \ {m} : change'[n] = change[n]
      BY <1>0, <3>1 DEF ChangeAgent
    <3>3. PICK kind \in IF agent.present THEN {"access", "remove"} ELSE {"add"} :
             /\ change'[m] = [kind |-> kind, stage |-> "saving", before |-> agent.access, waits |-> {}]
             /\ agent' = [present |-> kind # "remove",
                          access |-> kind = "access" /\ ~agent.access, identity |-> m]
      BY <1>0, <3>1 DEF ChangeAgent
    <3>4. CASE kind = "remove"
      BY <3>3, <3>4 DEF AccessOwed, Answering, Pending
    <3>5. CASE kind = "access"
      <4>1. /\ change'[m].kind = "access" /\ change'[m].stage = "saving"
            /\ change'[m].before = agent.access
        BY <3>3, <3>5
      <4>a. agent' = [present |-> kind # "remove", access |-> kind = "access" /\ ~agent.access, identity |-> m]
        BY <3>3
      <4>b. agent'.present
        BY <3>5, <4>a, Zenon
      <4>c. agent'.access = (kind = "access" /\ ~agent.access)
        BY <4>a, Zenon
      <4>d. process'[client].access \in BOOLEAN /\ agent.access \in BOOLEAN
        BY <1>0, <2>1 DEF ProcessRecords, Agents
      <4>2. process'[client].access # agent'.access => process'[client].access = agent.access
        BY <3>5, <4>c, <4>d
      <4> QED BY <1>2, <4>1, <4>b, <4>2 DEF AccessOwed, Answering, Pending
    <3>6. CASE kind = "add"
      <4>1. ~agent.present
        BY <3>6
      <4>2. PICK n \in Changes : Pending(n) /\ change[n].kind = "remove"
        BY <1>0, <1>2, <4>1 DEF AccessOwed, Answering
      <4>3. n # m
        BY <3>2, <4>2 DEF Pending
      <4>4. Pending(n)' /\ change'[n].kind = "remove"
        BY <3>2, <4>2, <4>3 DEF Pending
      <4> QED BY <4>4 DEF AccessOwed, Answering
    <3> QED BY <3>3, <3>4, <3>5, <3>6
  <2>4. CASE Outside /\ ~\E m \in Changes : ChangeAgent(m)
    <3>1. agent' = agent
      BY <1>0, <2>4
         DEF Outside, Stop, CloseLanes, HostCloses, HostEndsRuns, HostClosed, ChangeFails,
             ChangeSaved, Interrupt, CloseMatching, ChangeDone
    <3>2. SUFFICES ASSUME ~agent.present \/ process[client].access # agent.access
                   PROVE  \E m \in Changes : Answering(m, client)'
      BY <1>2, <2>1, <3>1 DEF AccessOwed, Answering
    <3>3. PICK m \in Changes : Answering(m, client)
      BY <1>0, <1>2, <3>2 DEF AccessOwed
    <3> QED BY <1>0, <1>2, <2>1, <2>4, <3>1, <3>2, <3>3, AnsweringKept
  <2> QED BY <2>2, <2>3, <2>4, NextParts, RunFrame, BridgeFrame
<1>3. CASE client' # 0 /\ client' # client
  <2>1. ~BridgeAct /\ ~Outside
    BY <1>3, BridgeFrame, OutsideShapes DEF CloseAcpProcess, HostEndsRuns
  <2>2. StartRun \/ RunStep \/ Answered
    BY <2>1, NextParts
  <2>3. step = "launching" /\ PlanHolds /\ process'[client'].access = run.access
    BY <1>3, <2>2, RunShapes
  <2>4. run.access = agent.access /\ agent.present /\ UNCHANGED <<agent, change>>
    BY <1>0, <2>2, <2>3, RunFrame DEF PlanHolds, Planned
  <2> QED BY <2>3, <2>4 DEF AccessOwed
<1> QED BY <1>1, <1>2, <1>3

\* Every step keeps AccessInv.
LEMMA AccessNext ==
  ASSUME IInv, Next
  PROVE  AccessInv'
BY KnownNext, PlannedNext, AnsweredNext, AccessParts

-----------------------------------------------------------------------------
(* The invariant holds, and what follows from it.                          *)

\* The invariant holds initially.
LEMMA InitInv == Init => IInv
<1> SUFFICES ASSUME Init
             PROVE  IInv
  OBVIOUS
<1>1. MaxEphemeral \in Nat \ {0}
  BY Ids
<1>2. PICK mix \in Mixes : bound = mix /\ lane = mix.lane
  BY DEF Init
<1>3. lane \in BOOLEAN
  BY <1>2, BoundAssumption
<1>4. /\ agent = [present |-> TRUE, access |-> FALSE, identity |-> 0] /\ previous = agent
      /\ change = [m \in Changes |-> [kind |-> "none", stage |-> "none", before |-> FALSE, waits |-> {}]]
      /\ process = [p \in Processes |-> [status |-> "none", access |-> FALSE, sessions |-> 0,
                                         child |-> 0, connection |-> 0, loaded |-> FALSE]]
      /\ bridge = [b \in Bridges |-> [os |-> "none", owner |-> 0, link |-> "none",
                                      cleanup |-> "none", session |-> FALSE]]
      /\ client = 0 /\ closures = {} /\ taken = 0 /\ step = "idle" /\ run = NoRun
      /\ active = FALSE
      /\ host = "open" /\ undone = FALSE /\ overtaken = FALSE
  BY DEF Init
<1>5. Typed
  <2>1. run \in RunRecords
    BY <1>4 DEF NoRun, RunRecords
  <2>2. agent \in Agents /\ previous \in Agents /\ change \in [Changes -> ChangeRecords]
    BY <1>4 DEF Agents, ChangeRecords
  <2>3. process \in [Processes -> ProcessRecords]
    BY <1>4 DEF ProcessRecords
  <2>4. bridge \in [Bridges -> BridgeRecords]
    BY <1>4 DEF BridgeRecords
  <2>5. step \in Steps
    BY <1>4 DEF Steps
  <2> QED BY <1>3, <1>4, <2>1, <2>2, <2>3, <2>4, <2>5 DEF Typed
<1>6. /\ \A p \in Processes : /\ process[p].status = "none" /\ process[p].child = 0 /\ process[p].connection = 0
                              /\ process[p].sessions = 0 /\ ~process[p].loaded
      /\ \A b \in Bridges : bridge[b].os = "none" /\ bridge[b].cleanup = "none"
  BY <1>4
<1>7. OwnInv /\ LinkInv /\ LoadedInv
  BY <1>4, <1>6 DEF OwnInv, Owns, LinkInv, LoadedInv, Conversing
<1>8. HeldInv /\ OneInv /\ Rotating
  BY <1>1, <1>4, <1>6, Ids DEF HeldInv, OneInv, Rotating
<1>9. RunInv /\ HostInv
  BY <1>4 DEF RunInv, HostInv, Using, Setup
<1>10. AccessInv
  BY <1>4 DEF AccessInv, NoRun
<1> QED BY <1>5, <1>7, <1>8, <1>9, <1>10 DEF IInv

\* The steps that begin to use a process keep the parts about processes and bridges,
LEMMA ServingNext ==
  ASSUME IInv, step' \notin {"idle", "launching", "retiring"}, Acquire \/ Launched \/ Replaced
  PROVE  OwnInv' /\ LinkInv' /\ LoadedInv' /\ Rotating'
<1>1. \E p \in Processes : Serves(p)
  BY AcquireServes, LaunchedServes, ReplacedServes
<1>2. step \in {"waiting", "launching", "replacing"}
  BY AcquireServes, LaunchedServes, ReplacedServes
<1> QED BY <1>1, <1>2, OwnServes, LinkServes

\* and so does every step.
LEMMA BridgesNext ==
  ASSUME IInv, Next
  PROVE  OwnInv' /\ LinkInv' /\ LoadedInv' /\ Rotating'
<1>1. CASE CalmRun
  BY <1>1, RunCalm, OwnCalm, LinkCalm, LoadedCalm, RotatingCalm
<1>2. CASE CalmEnv
  <2>1. Calm /\ RunMoves
    BY <1>2, EnvCalm DEF RunMoves
  <2> QED BY <2>1, OwnCalm, LinkCalm, LoadedCalm, RotatingCalm
<1>3. CASE Settling
  BY <1>3, OwnOthers, LinkOthers, RotatingOthers
<1> QED BY <1>1, <1>2, <1>3, Classes, ServingNext

\* Every step keeps RunInv.
LEMMA RunInvNext ==
  ASSUME IInv, Next
  PROVE  RunInv'
BY NextParts, RunInvOutside, RunInvRun

\* A step that changes nothing keeps the invariant.
LEMMA StutterInv ==
  ASSUME IInv, UNCHANGED vars
  PROVE  IInv'
<1>1. UNCHANGED <<lane, agent, previous, change, client, closures, process, bridge, step, run, active,
                  host, taken, undone, overtaken>>
  BY DEF vars
<1>2. Typed' /\ OwnInv' /\ HeldInv'
  BY <1>1 DEF IInv, Typed, OwnInv, Owns, HeldInv
<1>3. RunInv' /\ HostInv' /\ OneInv'
  BY <1>1 DEF IInv, RunInv, HostInv, OneInv
<1>4. LinkInv' /\ LoadedInv' /\ Rotating' /\ AccessInv'
  BY <1>1 DEF IInv, LinkInv, LoadedInv, Rotating, AccessInv, Pending
<1> QED BY <1>2, <1>3, <1>4 DEF IInv

\* The invariant holds in every state of every behaviour of the scope.
THEOREM Invariance == Spec => []IInv
<1>1. Init => IInv
  BY InitInv
<1>2. IInv /\ [Next]_vars => IInv'
  <2>1. ASSUME IInv, Next
        PROVE  IInv'
    BY <2>1, TypedNext, BridgesNext, HeldNext, RunInvNext, HostNext, OneNext, AccessNext
       DEF IInv
  <2> QED BY <2>1, StutterInv
<1> QED BY <1>1, <1>2, PTL DEF Spec

\* A running bridge is the child of a process that is not closed, and of the open one unless
\* it was told to stop.
LEMMA UpOwner ==
  ASSUME IInv, NEW b \in Bridges, bridge[b].os = "up"
  PROVE  /\ bridge[b].owner \in Processes /\ process[bridge[b].owner].child = b
         /\ process[bridge[b].owner].status \in {"open", "closing"}
         /\ bridge[b].cleanup = "none" => bridge[b].owner = client
<1>1. bridge[b].owner \in Processes /\ process[bridge[b].owner].child = b /\ b # 0
  BY Ids DEF IInv, OwnInv
<1>2. process[bridge[b].owner].status \in {"none", "open", "closing", "closed"}
  BY <1>1, Facts DEF ProcessRecords
<1>3. process[bridge[b].owner].status \in {"open", "closing"}
  BY <1>1, <1>2 DEF IInv, OwnInv
<1>4. bridge[b].cleanup = "none" => process[bridge[b].owner].status = "open"
  BY <1>1, <1>3 DEF IInv, OwnInv
<1> QED BY <1>1, <1>3, <1>4 DEF IInv, HeldInv

\* With one process that is not closed there is one running bridge.
LEMMA InvOneBridge == IInv => OneBridge
<1> SUFFICES ASSUME IInv, ~overtaken
             PROVE  Cardinality({b \in Bridges : bridge[b].os = "up"}) <= 1
  BY DEF OneBridge
<1> DEFINE Up == {b \in Bridges : bridge[b].os = "up"}
<1>1. \A b, c \in Up : b = c
  <2>1. SUFFICES ASSUME NEW b \in Up, NEW c \in Up
                 PROVE  b = c
    OBVIOUS
  <2>2. bridge[b].owner = bridge[c].owner
    BY UpOwner DEF IInv, OneInv
  <2> QED BY <2>2, UpOwner
<1>2. CASE Up = {}
  <2>1. Cardinality(Up) = 0
    BY <1>2, FS_EmptySet
  <2> QED BY <2>1
<1>3. CASE Up # {}
  <2>1. PICK b \in Up : TRUE
    BY <1>3
  <2>2. Up = {b}
    BY <1>1, <2>1
  <2>3. Cardinality(Up) = 1
    BY <2>2, FS_Singleton
  <2> QED BY <2>3
<1> QED BY <1>2, <1>3

\* The invariant has the run's type invariant as a part.
LEMMA InvTypeOK == IInv => TypeOK
<1> SUFFICES ASSUME IInv
             PROVE  TypeOK
  OBVIOUS
<1>1. Typed /\ HeldInv /\ RunInv
  BY DEF IInv
<1>2. \A p \in Processes :
         /\ process[p].status \in {"none", "open", "closing", "closed"}
         /\ process[p].child \in Bridges \cup {0}
         /\ process[p].connection \in Bridges \cup {0}
  BY <1>1 DEF Typed, ProcessRecords
<1>3. \A b \in Bridges : bridge[b].os \in {"none", "up", "gone"}
  BY <1>1 DEF Typed, BridgeRecords
<1>4. closures \subseteq {p \in Processes : process[p].status = "closing"}
  BY <1>1 DEF Typed, HeldInv
<1>5. client # 0 => process[client].status = "open"
  BY <1>1 DEF Typed, HeldInv
<1> QED BY <1>1, <1>2, <1>3, <1>4, <1>5 DEF Typed, RunInv, TypeOK

\* ProcessesConsistent, for any number of runs, changes, faults and ephemeral sessions: a
\* scope never has two running bridges (acquireAcpProcess, closeAcpProcess), what a process
\* believes loaded is loaded in the bridge it is connected to (#clearConnectionState), and an
\* inference process is replaced when it has served its share.
THEOREM ProcessesTheorem == Spec => []ProcessesConsistent
<1>1. IInv => LoadedIsTrue
  BY DEF IInv, LoadedInv, LoadedIsTrue
<1>2. IInv => LanesRotate
  BY DEF IInv, Rotating, LanesRotate
<1>3. IInv => ProcessesConsistent
  BY <1>1, <1>2, InvOneBridge, InvTypeOK DEF ProcessesConsistent
<1> QED BY <1>3, Invariance, PTL

\* NoOrphan: a bridge that runs and was not told to stop is the child of the process in
\* acpProcesses, so that nothing outlives close().
THEOREM NoOrphanTheorem == Spec => []NoOrphan
<1>1. IInv => NoOrphan
  <2>1. SUFFICES ASSUME IInv, NEW b \in Bridges, bridge[b].os = "up", bridge[b].cleanup = "none"
                 PROVE  host # "closed" /\ bridge[b].owner = client
    BY DEF NoOrphan
  <2>2. bridge[b].owner = client /\ client \in Processes
    BY <2>1, UpOwner
  <2>3. host # "closed"
    BY <2>1, <2>2, Ids DEF IInv, HostInv
  <2> QED BY <2>2, <2>3
<1> QED BY <1>1, Invariance, PTL

\* AccessApplied: when every change of the Agent is answered, a turn goes on only in a process
\* with the Agent's access (interrupt, closeAcpProcessesMatching, the plan's identity).
THEOREM AccessTheorem == Spec => []AccessApplied
<1>1. IInv => AccessApplied
  <2>1. SUFFICES ASSUME IInv, \A m \in Changes : change[m].stage \in {"none", "done"}, step = "prompting",
                        ~undone, bridge[run.bridge].link # "closed"
                 PROVE  process[run.process].access = agent.access
    BY DEF AccessApplied
  <2>2. run.process \in Processes /\ run.bridge \in Bridges
    BY <2>1, Facts DEF Using
  <2>3. bridge[run.bridge].link = "open"
    <3>1. bridge[run.bridge].link \in {"none", "open", "closed"}
      BY <2>1, <2>2, Facts DEF BridgeRecords
    <3>2. bridge[run.bridge].link # "none"
      BY <2>1 DEF IInv, LinkInv, Conversing
    <3> QED BY <2>1, <3>1, <3>2
  <2>4. process[run.process].status = "open"
    BY <2>1, <2>3 DEF IInv, LinkInv, Conversing
  <2>5. run.process = client /\ client # 0
    BY <2>1, <2>2, <2>4, Ids DEF IInv, HeldInv
  <2>6. AccessOwed
    BY <2>1, AccessParts DEF IInv
  <2>7. \A m \in Changes : ~Answering(m, client)
    BY <2>1 DEF Answering, Pending
  <2> QED BY <2>5, <2>6, <2>7 DEF AccessOwed
<1> QED BY <1>1, Invariance, PTL

===============================================================================
