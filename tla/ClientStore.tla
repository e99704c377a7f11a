------------------------------ MODULE ClientStore ------------------------------
(***************************************************************************)
(* The browser's copy of the workspace.  CommonspaceClientStore shows one  *)
(* bootstrap, and four things write it: the refresh in flight (at most     *)
(* one), the answers of the other requests, the event stream, and its      *)
(* reconnection.  They arrive in any order.  A state revision orders the   *)
(* states; routing has no revision, so the store counts the invalidations  *)
(* it has seen (routingGeneration); activities have neither.               *)
(*                                                                         *)
(* The host is modelled as far as the store can tell it apart: a state     *)
(* change raises the revision before it is persisted and is broadcast      *)
(* after; a persist that rejects puts the previous state, with its lower   *)
(* revision, back.  A document is a number, each one given out once.       *)
(***************************************************************************)
EXTENDS Naturals, Integers, Sequences

CONSTANTS
    Requests,      \* the requests of this browser, each sent once
    Mixes          \* what an execution may contain, one record each:
                   \*   kind     what each request asks; "none" is never sent
                   \*   bound    how often each of these may happen:
                   \*   foreign  changes made elsewhere (other tabs)
                   \*   runs     Agent runs, 0 or 1
                   \*   routing  routing changes made elsewhere
                   \*   rejects  persists that reject
                   \*   drops    losses of the event stream
                   \*   lost     requests that fail in the network

Kinds   == {"mutate", "remove-agent", "state", "void", "routing", "none"}
Sources == {"foreign", "runs", "routing", "rejects", "drops", "lost"}

ASSUME MixesAssumption ==
    /\ Requests \cap {"no", "foreign", "run"} = {}
    /\ \A mix \in Mixes :
         /\ mix.kind \in [Requests -> Kinds]
         /\ mix.bound \in [Sources -> Nat]

VARIABLES
    \* the host
    server,       \* the host: [rev, doc, routing, act]: what bootstrap() would answer
    saving,       \* who is persisting: "no", "foreign", "run" or a request
    before,       \* the document a rejecting persist puts back
    docs,         \* documents given out
    undone,       \* documents that were put back
    run,          \* one Agent run: "idle", "working", "ended", "recorded"
    \* the browser
    boot,         \* snapshot.bootstrap
    refresh,      \* refreshPromise: [phase, gen, body]
    succeeded,    \* refreshSucceeded of the last refresh that ended
    pendingRevision, pendingConfiguration, pendingAct,
    generation,   \* routingGeneration
    stream,       \* the events on their way, or Closed
    request,      \* [phase, gen, body] of each request
    kind,         \* what each request asks
    wrote,        \* the document each request's change made
    budget        \* what is left of the bounds

hostVars   == <<server, saving, before, docs, undone, run>>
pending    == <<pendingRevision, pendingConfiguration, pendingAct>>
clientVars == <<boot, refresh, succeeded, pending, generation>>
asked      == <<request, kind, wrote>>
storeVars  == <<hostVars, clientVars, stream, asked, budget>>

None     == -1
NoBoot   == [rev |-> None, doc |-> None, routing |-> None, act |-> None]
Idle     == [phase |-> "idle", gen |-> None, body |-> NoBoot]
Closed   == <<[type |-> "closed", value |-> None]>>
Event(type, value) == [type |-> type, value |-> value]
Live     == stream # Closed
Changing == {"mutate", "remove-agent", "state", "void"}

\* Revisions never overtake the documents: a rejecting persist takes its own back.
Versions == None..docs
Boots    == [rev : Versions, doc : Versions, routing : Nat \cup {None}, act : None..2]
Phases   == {"idle", "sent", "saved", "answered", "done", "failed"}

ClientTypeOK ==
    /\ server \in Boots /\ boot \in Boots
    /\ saving \in {"no", "foreign", "run"} \cup Requests
    /\ before \in 0..docs /\ undone \subseteq 1..docs
    /\ run \in {"idle", "working", "ended", "recorded"}
    /\ refresh.phase \in Phases
    /\ succeeded \in BOOLEAN /\ pendingConfiguration \in BOOLEAN
    /\ pendingRevision \in Versions /\ pendingAct \in None..2
    /\ generation \in Nat
    /\ \A q \in Requests : request[q].phase \in Phases /\ request[q].body \in Boots
    /\ kind \in [Requests -> Kinds]
    /\ wrote \in [Requests -> 0..docs]

ClientInit ==
    /\ server = [rev |-> 0, doc |-> 0, routing |-> 0, act |-> 0]
    /\ saving = "no" /\ before = 0 /\ docs = 0 /\ undone = {} /\ run = "idle"
    /\ boot = NoBoot /\ refresh = Idle /\ succeeded = TRUE
    /\ pendingRevision = None /\ pendingConfiguration = FALSE /\ pendingAct = None
    /\ generation = 0
    /\ stream = Closed
    /\ request = [q \in Requests |-> Idle]
    /\ wrote = [q \in Requests |-> 0]
    /\ \E mix \in Mixes : kind = mix.kind /\ budget = mix.bound

-----------------------------------------------------------------------------
(* The host, seen through its API.                                         *)

Spend(what) == budget[what] > 0 /\ budget' = [budget EXCEPT ![what] = @ - 1]

\* The listeners of an open stream write to it; without one nothing is kept.
Broadcast(events) == stream' = IF Live THEN stream \o events ELSE stream

\* withStateChange edits this.state, which every reader sees, and persists.
BeginChange(who) ==
    /\ saving = "no"
    /\ saving' = who
    /\ before' = server.doc
    /\ docs' = docs + 1
    /\ server' = [server EXCEPT !.rev = @ + 1, !.doc = docs + 1]
    /\ UNCHANGED <<undone, run, stream>>

ForeignChange ==
    /\ Spend("foreign")
    /\ BeginChange("foreign")
    /\ UNCHANGED <<clientVars, asked>>

\* A run records its reply once its activity has ended, and again when that
\* persist rejected.
RunRecords ==
    /\ run = "ended"
    /\ BeginChange("run")
    /\ UNCHANGED <<clientVars, asked, budget>>

BeginRequest(q) ==
    /\ request[q].phase = "sent" /\ kind[q] \in Changing
    /\ BeginChange(q)
    /\ wrote' = [wrote EXCEPT ![q] = docs + 1]
    /\ UNCHANGED <<clientVars, request, kind, budget>>

\* The persist resolves and the revision is broadcast.  Removing the Agent
\* that does inference also removes the saved routing selection.
Commit ==
    /\ saving # "no"
    /\ saving' = "no"
    /\ run' = IF saving = "run" THEN "recorded" ELSE run
    /\ request' = [q \in Requests |->
           IF q = saving THEN [request[q] EXCEPT !.phase = "saved"] ELSE request[q]]
    /\ LET removes == saving \in Requests /\ kind[saving] = "remove-agent" IN
         /\ server' = [server EXCEPT !.routing = IF removes THEN @ + 1 ELSE @]
         /\ Broadcast((IF removes THEN <<Event("routing-changed", None)>> ELSE <<>>)
                      \o <<Event("revision", server.rev)>>)
    /\ UNCHANGED <<before, docs, undone, clientVars, kind, wrote, budget>>

\* The persist rejects: the previous state is back and nobody is told.
RejectChange ==
    /\ saving # "no"
    /\ Spend("rejects")
    /\ saving' = "no"
    /\ server' = [server EXCEPT !.rev = @ - 1, !.doc = before]
    /\ undone' = undone \cup {server.doc}
    /\ request' = [q \in Requests |->
           IF q = saving THEN [request[q] EXCEPT !.phase = "failed"] ELSE request[q]]
    /\ UNCHANGED <<before, docs, run, clientVars, stream, kind, wrote>>

\* updateRoutingConfiguration, asked by another tab or by q.
RoutingChange ==
    /\ Spend("routing")
    /\ server' = [server EXCEPT !.routing = @ + 1]
    /\ Broadcast(<<Event("routing-changed", None)>>)
    /\ UNCHANGED <<saving, before, docs, undone, run, clientVars, asked>>

SaveRouting(q) ==
    /\ request[q].phase = "sent" /\ kind[q] = "routing"
    /\ server' = [server EXCEPT !.routing = @ + 1]
    /\ Broadcast(<<Event("routing-changed", None)>>)
    /\ request' = [request EXCEPT ![q].phase = "answered", ![q].body = server']
    /\ UNCHANGED <<saving, before, docs, undone, run, clientVars, kind, wrote, budget>>

\* beginLiveActivity and endLiveActivity around one run.
RunWorks ==
    /\ \/ run = "idle" /\ Spend("runs") /\ run' = "working"
       \/ run = "working" /\ run' = "ended" /\ UNCHANGED budget
    /\ server' = [server EXCEPT !.act = @ + 1]
    /\ Broadcast(<<Event("activity", server.act + 1)>>)
    /\ UNCHANGED <<saving, before, docs, undone, clientVars, asked>>

\* Whatever this.state holds when the answer is put together is answered.
Answer(q) ==
    /\ request[q].phase = "saved"
    /\ request' = [request EXCEPT ![q].phase = "answered", ![q].body = server]
    /\ UNCHANGED <<hostVars, clientVars, stream, kind, wrote, budget>>

AnswerRefresh ==
    /\ refresh.phase = "sent"
    /\ refresh' = [refresh EXCEPT !.phase = "answered", !.body = server]
    /\ UNCHANGED <<hostVars, boot, succeeded, pending, generation, stream, asked, budget>>

-----------------------------------------------------------------------------
(* refresh() and mergeBootstrap().                                         *)

\* Slip: the revision of a candidate is not looked at.
MergeAny(candidate, gen) ==
    IF boot = NoBoot THEN candidate
    ELSE [candidate EXCEPT
             !.routing = IF gen = generation' THEN candidate.routing ELSE boot.routing]

\* Slip: of two candidates with one revision the first stays.
MergeStrict(candidate, gen) ==
    IF boot = NoBoot THEN candidate
    ELSE [(IF candidate.rev <= boot.rev THEN boot ELSE candidate) EXCEPT
             !.routing = IF gen = generation' THEN candidate.routing ELSE boot.routing]

\* A candidate replaces what is shown unless its state is older; its routing
\* does only when no invalidation came after gen was taken.
mergeBootstrap(candidate, gen) ==
    IF boot = NoBoot THEN candidate
    ELSE [(IF candidate.rev < boot.rev THEN boot ELSE candidate) EXCEPT
             !.routing = IF gen = generation' THEN candidate.routing ELSE boot.routing]

\* refresh(): callers join the refresh in flight.
Refresh(configurationChanged) ==
    IF refresh.phase = "idle"
      THEN /\ refresh' = [phase |-> "sent", gen |-> generation', body |-> NoBoot]
           /\ pendingConfiguration' = FALSE
      ELSE /\ UNCHANGED refresh
           /\ pendingConfiguration' = (pendingConfiguration \/ configurationChanged)

\* Slip: what was asked for during the refresh is forgotten.
EndForgets(ok) ==
    /\ succeeded' = ok
    /\ pendingRevision' = None
    /\ refresh' = Idle
    /\ pendingConfiguration' = FALSE

\* Slip: refreshPromise is never cleared.
EndKeepsPromise(ok) ==
    /\ succeeded' = ok
    /\ pendingRevision' = None
    /\ refresh' = [refresh EXCEPT !.phase = "ended"]
    /\ UNCHANGED pendingConfiguration

\* The finally block: a successful refresh is followed by another one when an
\* event that came meanwhile asked for more.
EndRefresh(ok) ==
    /\ succeeded' = ok
    /\ pendingRevision' = IF pendingRevision <= boot'.rev THEN None ELSE pendingRevision
    /\ IF ok /\ (pendingRevision' # None \/ pendingConfiguration)
         THEN /\ refresh' = [phase |-> "sent", gen |-> generation, body |-> NoBoot]
              /\ pendingConfiguration' = FALSE
         ELSE refresh' = Idle /\ UNCHANGED pendingConfiguration

\* The activities of an event that came since the last refresh win.
RefreshLands ==
    /\ refresh.phase = "answered"
    /\ UNCHANGED generation
    /\ LET body == IF pendingAct = None THEN refresh.body
                   ELSE [refresh.body EXCEPT !.act = pendingAct]
       IN boot' = mergeBootstrap(body, refresh.gen)
    /\ pendingAct' = None
    /\ EndRefresh(TRUE)
    /\ UNCHANGED <<hostVars, stream, asked, budget>>

RefreshFails ==
    /\ refresh.phase \in {"sent", "answered"}
    /\ Spend("lost")
    /\ UNCHANGED <<boot, generation, pendingAct>>
    /\ EndRefresh(FALSE)
    /\ UNCHANGED <<hostVars, stream, asked>>

-----------------------------------------------------------------------------
(* The event stream.                                                       *)

\* connectEvents(), or the browser reconnecting: the host writes the current
\* revision and activities first.
Connect ==
    /\ ~Live
    /\ stream' = <<Event("open", None), Event("revision", server.rev),
                   Event("activity", server.act)>>
    /\ UNCHANGED <<hostVars, clientVars, asked, budget>>

\* The connection is lost with the events on it.
Drop ==
    /\ Live
    /\ Spend("drops")
    /\ stream' = Closed
    /\ UNCHANGED <<hostVars, clientVars, asked>>

\* refreshConfiguration, for "routing-changed" and "open".
ConfigurationEvent ==
    /\ Live /\ stream # <<>>
    /\ Head(stream).type \in {"open", "routing-changed"}
    /\ stream' = Tail(stream)
    /\ generation' = generation + 1
    /\ Refresh(TRUE)
    /\ UNCHANGED <<hostVars, boot, succeeded, pendingRevision, pendingAct, asked, budget>>

RevisionEvent ==
    /\ Live /\ stream # <<>>
    /\ Head(stream).type = "revision"
    /\ stream' = Tail(stream)
    /\ UNCHANGED generation
    /\ LET revision == Head(stream).value IN
         IF revision <= boot.rev
           THEN UNCHANGED <<pendingRevision, refresh, pendingConfiguration>>
           ELSE /\ pendingRevision' = IF revision > pendingRevision
                                        THEN revision ELSE pendingRevision
                /\ Refresh(FALSE)
    /\ UNCHANGED <<hostVars, boot, succeeded, pendingAct, asked, budget>>

\* The activities are shown at once and kept for the refresh in flight.
ActivityEvent ==
    /\ Live /\ stream # <<>>
    /\ Head(stream).type = "activity"
    /\ stream' = Tail(stream)
    /\ pendingAct' = Head(stream).value
    /\ boot' = IF boot = NoBoot THEN boot ELSE [boot EXCEPT !.act = Head(stream).value]
    /\ UNCHANGED <<hostVars, refresh, succeeded, pendingRevision,
                   pendingConfiguration, generation, asked, budget>>

-----------------------------------------------------------------------------
(* The other requests.                                                     *)

Send(q) ==
    /\ request[q].phase = "idle" /\ kind[q] # "none"
    /\ request' = [request EXCEPT ![q] =
           [phase |-> "sent", gen |-> generation, body |-> NoBoot]]
    /\ UNCHANGED <<hostVars, clientVars, stream, kind, wrote, budget>>

Landing(q, k) ==
    /\ request[q].phase = "answered" /\ kind[q] = k
    /\ request' = [request EXCEPT ![q].phase = "done"]
    /\ UNCHANGED <<hostVars, stream, kind, wrote, budget>>

\* mutate(): routing is not the mutation's to change, except for remove-agent
\* when nothing newer has been seen.
MutateLands(q) ==
    /\ \/ Landing(q, "mutate")
       \/ Landing(q, "remove-agent")
    /\ LET body == request[q].body
           owns == /\ kind[q] = "remove-agent"
                   /\ request[q].gen = generation
                   /\ body.rev >= boot.rev
       IN /\ generation' = IF owns THEN generation + 1 ELSE generation
          /\ boot' = mergeBootstrap(body, IF owns THEN generation' ELSE None)
    /\ UNCHANGED <<refresh, succeeded, pending>>

\* send, edit, reroute, retry and import answer with a state: the rest of the
\* bootstrap is what is shown now.  Without a bootstrap they refresh.
StateLands(q) ==
    /\ Landing(q, "state")
    /\ UNCHANGED generation
    /\ IF boot = NoBoot
         THEN Refresh(FALSE) /\ UNCHANGED boot
         ELSE /\ boot' = mergeBootstrap([boot EXCEPT !.rev = request[q].body.rev,
                                                     !.doc = request[q].body.doc], None)
              /\ UNCHANGED <<refresh, pendingConfiguration>>
    /\ UNCHANGED <<succeeded, pendingRevision, pendingAct>>

\* Pins, contexts, deletions, permissions and retention only refresh.
VoidLands(q) ==
    /\ Landing(q, "void")
    /\ UNCHANGED <<generation, boot>>
    /\ Refresh(FALSE)
    /\ UNCHANGED <<succeeded, pendingRevision, pendingAct>>

\* updateRoutingConfiguration: a save older than an invalidation is not shown;
\* either way the refreshes in flight are expired and one more is asked for.
RoutingLands(q) ==
    /\ Landing(q, "routing")
    /\ generation' = generation + 1
    /\ boot' = IF boot # NoBoot /\ request[q].gen = generation
                 THEN [boot EXCEPT !.routing = request[q].body.routing]
                 ELSE boot
    /\ Refresh(TRUE)
    /\ UNCHANGED <<succeeded, pendingRevision, pendingAct>>

\* recordRequestFailure: nothing but the error is recorded.
RequestFails(q) ==
    /\ request[q].phase \in {"sent", "answered"}
    /\ Spend("lost")
    /\ saving # q
    /\ request' = [request EXCEPT ![q].phase = "failed"]
    /\ UNCHANGED <<hostVars, clientVars, stream, kind, wrote>>

Lands(q) == MutateLands(q) \/ StateLands(q) \/ VoidLands(q) \/ RoutingLands(q)

HostStep ==
    \/ RunRecords \/ Commit \/ RunWorks \/ AnswerRefresh
    \/ \E q \in Requests : BeginRequest(q) \/ SaveRouting(q) \/ Answer(q)

ClientStep ==
    \/ RefreshLands \/ Connect
    \/ ConfigurationEvent \/ RevisionEvent \/ ActivityEvent
    \/ \E q \in Requests : Lands(q)

ClientNext ==
    \/ HostStep \/ ClientStep
    \/ ForeignChange \/ RoutingChange \/ RejectChange \/ RefreshFails \/ Drop
    \/ \E q \in Requests : Send(q) \/ RequestFails(q)

\* The host answers, the browser's event loop runs, and an EventSource
\* reconnects by itself; users, other tabs and failures are not obliged.
ClientSpec ==
    /\ ClientInit /\ [][ClientNext]_storeVars
    /\ WF_storeVars(HostStep) /\ WF_storeVars(ClientStep)

-----------------------------------------------------------------------------
(* Properties.                                                             *)

\* What is shown but was never saved: a refresh answered during a persist that
\* then rejected.
Ghost == boot.doc \in undone

\* The workspace on the screen never goes back to an older state, whatever
\* the order in which answers arrive (mergeBootstrap's revision check).
ShownNeverGoesBack == [][boot'.doc >= boot.doc \/ Ghost']_boot

\* When the answer of this browser's own change is applied, the change is on the
\* screen, or something newer is: neither an answer read in the middle of another
\* persist nor a later one that came first hides it.  (Before the first bootstrap
\* a state answer only asks for a refresh.)
OwnWritesShown ==
    [][\A q \in Requests :
          /\ request[q].phase = "answered" /\ request'[q].phase = "done"
          /\ \/ kind[q] \in {"mutate", "remove-agent"}
             \/ kind[q] = "state" /\ boot # NoBoot
          => boot'.doc >= wrote[q]]_request

\* When the host is left alone, the browser ends up showing its state, routing
\* and activities: no event, answer or reconnection is applied so as to leave it
\* behind.  Two ways out remain: a last refresh that failed (its error is shown),
\* and a state that was undone after it was read.
UpToDate ==
    /\ boot.doc = server.doc /\ boot.rev = server.rev
    /\ boot.routing = server.routing
    /\ boot.act = server.act
CatchesUp == <>[](UpToDate \/ ~succeeded \/ Ghost)

\* The screen keeps what this browser wrote and never goes back.
ShownMovesForward == ShownNeverGoesBack /\ OwnWritesShown

=============================================================================
