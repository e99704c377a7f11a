--------------------------- MODULE ContextMemory ---------------------------
(***************************************************************************)
(* The shared memory of one Channel or of one Thread: a text compacted     *)
(* from its messages by inference, or written by a person.                 *)
(*                                                                         *)
(* Messages are added, answered and deleted, and people edit the memory,   *)
(* in sections of the FIFO lock.  Inference takes seconds and runs outside *)
(* of it: a compaction that somebody asked for (man) and the refresh that  *)
(* follows a run (auto) take turns by a lock of the memory, and each       *)
(* brings its result back into a document that has gone on meanwhile.      *)
(*                                                                         *)
(* The memories of a Channel and of its Thread never read each other, so   *)
(* one of them is followed, chosen at first; the refresh of the other is   *)
(* no step here.  Of a text only matters which messages it was inferred    *)
(* from, or which edit it is.  Inference is configured.                    *)
(***************************************************************************)
EXTENDS Naturals, Sequences, FiniteSets

CONSTANTS
    Pressure,   \* messages that reach SHARED_CONTEXT_PRESSURE_TOKENS
    Starts      \* the memory followed, its messages, how often what may happen

Scopes == {"channel", "thread"}
Events == {"accept", "reply", "delete", "edit", "evidence", "compact",
           "fails", "reject", "crash"}

ASSUME ContextAssumption ==
    /\ Pressure \in Nat \ {0}
    /\ \A s \in Starts : /\ s.scope \in Scopes /\ s.messages \in Nat
                        /\ s.left \in [Events -> Nat]

VARIABLES
    scope,      \* whether the memory is a Channel's or a Thread's
    doc, saved, \* the document in memory and on disk
    previousState, \* previousState of the section under way
    section,    \* the holder of the FIFO lock, or "free"
    memoryLock, \* who holds the memory's own lock: nobody, auto or man
    auto, dirty,\* the refresh of the Thread (contextRefreshes)
    man,        \* a compaction that was asked for
    runs,       \* accepted messages whose run has not ended
    fresh,      \* the next message id
    told,       \* what the properties except, see below
    left        \* events that may still happen

memoryVars == <<scope, doc, saved, previousState, section, memoryLock, auto, dirty, man,
                runs, fresh, told, left>>
updates == <<memoryLock, auto, dirty, man>>

-----------------------------------------------------------------------------
(* The document.                                                           *)

Live(d) == SelectSeq(d.msgs, LAMBDA m : m \notin d.deleted)
LiveSet(d) == {d.msgs[i] : i \in DOMAIN d.msgs} \ d.deleted
LastMessage(d) == IF Live(d) = <<>> THEN 0 ELSE Live(d)[Len(Live(d))]

\* projectThreadMemory, projectChannelMemory: no text, only the source boundary.
Projection(d) ==
    [origin  |-> "automatic",
     status  |-> IF Live(d) = <<>> THEN "empty" ELSE "stale",
     through |-> LastMessage(d), count |-> Len(Live(d)),
     covers  |-> {}, edit |-> 0]

\* mergeThreadMemoryProjection, mergeChannelMemoryProjection.
Merged(memory, projection) ==
    IF memory.origin = "automatic" THEN projection
    ELSE [memory EXCEPT
            !.count  = projection.count,
            !.status = CASE @ = "failed" -> "failed"
                         [] memory.through = projection.through -> @
                         [] OTHER -> "stale"]

\* inferredThreadMemory, inferredChannelMemory.
Inferred(projection, covers) ==
    [projection EXCEPT !.origin = "inference", !.covers = covers,
                       !.status = IF projection.count = 0 THEN "empty" ELSE "current"]

\* What a text inferred now is made from: the messages, and the text before.
Prompt(d) == LiveSet(d) \cup d.mem.covers

SameProjection(p, q) == p.through = q.through /\ p.count = q.count

\* Object identity (memory !== memoryBeforeInference): a memory put in place gets
\* a tag that nothing compared with it has.
Tags == 0 .. 4
FreshTag ==
    CHOOSE t \in Tags : t \notin {doc.tag, previousState.tag, auto.before, man.before}

\* hasInvalidatedContextSources: evidence was changed, or a message the inference
\* read was deleted or never saved.
Source(d) == [live |-> LiveSet(d), msgs |-> {d.msgs[i] : i \in DOMAIN d.msgs},
              evidence |-> d.evidence]
Invalidated(source, d) ==
    \/ d.evidence # source.evidence
    \/ ~(source.msgs \subseteq {d.msgs[i] : i \in DOMAIN d.msgs})
    \/ source.live \cap d.deleted # {}

-----------------------------------------------------------------------------
(* The two kinds of update.                                                *)

NoMemory == [origin |-> "automatic", status |-> "empty", through |-> 0, count |-> 0,
             covers |-> {}, edit |-> 0]
NoSource == [live |-> {}, msgs |-> {}, evidence |-> 0]

\* stage; the tag of the memory it started from; its projection; what inference
\* read and made; and for a compaction, the edit that it was asked to compact.
Idle == [stage |-> "none", before |-> 0, projection |-> NoMemory, source |-> NoSource,
         covers |-> {}, memory |-> NoMemory, edit |-> 0]

\* threadMemoryNeedsInference, channelMemoryNeedsInference.
NeedsInference(projection, memory) ==
    /\ memory.origin # "user"
    /\ IF scope = "thread"
       THEN /\ projection.count >= Pressure
            /\ memory.origin = "automatic" \/ memory.status = "stale"
       ELSE /\ projection.count > 0
            /\ memory.origin = "automatic" \/ memory.status \in {"stale", "failed"}

ThreadConflict(u, d) ==
    \/ d.tag # u.before /\ d.mem.origin = "user"
    \/ Invalidated(u.source, d)

\* The result of an inference, as far as it is decided without the FIFO lock:
\* inferChannelMemory gives it up when its sources were changed.
Result(u, d) ==
    LET empty == scope = "channel" /\ u.projection.count = 0
    IN  IF scope = "channel" /\ ~empty /\ Invalidated(u.source, d) THEN Projection(d)
        ELSE Inferred(u.projection, IF empty THEN {} ELSE u.covers)

WithLatest(u, inferred, d) ==
    IF SameProjection(u.projection, Projection(d)) THEN inferred
    ELSE Merged(inferred, Projection(d))

\* Slip: a person's edit made during the inference is replaced by its result.
ReconcileOverEdit(u, inferred, d) == WithLatest(u, inferred, d)

\* reconcileInferredChannelMemory; reconcileInferredThreadMemory where it preserves
\* the current memory.
Reconcile(u, inferred, d) ==
    IF \/ scope = "channel" /\ d.tag # u.before /\ d.mem.origin = "user"
       \/ scope = "thread" /\ ThreadConflict(u, d)
    THEN Merged(d.mem, Projection(d))
    ELSE WithLatest(u, inferred, d)

-----------------------------------------------------------------------------
(* Sections of the FIFO lock.                                              *)

Free == section = "free"

Enter(name, d) ==
    /\ Free
    /\ section' = name
    /\ previousState' = doc /\ doc' = d

With(memory) == [doc EXCEPT !.mem = memory, !.tag = FreshTag]

Spend(event) == left[event] > 0 /\ left' = [left EXCEPT ![event] = @ - 1]

\* commitAcceptedSend: refreshAcceptedThreadMemory, refreshAcceptedChannelMemory.
Accept ==
    /\ Spend("accept")
    /\ LET d == [doc EXCEPT !.msgs = Append(@, fresh)]
       IN  Enter("accept", [d EXCEPT !.mem = Merged(@, Projection(d)), !.tag = FreshTag])
    /\ fresh' = fresh + 1
    /\ UNCHANGED <<scope, saved, updates, runs, told>>

\* append: a reply refreshes the memory of its Thread, not that of the Channel.
Reply ==
    /\ runs > 0 /\ Spend("reply")
    /\ LET d == [doc EXCEPT !.msgs = Append(@, fresh)]
       IN  Enter("reply",
                 IF scope = "channel" THEN d
                 ELSE [d EXCEPT !.mem = Merged(@, Projection(d)), !.tag = FreshTag])
    /\ fresh' = fresh + 1
    /\ UNCHANGED <<scope, saved, updates, runs, told>>

\* Slip: a deletion keeps a text that inference made from the message.
DeletedKeepsText(m) ==
    LET d == [doc EXCEPT !.deleted = @ \cup {m}]
    IN  [d EXCEPT !.mem = Merged(@, Projection(d)), !.tag = FreshTag]

\* applyMessageDeletion: refreshDeletedThreadMemory, refreshDeletedChannelMemory.
Deleted(m) ==
    LET d == [doc EXCEPT !.deleted = @ \cup {m}]
    IN  [d EXCEPT !.mem = IF @.origin = "user" THEN Merged(@, Projection(d)) ELSE Projection(d),
                  !.tag = FreshTag]

\* An update has looked at the sources of the text it is about to write.
Checked ==
    \/ auto.stage \in {"mark", "save"}
    \/ scope = "channel" /\ man.stage = "answered"

Delete ==
    /\ Spend("delete")
    /\ \E m \in LiveSet(doc) : Enter("delete", Deleted(m))
    /\ told' = [told EXCEPT !.overtaken = @ \/ Checked]
    /\ UNCHANGED <<scope, saved, updates, runs, fresh>>

\* updateThreadContext, updateChannelContext (setChannelMemory).
EditMemory ==
    /\ Spend("edit")
    /\ Enter("edit", With([Projection(doc) EXCEPT !.origin = "user", !.status = "current",
                                                  !.edit = left["edit"]]))
    /\ UNCHANGED <<scope, saved, updates, runs, fresh, told>>

\* A pin, the roster or the instructions change: invalidateChangedContextEvidence.
ChangeEvidence ==
    /\ Spend("evidence")
    /\ LET d == [doc EXCEPT !.evidence = @ + 1]
       IN  Enter("evidence",
                 [d EXCEPT !.mem = IF @.origin = "user" THEN [@ EXCEPT !.status = "stale"]
                                   ELSE Projection(d),
                           !.tag = FreshTag])
    /\ UNCHANGED <<scope, saved, updates, runs, fresh, told>>

User == Accept \/ Delete \/ EditMemory \/ ChangeEvidence

-----------------------------------------------------------------------------
(* scheduleContextRefresh and updateThreadMemory or updateChannelMemory.   *)

\* A run whose reply is being saved has not ended.
OneRunLess == runs > (IF section = "reply" THEN 1 ELSE 0) /\ runs' = runs - 1

\* A memory that says it is current and is not, in d or about to be written into it:
\* it was decided before the last message came, or from one that is not there.
Behind(memory, d) == memory.status = "current" /\ memory.through # LastMessage(d)
LeavesBehind(d) == Behind(d.mem, d) \/ (auto.stage = "save" /\ Behind(auto.memory, d))

\* A run ends and asks for a refresh; one that is under way goes round again.
RunEnds ==
    /\ OneRunLess
    /\ IF auto.stage = "none"
       THEN auto' = [Idle EXCEPT !.stage = "wait"] /\ UNCHANGED dirty
       ELSE dirty' = TRUE /\ UNCHANGED auto
    /\ told' = [told EXCEPT !.missed = @ \/ auto.stage = "ending",
                            !.behind = @ /\ auto.stage = "ending"]
    /\ UNCHANGED <<scope, doc, saved, previousState, section, memoryLock, man, fresh, left>>

\* A run asks for none when its message was not routed, when the conversation is not
\* current any more, and when one of its turns rejects.
RunEndsUnasked ==
    /\ OneRunLess
    /\ told' = [told EXCEPT !.behind = @ \/ LeavesBehind(doc) \/ LeavesBehind(previousState)]
    /\ UNCHANGED <<scope, doc, saved, previousState, section, updates, fresh, left>>

host == <<scope, doc, saved, previousState, section, runs, fresh, told, left>>

\* The memory's lock is there; the document is read, also in the middle of a persist.
AutoReads ==
    /\ auto.stage = "wait" /\ memoryLock = "nobody"
    /\ memoryLock' = "auto"
    /\ LET projection == Projection(doc)
           projected  == Merged(doc.mem, projection)
           read == [auto EXCEPT !.before = doc.tag, !.projection = projection,
                                !.memory = projected]
       IN  auto' = CASE NeedsInference(projection, projected) /\ scope = "thread" ->
                          [read EXCEPT !.stage = "asking", !.source = Source(doc),
                                       !.covers = Prompt(doc)]
                     [] NeedsInference(projection, projected) /\ scope = "channel" ->
                          [read EXCEPT !.stage = "mark"]
                     [] OTHER -> [read EXCEPT !.stage = IF scope = "thread" THEN "refresh"
                                                        ELSE "save"]
    /\ UNCHANGED <<host, dirty, man>>

\* Of a Channel the compaction is shown before it begins, unless a person has
\* written the memory since.
AutoMarks ==
    /\ auto.stage = "mark" /\ Free
    /\ IF doc.mem.origin = "user"
       THEN /\ auto' = [auto EXCEPT !.stage = "next"]
            /\ UNCHANGED <<section, previousState, doc>>
       ELSE /\ Enter("mark", With([auto.memory EXCEPT !.status = "compacting"]))
            /\ auto' = [auto EXCEPT !.stage = "marking"]
    /\ UNCHANGED <<scope, saved, memoryLock, dirty, man, runs, fresh, told, left>>

AutoAsks ==
    /\ auto.stage = "marked"
    /\ auto' = [auto EXCEPT !.stage = "asking", !.source = Source(doc), !.covers = Prompt(doc)]
    /\ UNCHANGED <<host, memoryLock, dirty, man>>

\* The inference ends.  Of a Thread its result is dropped when it is overtaken
\* (discard-inference).
AutoAnswered ==
    /\ auto.stage = "asking"
    /\ auto' = IF scope = "thread" /\ ThreadConflict(auto, doc)
               THEN [auto EXCEPT !.stage = "next"]
               ELSE [auto EXCEPT !.stage = "save",
                                 !.memory = Reconcile(auto, Result(auto, doc), doc)]
    /\ UNCHANGED <<host, memoryLock, dirty, man>>

\* What is left of the memory when the update could not be made.
Unmade(d) ==
    LET current == Merged(d.mem, Projection(d))
    IN  IF scope = "thread" \/ current.origin = "user" THEN current
        ELSE [current EXCEPT !.status = "failed"]

AutoFails ==
    /\ auto.stage = "asking" /\ Spend("fails")
    /\ auto' = [auto EXCEPT !.stage = "save", !.memory = Unmade(doc)]
    /\ UNCHANGED <<scope, doc, saved, previousState, section, memoryLock, dirty, man, runs,
                   fresh, told>>

\* A result is not written over what a person wrote since it was begun.
Superseded ==
    doc.mem.origin = "user" /\ (doc.tag # auto.before \/ auto.memory.origin # "user")

AutoSaves ==
    /\ auto.stage = "save" /\ Free
    /\ IF Superseded
       THEN /\ auto' = [auto EXCEPT !.stage = "next"]
            /\ UNCHANGED <<section, previousState, doc>>
       ELSE /\ Enter("save", With(auto.memory))
            /\ auto' = [auto EXCEPT !.stage = "saving"]
    /\ UNCHANGED <<scope, saved, memoryLock, dirty, man, runs, fresh, told, left>>

\* Without need of inference a Thread's memory is projected inside the section.
AutoRefreshes ==
    /\ auto.stage = "refresh"
    /\ Enter("save", With(Merged(doc.mem, Projection(doc))))
    /\ auto' = [auto EXCEPT !.stage = "saving"]
    /\ UNCHANGED <<scope, saved, memoryLock, dirty, man, runs, fresh, told, left>>

\* Slip: a request made during the refresh is forgotten.
AutoNextForgets ==
    /\ auto.stage = "next"
    /\ memoryLock' = "nobody"
    /\ auto' = [Idle EXCEPT !.stage = "ending"]
    /\ dirty' = FALSE
    /\ UNCHANGED <<host, man>>

\* The update returns: round again, or the loop is over.
AutoNext ==
    /\ auto.stage = "next"
    /\ memoryLock' = "nobody"
    /\ auto' = [Idle EXCEPT !.stage = IF dirty THEN "wait" ELSE "ending"]
    /\ dirty' = FALSE
    /\ UNCHANGED <<host, man>>

\* Some microtasks after the loop, its record goes.
AutoEnds ==
    /\ auto.stage = "ending"
    /\ auto' = Idle /\ dirty' = FALSE
    /\ UNCHANGED <<host, memoryLock, man>>

AutoStep ==
    \/ AutoReads \/ AutoMarks \/ AutoAsks \/ AutoAnswered
    \/ AutoSaves \/ AutoRefreshes \/ AutoNext \/ AutoEnds

-----------------------------------------------------------------------------
(* compactThreadContext and compactChannelContext.                         *)

Compact ==
    /\ man.stage = "none" /\ Spend("compact")
    /\ man' = [Idle EXCEPT !.stage = "wait"]
    /\ UNCHANGED <<scope, doc, saved, previousState, section, memoryLock, auto, dirty, runs,
                   fresh, told>>

ManLocks ==
    /\ man.stage = "wait" /\ memoryLock = "nobody"
    /\ memoryLock' = "man"
    /\ man' = [man EXCEPT !.stage = "begin"]
    /\ UNCHANGED <<host, auto, dirty>>

ManBegins ==
    /\ man.stage = "begin"
    /\ Enter("begin", With([doc.mem EXCEPT !.status = "compacting"]))
    /\ man' = [man EXCEPT !.stage = "beginning", !.before = FreshTag,
                          !.projection = Projection(doc), !.edit = doc.mem.edit]
    /\ UNCHANGED <<scope, saved, memoryLock, auto, dirty, runs, fresh, told, left>>

ManAsks ==
    /\ man.stage = "begun"
    /\ man' = [man EXCEPT !.stage = "asking", !.source = Source(doc), !.covers = Prompt(doc)]
    /\ UNCHANGED <<host, memoryLock, auto, dirty>>

ManAnswered ==
    /\ man.stage = "asking"
    /\ man' = [man EXCEPT !.stage = "answered", !.memory = Result(man, doc)]
    /\ UNCHANGED <<host, memoryLock, auto, dirty>>

ManFails ==
    /\ man.stage = "asking" /\ Spend("fails")
    /\ man' = [man EXCEPT !.stage = "failing"]
    /\ UNCHANGED <<scope, doc, saved, previousState, section, memoryLock, auto, dirty, runs,
                   fresh, told>>

\* The result is reconciled inside the section.  A person's memory of which a message
\* was deleted meanwhile is kept as it is found: still compacting.
ManCompletes ==
    /\ man.stage = "answered"
    /\ LET memory == Reconcile(man, man.memory, doc)
       IN  /\ Enter("complete", With(memory))
           /\ told' = [told EXCEPT !.stuck = memory.status = "compacting"]
    /\ man' = [man EXCEPT !.stage = "completing"]
    /\ UNCHANGED <<scope, saved, memoryLock, auto, dirty, runs, fresh, left>>

ManRecordsFailure ==
    /\ man.stage = "failing"
    /\ Enter("fail", With([doc.mem EXCEPT !.status = "failed"]))
    /\ man' = [man EXCEPT !.stage = "recording"]
    /\ UNCHANGED <<scope, saved, memoryLock, auto, dirty, runs, fresh, told, left>>

ManStep ==
    \/ ManLocks \/ ManBegins \/ ManAsks \/ ManAnswered \/ ManCompletes \/ ManRecordsFailure

-----------------------------------------------------------------------------
(* The end of a section, and of the host.                                  *)

Leave(u) == IF memoryLock = u THEN "nobody" ELSE memoryLock

\* The persist resolves; whoever awaited it goes on.
SectionSaved ==
    /\ ~Free
    /\ saved' = doc /\ section' = "free" /\ previousState' = doc
    /\ runs' = IF section = "accept" THEN runs + 1 ELSE runs
    /\ auto' = CASE section = "mark" -> [auto EXCEPT !.stage = "marked"]
                 [] section = "save" -> [auto EXCEPT !.stage = "next"]
                 [] OTHER -> auto
    /\ man' = CASE section = "begin" -> [man EXCEPT !.stage = "begun"]
                [] section \in {"complete", "fail"} -> Idle
                [] OTHER -> man
    /\ memoryLock' = IF section \in {"complete", "fail"} THEN Leave("man") ELSE memoryLock
    /\ UNCHANGED <<scope, doc, dirty, fresh, told, left>>

\* The persist rejects: the document is what it was.  A refresh ends with it, and what
\* was asked of it meanwhile is forgotten; so does the run whose reply it was.
Rejected ==
    /\ ~Free /\ Spend("reject")
    /\ doc' = previousState /\ section' = "free"
    /\ runs' = IF section = "reply" THEN runs - 1 ELSE runs
    /\ auto' = CASE section = "mark" -> [auto EXCEPT !.stage = "save",
                                                     !.memory = Unmade(previousState)]
                 [] section = "save" -> Idle
                 [] OTHER -> auto
    /\ dirty' = (dirty /\ section # "save")
    /\ man' = CASE section = "complete" -> [man EXCEPT !.stage = "failing"]
                [] section \in {"begin", "fail"} -> Idle
                [] OTHER -> man
    /\ memoryLock' = CASE section \in {"begin", "fail"} -> Leave("man")
                       [] section = "save" -> Leave("auto")
                       [] OTHER -> memoryLock
    /\ told' = [told EXCEPT !.unsaved = @ \/ section \in {"save", "fail"},
                            !.behind = @ \/ LeavesBehind(previousState),
                            !.missed = @ \/ (section = "edit" /\ memoryLock = "auto"
                                               /\ auto.before = doc.tag),
                            !.stuck = @ /\ section # "complete"]
    /\ UNCHANGED <<scope, saved, previousState, fresh>>

\* sanitizeChannelMemory, its counterpart of Threads, refreshLoadedChannelMemory.
Loaded(d) ==
    LET memory == [d.mem EXCEPT !.status = IF @ = "compacting" THEN "failed" ELSE @]
    IN  [d EXCEPT !.mem = IF scope = "channel" THEN Merged(memory, Projection(d)) ELSE memory]

\* The process dies and is started again.
Crash ==
    /\ Spend("crash")
    /\ doc' = Loaded(saved) /\ saved' = Loaded(saved) /\ previousState' = Loaded(saved)
    /\ section' = "free" /\ memoryLock' = "nobody"
    /\ auto' = Idle /\ dirty' = FALSE /\ man' = Idle /\ runs' = 0
    /\ told' = [told EXCEPT !.stuck = FALSE, !.behind = FALSE, !.restarted = TRUE]
    /\ UNCHANGED <<scope, fresh>>

-----------------------------------------------------------------------------
(* The specification.                                                      *)

NothingTold == [what \in {"overtaken", "missed", "unsaved", "stuck", "behind", "restarted"} |-> FALSE]

MemoryInit ==
    \E s \in Starts :
      LET empty == [msgs |-> [i \in 1 .. s.messages |-> i], deleted |-> {}, evidence |-> 0,
                    mem |-> NoMemory, tag |-> 1]
          first == [empty EXCEPT !.mem = Projection(empty)]
      IN  /\ scope = s.scope /\ left = s.left
          /\ doc = first /\ saved = first /\ previousState = first
          /\ section = "free" /\ memoryLock = "nobody"
          /\ auto = Idle /\ dirty = FALSE /\ man = Idle
          /\ runs = 0 /\ fresh = s.messages + 1
          /\ told = NothingTold

MemoryNext ==
    \/ User \/ Reply \/ Compact
    \/ RunEnds \/ RunEndsUnasked \/ AutoStep \/ ManStep \/ SectionSaved
    \/ AutoFails \/ ManFails \/ Rejected \/ Crash

\* Persists settle, runs end, and every inference has a deadline.
MemoryFairness ==
    /\ WF_memoryVars(SectionSaved) /\ WF_memoryVars(RunEnds \/ RunEndsUnasked)
    /\ WF_memoryVars(AutoStep) /\ WF_memoryVars(ManStep)

MemorySpec == MemoryInit /\ [][MemoryNext]_memoryVars /\ MemoryFairness

-----------------------------------------------------------------------------
(* Properties.                                                             *)

\* The values of the document and of the two updates.
MemoryTypeOK ==
    /\ scope \in Scopes
    /\ \A d \in {doc, saved, previousState} :
         /\ d.deleted \subseteq {d.msgs[i] : i \in DOMAIN d.msgs}
         /\ d.mem.origin \in {"automatic", "inference", "user"}
         /\ d.mem.status \in {"empty", "current", "stale", "compacting", "failed"}
         /\ d.mem.edit # 0 => d.mem.origin = "user"
         /\ d.tag \in Tags
    /\ Free => doc = saved
    /\ memoryLock = "auto" <=> auto.stage \notin {"none", "wait", "ending"}
    /\ memoryLock = "man" <=> man.stage \notin {"none", "wait"}
    /\ runs \in Nat /\ dirty \in BOOLEAN

\* docs/guides/architecture.md: "Deleting delivered content removes its body, ...
\* and automatic projections": no saved text was inferred from a deleted message,
\* also when the message went while inference was reading it.  The exception is a
\* deletion between the last look of an update at its sources and its section.
DeletedContentGoes ==
    ~told.overtaken => saved.mem.covers \cap saved.deleted = {}

\* docs/specs/product-spec.md: "Compacting: Inference is producing a replacement or
\* merge": an update is under way.  The exceptions are a message deleted under the
\* compaction of a person's text (ManCompletes), and results that could not be saved.
CompactingHasAnOwner ==
    doc.mem.status = "compacting" /\ ~told.stuck /\ ~told.unsaved => memoryLock # "nobody"

\* What holds of the memory in every state.
MemoryConsistent ==
    /\ MemoryTypeOK
    /\ DeletedContentGoes
    /\ CompactingHasAnOwner

\* docs/specs/product-spec.md, CTX-08: human context is never silently replaced.  What
\* a person saved makes way for a later edit, or for a compaction asked for after it.
\* (Edits are numbered downwards.)
HumanEditStands ==
    [][saved.mem.origin = "user" =>
         \/ saved'.mem.origin = "user" /\ saved'.mem.edit <= saved.mem.edit
         \/ section = "complete" /\ man.edit = saved.mem.edit]_memoryVars

\* When everything has ended the memory is as its status says: none is still compacting
\* and one that is current covers the last message.  The exceptions are those above,
\* a run that ends in the instant between the end of a refresh and of its record, a run
\* that asks for no refresh (processReplies) while a memory behind the last message is
\* there or about to be saved, a rejected persist that undoes what such a memory was
\* made from, a refresh that read an edit whose persist then rejects (it takes the old
\* text for a newer edit and leaves it alone), and a Thread's refresh that a process
\* death took away.
Told == told.overtaken \/ told.missed \/ told.unsaved \/ told.stuck \/ told.behind
        \/ (told.restarted /\ scope = "thread")

MemorySettles ==
    <>[](Told \/ /\ saved.mem.status # "compacting"
                 /\ saved.mem.status = "current" => saved.mem.through = LastMessage(saved))

=============================================================================
