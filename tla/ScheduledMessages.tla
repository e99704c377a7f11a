------------------------- MODULE ScheduledMessages -------------------------
(***************************************************************************)
(* Messages that are sent to a Channel once or by a cron expression.       *)
(*                                                                         *)
(* A timer runs the schedules that are due, one after another: each is     *)
(* prepared outside the FIFO lock and accepted in a section of it, where   *)
(* one persist saves the message and the schedule's next occurrence.       *)
(* People create, edit, pause, resume and delete schedules meanwhile,      *)
(* persists reject, and the host dies.                                     *)
(*                                                                         *)
(* Time is counted in minutes, the retry delay and the longest delay of    *)
(* the timer; timers fire late at will.  A cron expression is a period.    *)
(* The objects of schedules are numbered: the code tells a schedule that   *)
(* was changed by its identity.                                            *)
(***************************************************************************)
EXTENDS Naturals, Sequences, FiniteSets

CONSTANTS
    Schedules,
    Cron,       \* those with a cron expression; the others run once
    Period,
    Horizon,    \* the last minute
    Starts      \* the schedules there are at first, how often what may happen

Events == {"create", "edit", "retime", "pause", "resume", "delete",
           "fails", "reject", "crash"}

ASSUME SchedulesAssumption ==
    /\ IsFiniteSet(Schedules) /\ Cron \subseteq Schedules
    /\ Period \in Nat \ {0} /\ Horizon \in Nat

VARIABLES
    now,
    doc, saved, previous,   \* the document in memory, on disk, before the section
    section,                \* the holder of the FIFO lock, or "free"
    timer,                  \* when scheduleTimer fires, or Never
    run,                    \* scheduleRun: its stage and the schedules left to do
    retryAt,                \* scheduleRetryAt, by object
    host,
    unarmed,                \* a timer was given up for a change that was taken back
    left                    \* events that may still happen

vars == <<now, doc, saved, previous, section, timer, run, retryAt, host, unarmed, left>>

Never == Horizon + Period + 1
Times == 0 .. Never
Objects == 1 .. 4 * Cardinality(Schedules) + 1
Gone == [object |-> 0, text |-> 0, paused |-> TRUE, next |-> Never]

Slots == {Gone} \cup [object : Objects, text : Nat, paused : BOOLEAN, next : Times]

ASSUME StartsAssumption ==
    \A start \in Starts :
        start.schedule \in [Schedules -> Slots] /\ start.left \in [Events -> Nat]

\* nextCronRun.
NextCron(t) == (t \div Period + 1) * Period

Active(d) == {s \in Schedules : ~d.schedule[s].paused /\ d.schedule[s].next # Never}

\* armScheduleTimer.
Armed(d, retry) ==
    LET Wait(s) == IF d.schedule[s].next > now \/ retry[d.schedule[s].object] > now
                   THEN now + 1 ELSE now
    IN  IF Active(d) = {} THEN Never
        ELSE CHOOSE t \in {Wait(s) : s \in Active(d)} : \A s \in Active(d) : t <= Wait(s)

\* scheduleIsDue, of the object it was found as.
IsDue(entry) ==
    LET current == doc.schedule[entry.schedule]
    IN  /\ current.object = entry.object
        /\ ~current.paused /\ current.next <= now
        /\ retryAt[entry.object] <= now

Known(d) == {d.schedule[s].object : s \in Schedules}
Queued == {run.due[i].object : i \in DOMAIN run.due}
FreshObject ==
    CHOOSE o \in Objects : o \notin Known(doc) \cup Known(previous) \cup Queued

-----------------------------------------------------------------------------
(* Sections of the FIFO lock.                                              *)

Free == host = "up" /\ section = "free"

\* A section edits memory and persists it; a new object has no retry time yet.
Enter(name, d) ==
    /\ section' = name
    /\ previous' = doc /\ doc' = d
    /\ retryAt' = [retryAt EXCEPT ![FreshObject] = 0]

Spend(event) == left[event] > 0 /\ left' = [left EXCEPT ![event] = @ - 1]

Replace(s, schedule) == [doc EXCEPT !.schedule[s] = [schedule EXCEPT !.object = FreshObject]]

\* Once in the future, or at the expression's next time.
Timing(s, next) ==
    IF s \in Cron THEN next = NextCron(now) ELSE next > now /\ next <= Horizon

\* changeSchedule: an edit that keeps the timing keeps the occurrence.
Create(s) ==
    /\ Spend("create") /\ doc.schedule[s] = Gone
    /\ \E next \in Times : Timing(s, next) /\
         Enter("change", Replace(s, [Gone EXCEPT !.paused = FALSE, !.next = next]))

Edit(s) ==
    /\ Spend("edit") /\ doc.schedule[s] # Gone
    /\ Enter("change", Replace(s, [doc.schedule[s] EXCEPT !.text = @ + 1]))

Retime(s) ==
    /\ Spend("retime") /\ doc.schedule[s] # Gone
    /\ \E next \in Times : Timing(s, next) /\
         Enter("change", Replace(s, [doc.schedule[s] EXCEPT !.next = next]))

\* setSchedulePaused.
Pause(s) ==
    /\ Spend("pause") /\ doc.schedule[s] # Gone /\ doc.schedule[s].next # Never
    /\ Enter("change", Replace(s, [doc.schedule[s] EXCEPT !.paused = TRUE]))

Resume(s) ==
    /\ Spend("resume") /\ doc.schedule[s] # Gone /\ doc.schedule[s].next # Never
    /\ Enter("change", Replace(s, [doc.schedule[s] EXCEPT
                                     !.paused = FALSE,
                                     !.next = IF s \in Cron THEN NextCron(now) ELSE @]))

Delete(s) ==
    /\ Spend("delete") /\ doc.schedule[s] # Gone
    /\ Enter("change", [doc EXCEPT !.schedule[s] = Gone])

Change ==
    /\ Free
    /\ \E s \in Schedules : Create(s) \/ Edit(s) \/ Retime(s) \/ Pause(s) \/ Resume(s) \/ Delete(s)
    /\ UNCHANGED <<now, saved, timer, run, host, unarmed>>

-----------------------------------------------------------------------------
(* runDueSchedules.                                                        *)

NoRun == [stage |-> "none", due |-> <<>>]

\* The schedules that are due, the earliest first.
DueList(list) ==
    LET due == {s \in Active(doc) : doc.schedule[s].next <= now}
        key(i) == doc.schedule[list[i].schedule].next
    IN  /\ Len(list) = Cardinality(due)
        /\ {list[i].schedule : i \in DOMAIN list} = due
        /\ \A i \in DOMAIN list : list[i].object = doc.schedule[list[i].schedule].object
        /\ \A i, j \in DOMAIN list : i < j => key(i) <= key(j)

Entries ==
    {[schedule |-> s, object |-> doc.schedule[s].object, text |-> doc.schedule[s].text] :
        s \in Schedules}
Lists == UNION {[1 .. n -> Entries] : n \in 0 .. Cardinality(Schedules)}

\* The timer fires; while a run is under way, nothing comes of it.  The list and the
\* look at its first entry are two actions here and one step of the code: the look is
\* at the document of its own moment in either.
TimerFires ==
    /\ host = "up" /\ timer <= now
    /\ timer' = Never
    /\ IF run.stage = "none"
       THEN \E list \in Lists : DueList(list) /\ run' = [stage |-> "loop", due |-> list]
       ELSE UNCHANGED run
    /\ UNCHANGED <<now, doc, saved, previous, section, retryAt, host, unarmed, left>>

\* Slip: the timer is armed when a run begins, not when it has ended.
NextDueUnarmed ==
    /\ host = "up" /\ run.stage = "loop"
    /\ IF run.due = <<>>
       THEN run' = NoRun /\ UNCHANGED <<timer, unarmed>>
       ELSE /\ run' = IF IsDue(Head(run.due)) THEN [run EXCEPT !.stage = "preparing"]
                      ELSE [run EXCEPT !.due = Tail(@)]
            /\ UNCHANGED <<timer, unarmed>>
    /\ UNCHANGED <<now, doc, saved, previous, section, retryAt, host, left>>

\* The next of those that were due, if it still is; at the end the timer is armed.
NextDue ==
    /\ host = "up" /\ run.stage = "loop"
    /\ IF run.due = <<>>
       THEN /\ run' = NoRun
            /\ timer' = Armed(doc, retryAt)
            /\ unarmed' = (unarmed \/ (section = "change" /\ timer' = Never))
       ELSE /\ run' = IF IsDue(Head(run.due)) THEN [run EXCEPT !.stage = "preparing"]
                      ELSE [run EXCEPT !.due = Tail(@)]
            /\ UNCHANGED <<timer, unarmed>>
    /\ UNCHANGED <<now, doc, saved, previous, section, retryAt, host, left>>

GoOn == [stage |-> "loop", due |-> Tail(run.due)]
RetryLater == [retryAt EXCEPT ![Head(run.due).object] = now + 1]

\* prepareSend and the storage of attachments; the schedule is looked at again.
Prepared ==
    /\ host = "up" /\ run.stage = "preparing"
    /\ IF IsDue(Head(run.due))
       THEN run' = [run EXCEPT !.stage = "accepting"] /\ UNCHANGED retryAt
       ELSE run' = GoOn /\ retryAt' = RetryLater
    /\ UNCHANGED <<now, doc, saved, previous, section, timer, host, unarmed, left>>

\* Nobody to send to, no admission during an import or a drain, no space.
PrepareFails ==
    /\ host = "up" /\ run.stage = "preparing" /\ now < Horizon /\ Spend("fails")
    /\ run' = GoOn /\ retryAt' = RetryLater
    /\ UNCHANGED <<now, doc, saved, previous, section, timer, host, unarmed>>

\* commitAcceptedSend: message and next occurrence in one document.  The text is that
\* of the schedule as it was found due.
Accepted(entry) ==
    LET s == entry.schedule
        current == doc.schedule[s]
        message == [schedule |-> s, text |-> entry.text, occurrence |-> current.next]
    IN  [Replace(s, [current EXCEPT !.next = IF s \in Cron THEN NextCron(now) ELSE Never])
           EXCEPT !.sent = Append(@, message)]

\* Slip: the schedule is not looked at again inside the section.
AcceptUnchecked ==
    /\ Free /\ run.stage = "accepting"
    /\ doc.schedule[Head(run.due).schedule] # Gone
    /\ Enter("accept", Accepted(Head(run.due)))
    /\ run' = [run EXCEPT !.stage = "persisting"]
    /\ UNCHANGED <<now, saved, timer, host, unarmed, left>>

Accept ==
    /\ Free /\ run.stage = "accepting"
    /\ IF IsDue(Head(run.due))
       THEN /\ Enter("accept", Accepted(Head(run.due)))
            /\ run' = [run EXCEPT !.stage = "persisting"]
       ELSE /\ run' = GoOn /\ retryAt' = RetryLater
            /\ UNCHANGED <<section, previous, doc>>
    /\ UNCHANGED <<now, saved, timer, host, unarmed, left>>

-----------------------------------------------------------------------------
(* Persists, time and deaths.                                              *)

\* commitMutation arms the timer after its persist; the run goes on after its own.
Saved ==
    /\ host = "up" /\ section # "free"
    /\ saved' = doc /\ previous' = doc /\ section' = "free"
    /\ timer' = IF section = "change" THEN Armed(doc, retryAt) ELSE timer
    /\ run' = IF section = "accept" THEN GoOn ELSE run
    /\ unarmed' = (unarmed /\ section = "accept")
    /\ UNCHANGED <<now, doc, retryAt, host, left>>

\* Slip: an acceptance that could not be saved is not tried again.
RejectedForGood ==
    /\ host = "up" /\ section # "free" /\ now < Horizon /\ Spend("reject")
    /\ doc' = [previous EXCEPT !.schedule = IF section = "accept" THEN doc.schedule ELSE @]
    /\ section' = "free"
    /\ run' = IF section = "accept" THEN GoOn ELSE run
    /\ UNCHANGED <<now, saved, previous, timer, host, retryAt, unarmed>>

\* The persist rejects and the document is what it was.  A change that is taken back
\* does not arm the timer.
Rejected ==
    /\ host = "up" /\ section # "free" /\ now < Horizon /\ Spend("reject")
    /\ doc' = previous /\ section' = "free"
    /\ run' = IF section = "accept" THEN GoOn ELSE run
    /\ retryAt' = IF section = "accept" THEN RetryLater ELSE retryAt
    /\ UNCHANGED <<now, saved, previous, timer, host, unarmed>>

Tick ==
    /\ now < Horizon /\ now' = now + 1
    /\ UNCHANGED <<doc, saved, previous, section, timer, run, retryAt, host, unarmed, left>>

Crash ==
    /\ host = "up" /\ Spend("crash")
    /\ host' = "down"
    /\ UNCHANGED <<now, doc, saved, previous, section, timer, run, retryAt, unarmed>>

\* The document is loaded and the timer armed with the client's address.
Boot ==
    /\ host = "down" /\ host' = "up"
    /\ doc' = saved /\ previous' = saved /\ section' = "free"
    /\ run' = NoRun /\ unarmed' = FALSE
    /\ retryAt' = [o \in Objects \cup {0} |-> 0]
    /\ timer' = Armed(saved, retryAt')
    /\ UNCHANGED <<now, saved, left>>

-----------------------------------------------------------------------------
(* The specification.                                                      *)

Init ==
    \E start \in Starts :
      LET first == [schedule |-> start.schedule, sent |-> <<>>]
      IN  /\ now = 0 /\ left = start.left
          /\ doc = first /\ saved = first /\ previous = first
          /\ section = "free" /\ host = "up" /\ run = NoRun /\ unarmed = FALSE
          /\ retryAt = [o \in Objects \cup {0} |-> 0]
          /\ timer = Armed(first, [o \in Objects \cup {0} |-> 0])

HostStep == TimerFires \/ NextDue \/ Prepared \/ Accept

Next ==
    \/ HostStep \/ Saved \/ Boot \/ Tick
    \/ Change \/ PrepareFails \/ Rejected \/ Crash

\* Timers fire, promises settle, time goes on and the host is started again.
Spec ==
    Init /\ [][Next]_vars /\ WF_vars(HostStep) /\ WF_vars(Saved) /\ WF_vars(Boot) /\ WF_vars(Tick)

-----------------------------------------------------------------------------
(* Properties.                                                             *)

\* The values of the document, the run and the timer.
TypeOK ==
    /\ now \in 0 .. Horizon /\ timer \in Times
    /\ \A d \in {doc, saved, previous} : d.schedule \in [Schedules -> Slots]
    /\ section = "accept" => run.stage = "persisting"
    /\ Free => doc = saved
    /\ run.stage \in {"preparing", "accepting", "persisting"} => run.due # <<>>

\* Each occurrence is sent once at most: neither a retry, a rejected persist, an edit
\* nor a process death between the message and its schedule repeats one, and
\* occurrences that were missed coalesce (docs/specs/product-spec.md, CON-12).
SentOnce ==
    \A i, j \in DOMAIN saved.sent :
        i < j /\ saved.sent[i].schedule = saved.sent[j].schedule
            => saved.sent[i].occurrence < saved.sent[j].occurrence

\* docs/guides/architecture.md: the host "holds a timer for the next active schedule
\* while the host is running", or is running schedules and arms it then.  The exception
\* is a timer that fires while a change is saved that leaves no active schedule, and
\* is then taken back.
TimerHeld ==
    Free /\ Active(doc) # {} => timer # Never \/ run.stage # "none" \/ unarmed

\* What holds of the schedules in every state.
SchedulesConsistent ==
    /\ TypeOK
    /\ SentOnce
    /\ TimerHeld

\* Nothing is sent for a schedule after its pause or deletion was saved, nor with
\* another text than the last that was saved, however long the send was on its way.
SendsWhatIsSaved ==
    [][Len(saved'.sent) > Len(saved.sent) =>
         LET message == saved'.sent[Len(saved'.sent)]
             schedule == saved.schedule[message.schedule]
         IN  /\ ~schedule.paused
             /\ schedule.text = message.text /\ schedule.next = message.occurrence]_vars

\* A schedule that is due is sent, paused, moved or deleted at some time, through failed
\* preparations, rejected persists and restarts; the exception is that of TimerHeld.
DueIsServed ==
    \A s \in Schedules :
        s \in Active(saved) /\ saved.schedule[s].next <= now
            ~> unarmed \/ s \notin Active(saved) \/ saved.schedule[s].next > now

=============================================================================
