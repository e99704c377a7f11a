----------------------- MODULE ScheduledMessagesProofs -----------------------
(***************************************************************************)
(* No occurrence of a schedule is sent twice, nothing is sent that was not *)
(* the saved schedule, and the timer is held while a schedule is active:   *)
(* for any schedules, any period and any events.                           *)
(***************************************************************************)
EXTENDS ScheduledMessages, FiniteSetTheorems, TLAPS

-----------------------------------------------------------------------------
(* The inductive invariant.                                                *)

Messages  == [schedule : Schedules, text : Nat, occurrence : Times]
Documents == [schedule : [Schedules -> Slots], sent : Seq(Messages)]
Due       == [schedule : Schedules, object : Objects, text : Nat]
Working   == {"preparing", "accepting", "persisting"}

ShapeInv ==
    /\ now \in 0 .. Horizon /\ timer \in Times
    /\ doc \in Documents /\ saved \in Documents /\ previous = saved
    /\ section \in {"free", "change", "accept"}
    /\ run \in [stage : Working \cup {"none", "loop"}, due : Seq(Due)]
    /\ Len(run.due) <= Cardinality(Schedules)

RunInv ==
    /\ section = "accept" => run.stage = "persisting"
    /\ run.stage \in Working => run.due # <<>>

\* The message is that of the saved schedule.
Matches(message) ==
    LET schedule == saved.schedule[message.schedule]
    IN  /\ ~schedule.paused
        /\ schedule.text = message.text /\ schedule.next = message.occurrence

\* Only a section that accepts adds a message to what is saved.
SectionInv ==
    /\ section = "free" => doc = saved
    /\ section = "change" => doc.sent = saved.sent
    /\ section = "accept" =>
         \E message \in Messages : doc.sent = Append(saved.sent, message) /\ Matches(message)

\* An object has one text, in either document and in the list of a run.
ObjectInv ==
    /\ \A s \in Schedules :
         doc.schedule[s].object = saved.schedule[s].object
           => doc.schedule[s].text = saved.schedule[s].text
    /\ \A d \in {doc, saved} : \A i \in 1 .. Len(run.due) :
         d.schedule[run.due[i].schedule].object = run.due[i].object
           => d.schedule[run.due[i].schedule].text = run.due[i].text

\* The occurrences of a schedule were sent in order, and the next is still to come.
Ordered(d) ==
    \A i \in 1 .. Len(d.sent) :
        /\ d.sent[i].occurrence <= now
        /\ d.sent[i].occurrence < d.schedule[d.sent[i].schedule].next
        /\ \A j \in 1 .. Len(d.sent) :
             j < i /\ d.sent[j].schedule = d.sent[i].schedule
               => d.sent[j].occurrence < d.sent[i].occurrence

SentInv == Ordered(doc) /\ Ordered(saved)

TimerInv ==
    host = "up" /\ Active(saved) # {} => timer # Never \/ run.stage # "none" \/ unarmed

IInv == ShapeInv /\ RunInv /\ SectionInv /\ ObjectInv /\ SentInv /\ TimerInv

-----------------------------------------------------------------------------
(* Times, timers and new objects.                                          *)

LEMMA Minutes ==
  /\ Horizon \in Nat /\ Period \in Nat /\ Period > 0
  /\ Never \in Times /\ Horizon + 1 < Never /\ Times \subseteq Nat
  /\ 0 .. Horizon \subseteq Nat
BY SchedulesAssumption DEF Never, Times

LEMMA CronIsLater ==
  ASSUME NEW t \in 0 .. Horizon
  PROVE  NextCron(t) \in Times /\ NextCron(t) > t
<1> DEFINE q == t \div Period
           r == t % Period
<1>1. q \in Nat /\ r \in Nat /\ r < Period /\ t = Period * q + r
    BY SchedulesAssumption
<1>2. (q + 1) * Period = Period * q + Period
    BY <1>1, SchedulesAssumption
<1>3. Period * q \in Nat
    BY <1>1, SchedulesAssumption
<1> HIDE DEF q, r
<1>4. (q + 1) * Period > t /\ (q + 1) * Period \in Nat /\ (q + 1) * Period <= t + Period
    BY <1>1, <1>2, <1>3, SchedulesAssumption
<1>5. NextCron(t) = (q + 1) * Period
    BY DEF NextCron, q
<1> QED BY <1>4, <1>5, Minutes DEF Times, Never

\* The earliest time a timer waits for is at most a minute away.
LEMMA ArmedIsSoon ==
  ASSUME now \in 0 .. Horizon, NEW d, NEW retry
  PROVE  /\ Armed(d, retry) \in Times
         /\ Active(d) # {} => Armed(d, retry) # Never
<1> DEFINE W(s) == IF d.schedule[s].next > now \/ retry[d.schedule[s].object] > now
                   THEN now + 1 ELSE now
           S == {W(s) : s \in Active(d)}
           P(t) == \A s \in Active(d) : t <= W(s)
<1>1. CASE Active(d) = {}
    BY <1>1, Minutes DEF Armed
<1>2. CASE Active(d) # {}
  <2>1. \A s \in Active(d) : W(s) \in {now, now + 1}
    OBVIOUS
  <2>2. now \in Nat /\ now <= Horizon
    BY Minutes
  <2>3. \E t \in S : P(t)
    <3>1. CASE now \in S
        BY <2>1, <2>2, <3>1
    <3>2. CASE now \notin S
      <4>1. \A s \in Active(d) : W(s) = now + 1
        BY <2>1, <3>2
      <4> HIDE DEF W
      <4> QED BY <1>2, <2>2, <4>1
    <3> QED BY <3>1, <3>2
  <2>4. Armed(d, retry) = CHOOSE t \in S : P(t)
    BY <1>2 DEF Armed
  <2>5. Armed(d, retry) \in S
    BY <2>3, <2>4
  <2>6. Armed(d, retry) \in {now, now + 1}
    BY <2>1, <2>5
  <2> QED BY <2>2, <2>6, Minutes DEF Times, Never
<1> QED BY <1>1, <1>2

LEMMA Few ==
  ASSUME NEW S, IsFiniteSet(S), NEW f, NEW T, T = {f[x] : x \in S}
  PROVE  IsFiniteSet(T) /\ Cardinality(T) <= Cardinality(S)
         /\ Cardinality(T) \in Nat /\ Cardinality(S) \in Nat
<1> DEFINE g == [x \in S |-> f[x]]
<1>1. g \in Surjection(S, T)
    BY DEF Surjection
<1>2. IsFiniteSet(T) /\ Cardinality(T) <= Cardinality(S)
    BY <1>1, FS_Surjection
<1> QED BY <1>2, FS_CardinalityType

\* There is always an object that no schedule and no list holds.
LEMMA Fresh ==
  ASSUME IInv
  PROVE  /\ FreshObject \in Objects /\ FreshObject # 0
         /\ \A s \in Schedules : /\ doc.schedule[s].object # FreshObject
                                 /\ saved.schedule[s].object # FreshObject
         /\ \A i \in 1 .. Len(run.due) : run.due[i].object # FreshObject
<1> DEFINE n == Cardinality(Schedules)
           K == Known(doc) \cup Known(previous)
           U == K \cup Queued
<1>1. n \in Nat /\ Len(run.due) \in Nat /\ Len(run.due) <= n /\ DOMAIN run.due = 1 .. Len(run.due)
    BY FS_CardinalityType, SchedulesAssumption DEF IInv, ShapeInv
<1>2. ASSUME NEW d
      PROVE  IsFiniteSet(Known(d)) /\ Cardinality(Known(d)) <= n /\ Cardinality(Known(d)) \in Nat
  <2> DEFINE f == [s \in Schedules |-> d.schedule[s].object]
  <2>1. Known(d) = {f[s] : s \in Schedules}
    BY DEF Known
  <2> HIDE DEF f
  <2> QED BY <2>1, Few, SchedulesAssumption
<1>3. IsFiniteSet(Queued) /\ Cardinality(Queued) <= n /\ Cardinality(Queued) \in Nat
  <2> DEFINE k == Len(run.due)
             S == 1 .. k
             f == [i \in S |-> run.due[i].object]
  <2>1. Queued = {f[i] : i \in S}
    BY <1>1 DEF Queued
  <2>2. k \in Int /\ (1 > k => k = 0) /\ k \in Nat /\ k <= n
    BY <1>1
  <2> HIDE DEF f, k
  <2>3. IsFiniteSet(S) /\ Cardinality(S) = k
    BY <2>2, FS_Interval
  <2> HIDE DEF S
  <2>4. IsFiniteSet(Queued) /\ Cardinality(Queued) <= Cardinality(S) /\ Cardinality(Queued) \in Nat
    BY <2>1, <2>3, Few
  <2> HIDE DEF n
  <2> QED BY <1>1, <2>2, <2>3, <2>4
<1>4. IsFiniteSet(K) /\ Cardinality(K) <= 2 * n /\ Cardinality(K) \in Nat
  <2>1. /\ IsFiniteSet(K)
        /\ Cardinality(K) = Cardinality(Known(doc)) + Cardinality(Known(previous))
                            - Cardinality(Known(doc) \cap Known(previous))
    BY <1>2, FS_Union
  <2>2. Cardinality(Known(doc) \cap Known(previous)) \in Nat
    BY <1>2, FS_Intersection, FS_CardinalityType
  <2>3. Cardinality(K) \in Nat
    BY <2>1, FS_CardinalityType
  <2> QED BY <1>1, <1>2, <2>1, <2>2, <2>3
<1>5. IsFiniteSet(U) /\ Cardinality(U) <= 3 * n /\ Cardinality(U) \in Nat
  <2>1. /\ IsFiniteSet(U)
        /\ Cardinality(U) = Cardinality(K) + Cardinality(Queued) - Cardinality(K \cap Queued)
    BY <1>3, <1>4, FS_Union
  <2>2. Cardinality(K \cap Queued) \in Nat
    BY <1>4, FS_Intersection, FS_CardinalityType
  <2>3. Cardinality(U) \in Nat
    BY <2>1, FS_CardinalityType
  <2> HIDE DEF K, U
  <2> QED BY <1>1, <1>3, <1>4, <2>1, <2>2, <2>3
<1>6. Cardinality(Objects) = 4 * n + 1
    BY <1>1, FS_Interval DEF Objects
<1>7. \E o \in Objects : o \notin U
  <2> SUFFICES ASSUME Objects \subseteq U PROVE FALSE
    OBVIOUS
  <2>1. Cardinality(Objects) <= Cardinality(U)
    BY <1>5, FS_Subset
  <2> HIDE DEF U
  <2> QED BY <1>1, <1>5, <1>6, <2>1
<1>8. FreshObject \in Objects /\ FreshObject \notin U
    BY <1>7 DEF FreshObject
<1>9. FreshObject # 0
    BY <1>1, <1>8 DEF Objects
<1> QED BY <1>1, <1>8, <1>9 DEF Known, Queued, IInv, ShapeInv

\* What an update of a schedule is; the sets are any, so that a leaf meets one kind of value.
LEMMA Updated ==
  ASSUME NEW O, NEW P, NEW T, NEW B, NEW N,
         NEW slot \in [object : P, text : T, paused : B, next : N],
         NEW o \in O, NEW t \in T, NEW p \in B, NEW n \in N
  PROVE  LET R == [object : O, text : T, paused : B, next : N]
             a == [[slot EXCEPT !.text = t] EXCEPT !.object = o]
             b == [[slot EXCEPT !.next = n] EXCEPT !.object = o]
             c == [[slot EXCEPT !.paused = p] EXCEPT !.object = o]
             d == [[slot EXCEPT !.paused = p, !.next = n] EXCEPT !.object = o]
         IN  /\ a \in R /\ a.object = o /\ a.next = slot.next
             /\ b \in R /\ b.object = o /\ b.next = n
             /\ c \in R /\ c.object = o /\ c.next = slot.next
             /\ d \in R /\ d.object = o /\ d.next = n
OBVIOUS

LEMMA OneSchedule ==
  ASSUME NEW S, NEW V, NEW M, NEW x \in [schedule : [S -> V], sent : M], NEW s \in S, NEW v \in V
  PROVE  LET y == [x EXCEPT !.schedule[s] = v]
         IN  /\ y \in [schedule : [S -> V], sent : M]
             /\ y.sent = x.sent /\ y.schedule = [x.schedule EXCEPT ![s] = v]
OBVIOUS

LEMMA Fields ==
  ASSUME NEW P, NEW T, NEW B, NEW N,
         NEW slot \in [object : P, text : T, paused : B, next : N]
  PROVE  slot.object \in P /\ slot.text \in T /\ slot.paused \in B /\ slot.next \in N
OBVIOUS

Rows == [object : Objects, text : Nat, paused : BOOLEAN, next : Times]

LEMMA GoneShape ==
  /\ Gone \in [object : {0}, text : Nat, paused : BOOLEAN, next : Times]
  /\ Gone.object = 0 /\ Gone.text = 0 /\ Gone.next = Never /\ Gone \in Slots
<1>1. 0 \in {0} /\ 0 \in Nat /\ TRUE \in BOOLEAN /\ Never \in Times
    BY Minutes
<1>2. Gone \in [object : {0}, text : Nat, paused : BOOLEAN, next : Times]
    BY Zenon, <1>1 DEF Gone
<1> QED BY <1>2 DEF Gone, Slots

LEMMA SlotShape ==
  ASSUME NEW slot \in Slots
  PROVE  /\ slot = Gone \/ slot \in Rows
         /\ slot.object = 0 <=> slot = Gone
         /\ slot.object \in Objects <=> slot # Gone
         /\ slot.text \in Nat /\ slot.next \in Times /\ slot.next \in Nat
<1>1. 0 \notin Objects
    BY DEF Objects
<1>2. slot = Gone \/ slot \in Rows
    BY Zenon DEF Slots, Rows
<1>3. CASE slot \in Rows
  <2>1. slot.object \in Objects /\ slot.text \in Nat /\ slot.next \in Times
    BY <1>3, Fields DEF Rows
  <2> HIDE <1>3 DEF Rows
  <2> QED BY <1>1, <1>2, <2>1, GoneShape, Minutes
<1>4. CASE slot = Gone
  <2>1. Gone.object = 0 /\ Gone.text = 0 /\ Gone.next = Never
    BY GoneShape
  <2> QED BY <1>1, <1>4, <2>1, Minutes
<1> QED BY <1>2, <1>3, <1>4

LEMMA RowsAreSlots == Rows \subseteq Slots
BY Zenon DEF Slots, Rows

\* What documents and lists are made of.
LEMMA Elements ==
  ASSUME IInv
  PROVE  /\ run.due \in Seq(Due) /\ Len(run.due) \in Nat
         /\ \A i \in 1 .. Len(run.due) :
              run.due[i].schedule \in Schedules /\ run.due[i].object \in Objects
                /\ run.due[i].text \in Nat
         /\ \A q \in Schedules : doc.schedule[q] \in Slots /\ saved.schedule[q] \in Slots
         /\ doc.sent \in Seq(Messages)
         /\ \A i \in 1 .. Len(doc.sent) :
              doc.sent[i].schedule \in Schedules /\ doc.sent[i].occurrence \in Nat
         /\ now \in Nat /\ now <= Horizon
<1>1. run.due \in Seq(Due) /\ doc.sent \in Seq(Messages)
    BY DEF IInv, ShapeInv, Documents
<1>2. \A i \in 1 .. Len(run.due) : run.due[i] \in Due
    BY <1>1
<1>3. \A i \in 1 .. Len(doc.sent) : doc.sent[i] \in Messages
    BY <1>1
<1>4. \A q \in Schedules : doc.schedule[q] \in Slots /\ saved.schedule[q] \in Slots
    BY DEF IInv, ShapeInv, Documents
<1>5. now \in Nat /\ now <= Horizon
    BY Minutes DEF IInv, ShapeInv
<1>6. Len(run.due) \in Nat
    BY <1>1
<1>7. \A m \in Messages : m.schedule \in Schedules /\ m.occurrence \in Nat
    BY Minutes DEF Messages
<1>8. \A e \in Due : e.schedule \in Schedules /\ e.object \in Objects /\ e.text \in Nat
    BY DEF Due
<1> QED BY <1>1, <1>2, <1>3, <1>4, <1>5, <1>6, <1>7, <1>8

-----------------------------------------------------------------------------
(* Sections begin.                                                         *)

\* A document that differs in one schedule, which has a new object or is gone.
LEMMA OneSlot ==
  ASSUME IInv, Free, NEW s \in Schedules, NEW slot \in Slots,
         slot = Gone \/ slot.object = FreshObject,
         doc'.schedule = [doc.schedule EXCEPT ![s] = slot]
  PROVE  /\ \A q \in Schedules :
               doc'.schedule[q].object = saved.schedule[q].object
                 => doc'.schedule[q].text = saved.schedule[q].text
         /\ \A i \in 1 .. Len(run.due) :
               doc'.schedule[run.due[i].schedule].object = run.due[i].object
                 => doc'.schedule[run.due[i].schedule].text = run.due[i].text
<1>1. doc = saved
    BY DEF Free, IInv, SectionInv
<1>2. doc'.schedule[s] = slot /\ \A q \in Schedules \ {s} : doc'.schedule[q] = saved.schedule[q]
    BY <1>1 DEF IInv, ShapeInv, Documents
<1>3. slot.object \notin Objects => slot = Gone
    BY SlotShape
<1>4. ASSUME NEW q \in Schedules, doc'.schedule[q].object = saved.schedule[q].object
      PROVE  doc'.schedule[q].text = saved.schedule[q].text
  <2>1. CASE q # s
    BY <1>2, <2>1
  <2>2. CASE q = s /\ slot = Gone
    <3>1. saved.schedule[s].object = 0 /\ saved.schedule[s] \in Slots
        BY <1>2, <1>4, <2>2, Elements, SlotShape
    <3>2. saved.schedule[s] = Gone
        BY <3>1, SlotShape
    <3> QED BY <1>2, <2>2, <3>2
  <2>3. CASE q = s /\ slot.object = FreshObject
    BY <1>2, <1>4, <2>3, Fresh
  <2> QED BY <2>1, <2>2, <2>3
<1>5. ASSUME NEW i \in 1 .. Len(run.due),
             doc'.schedule[run.due[i].schedule].object = run.due[i].object
      PROVE  doc'.schedule[run.due[i].schedule].text = run.due[i].text
  <2>1. run.due[i].schedule \in Schedules /\ run.due[i].object \in Objects
    BY Elements
  <2>2. CASE run.due[i].schedule # s
    BY <1>1, <1>2, <1>5, <2>1, <2>2 DEF IInv, ObjectInv
  <2>3. CASE run.due[i].schedule = s
    <3>1. slot.object = run.due[i].object
        BY <1>2, <1>5, <2>3
    <3>2. slot.object # FreshObject /\ slot # Gone
        BY <2>1, <3>1, Fresh, SlotShape
    <3> QED BY <3>2
  <2> QED BY <2>2, <2>3
<1> QED BY <1>4, <1>5

LEMMA ChangePreserves ==
  ASSUME IInv, Change
  PROVE  IInv'
<1>1. PICK s \in Schedules : Create(s) \/ Edit(s) \/ Retime(s) \/ Pause(s) \/ Resume(s) \/ Delete(s)
    BY DEF Change
<1>2. /\ Free /\ section' = "change" /\ previous' = doc
      /\ UNCHANGED <<now, saved, timer, run, host, unarmed>>
    BY <1>1 DEF Change, Create, Edit, Retime, Pause, Resume, Delete, Enter
<1>3. doc = saved /\ doc \in Documents /\ now \in 0 .. Horizon /\ now \in Nat
      /\ doc.schedule[s] \in Slots
    BY <1>2, Minutes DEF Free, IInv, ShapeInv, SectionInv, Documents
<1>4. FreshObject \in Objects
    BY Fresh
<1> DEFINE Kept(slot) == /\ slot \in Slots /\ (slot = Gone \/ slot.object = FreshObject)
                         /\ slot.next > now \/ slot.next = doc.schedule[s].next
                         /\ doc' = [doc EXCEPT !.schedule[s] = slot]
<1>5. ASSUME NEW next \in Times, Timing(s, next)
      PROVE  next > now
    BY <1>3, <1>5, CronIsLater DEF Timing
<1>6. doc.schedule[s] # Gone => doc.schedule[s] \in Rows
    BY <1>3, SlotShape
<1>7. \E slot : Kept(slot)
  <2> DEFINE current == doc.schedule[s]
  <2>1. CASE Create(s)
    <3>1. PICK next \in Times :
             Timing(s, next) /\ doc' = Replace(s, [Gone EXCEPT !.paused = FALSE, !.next = next])
        BY <2>1 DEF Create, Enter
    <3> DEFINE slot == [[Gone EXCEPT !.paused = FALSE, !.next = next] EXCEPT !.object = FreshObject]
    <3>2. slot \in Rows /\ slot.object = FreshObject /\ slot.next = next
        BY <1>4, GoneShape, Updated DEF Rows
    <3>3. doc' = [doc EXCEPT !.schedule[s] = slot]
        BY <3>1 DEF Replace
    <3> HIDE DEF slot
    <3> QED BY <1>5, <3>1, <3>2, <3>3, RowsAreSlots
  <2>2. CASE Edit(s)
    <3> DEFINE slot == [[current EXCEPT !.text = @ + 1] EXCEPT !.object = FreshObject]
    <3>1. current \in Rows /\ current.text + 1 \in Nat
        BY <1>3, <1>6, <2>2, SlotShape DEF Edit
    <3>2. slot \in Rows /\ slot.object = FreshObject /\ slot.next = current.next
        BY <1>4, <3>1, Updated DEF Rows
    <3>3. doc' = [doc EXCEPT !.schedule[s] = slot]
        BY <2>2 DEF Edit, Enter, Replace
    <3> HIDE DEF slot
    <3> QED BY <3>2, <3>3, RowsAreSlots
  <2>3. CASE Retime(s)
    <3>1. PICK next \in Times : Timing(s, next) /\ doc' = Replace(s, [current EXCEPT !.next = next])
        BY <2>3 DEF Retime, Enter
    <3> DEFINE slot == [[current EXCEPT !.next = next] EXCEPT !.object = FreshObject]
    <3>2. slot \in Rows /\ slot.object = FreshObject /\ slot.next = next
        BY <1>4, <1>6, <2>3, Updated DEF Rows, Retime
    <3>3. doc' = [doc EXCEPT !.schedule[s] = slot]
        BY <3>1 DEF Replace
    <3> HIDE DEF slot
    <3> QED BY <1>5, <3>1, <3>2, <3>3, RowsAreSlots
  <2>4. CASE Pause(s)
    <3> DEFINE slot == [[current EXCEPT !.paused = TRUE] EXCEPT !.object = FreshObject]
    <3>1. slot \in Rows /\ slot.object = FreshObject /\ slot.next = current.next
        BY <1>4, <1>6, <2>4, Updated DEF Rows, Pause
    <3>2. doc' = [doc EXCEPT !.schedule[s] = slot]
        BY <2>4 DEF Pause, Enter, Replace
    <3> HIDE DEF slot
    <3> QED BY <3>1, <3>2, RowsAreSlots
  <2>5. CASE Resume(s)
    <3> DEFINE next == IF s \in Cron THEN NextCron(now) ELSE current.next
               slot == [[current EXCEPT !.paused = FALSE, !.next = next] EXCEPT !.object = FreshObject]
    <3>1. next \in Times /\ (next > now \/ next = current.next)
      <4>1. current.next \in Times
        BY <1>3, SlotShape
      <4> QED BY <1>3, <4>1, CronIsLater
    <3>2. doc' = [doc EXCEPT !.schedule[s] = slot]
        BY <2>5 DEF Resume, Enter, Replace
    <3> HIDE DEF next
    <3>3. slot \in Rows /\ slot.object = FreshObject /\ slot.next = next
        BY <1>4, <1>6, <2>5, <3>1, Updated DEF Rows, Resume
    <3> HIDE DEF slot
    <3> QED BY <3>1, <3>2, <3>3, RowsAreSlots
  <2>6. CASE Delete(s)
    <3>1. Gone \in Slots /\ Gone.next > now
        BY <1>3, Minutes, GoneShape, Elements
    <3>2. doc' = [doc EXCEPT !.schedule[s] = Gone]
        BY <2>6 DEF Delete, Enter
    <3> QED BY <3>1, <3>2
  <2> QED BY <1>1, <2>1, <2>2, <2>3, <2>4, <2>5, <2>6
<1>8. PICK slot : Kept(slot)
    BY <1>7
<1>9. /\ doc' \in Documents /\ doc'.sent = doc.sent
      /\ doc'.schedule = [doc.schedule EXCEPT ![s] = slot]
  <2>1. slot \in Slots /\ doc' = [doc EXCEPT !.schedule[s] = slot]
    BY <1>8
  <2> QED BY <1>3, <2>1, OneSchedule DEF Documents
<1>10. ShapeInv'
    BY <1>2, <1>3, <1>9 DEF IInv, ShapeInv
<1>11. RunInv' /\ TimerInv' /\ SectionInv'
    BY <1>2, <1>3, <1>9 DEF IInv, RunInv, TimerInv, SectionInv, Free, Active
<1>12. ObjectInv'
  <2>1. slot \in Slots /\ (slot = Gone \/ slot.object = FreshObject) /\ Free
    BY <1>2, <1>8
  <2>2. /\ \A q \in Schedules :
               doc'.schedule[q].object = saved.schedule[q].object
                 => doc'.schedule[q].text = saved.schedule[q].text
        /\ \A i \in 1 .. Len(run.due) :
               doc'.schedule[run.due[i].schedule].object = run.due[i].object
                 => doc'.schedule[run.due[i].schedule].text = run.due[i].text
    BY <1>9, <2>1, OneSlot
  <2> QED BY <1>2, <2>2 DEF IInv, ObjectInv
<1>13. SentInv'
  <2>1. Ordered(saved)'
    BY <1>2 DEF IInv, SentInv, Ordered
  <2>2. ASSUME NEW q \in Schedules
        PROVE  doc'.schedule[q].next > now \/ doc'.schedule[q].next = doc.schedule[q].next
    BY <1>3, <1>8, <1>9 DEF Documents
  <2>3. ASSUME NEW i \in 1 .. Len(doc.sent)
        PROVE  doc.sent[i].occurrence < doc'.schedule[doc.sent[i].schedule].next
    <3>1. doc.sent[i].schedule \in Schedules /\ doc.sent[i].occurrence \in Nat
        BY Elements
    <3>2. doc'.schedule[doc.sent[i].schedule] \in Slots
        BY <1>9, <3>1 DEF Documents
    <3>3. doc'.schedule[doc.sent[i].schedule].next \in Nat
      <4>1. \A q \in Slots : q.next \in Nat
        BY SlotShape
      <4> QED BY <3>2, <4>1
    <3>4. /\ doc.sent[i].occurrence <= now
          /\ doc.sent[i].occurrence < doc.schedule[doc.sent[i].schedule].next
        BY DEF IInv, SentInv, Ordered
    <3>5. \/ doc'.schedule[doc.sent[i].schedule].next > now
          \/ doc'.schedule[doc.sent[i].schedule].next = doc.schedule[doc.sent[i].schedule].next
        BY <2>2, <3>1
    <3> QED BY <1>3, <3>1, <3>3, <3>4, <3>5
  <2>4. Ordered(doc)'
    BY <1>2, <1>9, <2>3 DEF IInv, SentInv, Ordered
  <2> QED BY <2>1, <2>4 DEF SentInv
<1> QED BY <1>10, <1>11, <1>12, <1>13 DEF IInv

\* Accept's section: the message is that of the saved schedule, and the next is later.
LEMMA AcceptPreserves ==
  ASSUME IInv, Accept, IsDue(Head(run.due))
  PROVE  IInv'
<1> DEFINE entry == Head(run.due)
           s == entry.schedule
           current == doc.schedule[s]
           next == IF s \in Cron THEN NextCron(now) ELSE Never
           slot == [[current EXCEPT !.next = next] EXCEPT !.object = FreshObject]
           message == [schedule |-> s, text |-> entry.text, occurrence |-> current.next]
<1>1. /\ Free /\ run.stage = "accepting" /\ section' = "accept" /\ previous' = doc
      /\ doc' = Accepted(entry) /\ run' = [run EXCEPT !.stage = "persisting"]
      /\ UNCHANGED <<now, saved, timer, host, unarmed>>
    BY DEF Accept, Enter
<1>2. run.due # <<>> /\ 1 \in 1 .. Len(run.due) /\ entry = run.due[1]
  <2>1. run.due # <<>>
    BY <1>1 DEF IInv, RunInv, Working
  <2> QED BY <2>1, Elements
<1>3. s \in Schedules /\ entry.object \in Objects /\ entry.text \in Nat
    BY <1>2, Elements
<1>4. doc = saved /\ doc \in Documents /\ current \in Slots /\ now \in Nat
      /\ now \in 0 .. Horizon /\ now <= Horizon
    BY <1>1, <1>3, Elements DEF Free, IInv, ShapeInv, SectionInv
<1>5. current.object = entry.object /\ ~current.paused /\ current.next <= now
    BY DEF IsDue
<1>6. current.text = entry.text
    BY <1>2, <1>5 DEF IInv, ObjectInv
<1>7. current \in Rows /\ current.next \in Times /\ current.next \in Nat
    BY <1>3, <1>4, <1>5, SlotShape
<1>8. next \in Times /\ next > now
  <2>1. NextCron(now) \in Times /\ NextCron(now) > now
    BY <1>4, CronIsLater
  <2>2. Never \in Times /\ Never > now
    BY <1>4, Minutes
  <2> QED BY <2>1, <2>2
<1>9. slot \in Rows /\ slot \in Slots /\ slot.object = FreshObject /\ slot.next = next
  <2>1. FreshObject \in Objects
    BY Fresh
  <2> HIDE DEF next
  <2>2. slot \in Rows /\ slot.object = FreshObject /\ slot.next = next
    BY <1>7, <1>8, <2>1, Updated DEF Rows
  <2> HIDE DEF slot
  <2> QED BY <2>2, RowsAreSlots
<1>10. message \in Messages /\ message.schedule = s /\ message.text = entry.text
       /\ message.occurrence = current.next
    BY <1>3, <1>7 DEF Messages
<1>11. /\ doc' = [[doc EXCEPT !.schedule[s] = slot] EXCEPT !.sent = Append(@, message)]
    BY <1>1 DEF Accepted, Replace
<1> HIDE DEF message, slot, next
<1>12. /\ doc' \in Documents /\ doc'.sent = Append(doc.sent, message)
       /\ doc'.schedule = [doc.schedule EXCEPT ![s] = slot]
       /\ doc.sent \in Seq(Messages)
  <2> DEFINE d == [doc EXCEPT !.schedule[s] = slot]
  <2>1. /\ d \in Documents /\ d.sent = doc.sent
        /\ d.schedule = [doc.schedule EXCEPT ![s] = slot]
    BY <1>3, <1>4, <1>9, OneSchedule DEF Documents
  <2>2. doc' = [d EXCEPT !.sent = Append(d.sent, message)]
    BY <1>11
  <2>3. doc.sent \in Seq(Messages)
    BY Elements
  <2> HIDE DEF d
  <2>4. Append(d.sent, message) \in Seq(Messages)
    BY <1>10, <2>1, <2>3
  <2>5. /\ doc' \in Documents /\ doc'.sent = Append(d.sent, message)
        /\ doc'.schedule = d.schedule
    BY <2>1, <2>2, <2>4 DEF Documents
  <2> QED BY <2>1, <2>3, <2>5
<1>13. ShapeInv'
  <2>1. run' \in [stage : Working \cup {"none", "loop"}, due : Seq(Due)] /\ run'.due = run.due
    BY <1>1 DEF IInv, ShapeInv, Working
  <2> QED BY <1>1, <1>4, <1>12, <2>1 DEF IInv, ShapeInv
<1>14. RunInv' /\ TimerInv'
  <2>1. run'.stage = "persisting" /\ run'.due = run.due
    BY <1>1 DEF IInv, ShapeInv
  <2> QED BY <1>1, <1>2, <2>1 DEF RunInv, TimerInv
<1>15. SectionInv'
  <2>1. Matches(message)
    BY <1>4, <1>5, <1>6, <1>10 DEF Matches
  <2>2. PICK m \in Messages : doc'.sent = Append(saved.sent, m) /\ Matches(m)
    BY <1>4, <1>10, <1>12, <2>1
  <2>3. Matches(m)'
    BY <1>1, <2>2 DEF Matches
  <2> QED BY <1>1, <2>2, <2>3 DEF SectionInv
<1>16. ObjectInv'
  <2>1. /\ \A q \in Schedules :
               doc'.schedule[q].object = saved.schedule[q].object
                 => doc'.schedule[q].text = saved.schedule[q].text
        /\ \A i \in 1 .. Len(run.due) :
               doc'.schedule[run.due[i].schedule].object = run.due[i].object
                 => doc'.schedule[run.due[i].schedule].text = run.due[i].text
    BY <1>1, <1>3, <1>9, <1>12, OneSlot
  <2>2. run'.due = run.due
    BY <1>1 DEF IInv, ShapeInv
  <2>3. \A i \in 1 .. Len(run.due) :
               saved.schedule[run.due[i].schedule].object = run.due[i].object
                 => saved.schedule[run.due[i].schedule].text = run.due[i].text
    BY DEF IInv, ObjectInv
  <2> QED BY <1>1, <2>1, <2>2, <2>3 DEF ObjectInv
<1>17. SentInv'
  <2>1. Ordered(saved)'
    BY <1>1 DEF IInv, SentInv, Ordered
  <2> DEFINE n == Len(doc.sent)
             q == Append(doc.sent, message)
  <2>2. n \in Nat /\ Len(q) = n + 1 /\ q[n + 1] = message /\ \A i \in 1 .. n : q[i] = doc.sent[i]
    BY <1>12
  <2>3. ASSUME NEW i \in 1 .. n
        PROVE  /\ q[i].occurrence <= now
               /\ q[i].occurrence < doc'.schedule[q[i].schedule].next
               /\ q[i].schedule = s => q[i].occurrence < current.next
               /\ q[i].schedule \in Schedules /\ q[i].occurrence \in Nat
    <3>1. /\ doc.sent[i].occurrence <= now
          /\ doc.sent[i].occurrence < doc.schedule[doc.sent[i].schedule].next
        BY DEF IInv, SentInv, Ordered
    <3>2. doc.sent[i].schedule \in Schedules /\ doc.sent[i].occurrence \in Nat
        BY Elements
    <3>3. doc'.schedule[doc.sent[i].schedule].next
             = IF doc.sent[i].schedule = s THEN next ELSE doc.schedule[doc.sent[i].schedule].next
        BY <1>4, <1>9, <1>12, <3>2 DEF Documents
    <3>4. next \in Nat
        BY <1>8, Minutes
    <3> QED BY <1>4, <1>8, <2>2, <3>1, <3>2, <3>3, <3>4
  <2>4. /\ q[n + 1].occurrence <= now /\ q[n + 1].schedule = s
        /\ q[n + 1].occurrence < doc'.schedule[q[n + 1].schedule].next
    <3>1. next \in Nat /\ doc'.schedule[s].next = next
        BY <1>3, <1>4, <1>8, <1>9, <1>12, Minutes DEF Documents
    <3> QED BY <1>4, <1>5, <1>7, <1>8, <1>10, <2>2, <3>1
  <2>5. ASSUME NEW i \in 1 .. n + 1, NEW j \in 1 .. n + 1, j < i, q[j].schedule = q[i].schedule
        PROVE  q[j].occurrence < q[i].occurrence
    <3>1. j \in 1 .. n /\ (i \in 1 .. n \/ i = n + 1)
        BY <2>2, <2>5
    <3>2. CASE i \in 1 .. n
        BY <2>2, <2>5, <3>1, <3>2 DEF IInv, SentInv, Ordered
    <3>3. CASE i = n + 1
        BY <1>10, <2>2, <2>3, <2>5, <3>1, <3>3
    <3> QED BY <3>1, <3>2, <3>3
  <2>6. \A i \in 1 .. n + 1 : i \in 1 .. n \/ i = n + 1
    BY <2>2
  <2> HIDE DEF n, q
  <2>7. \A i \in 1 .. n + 1 : /\ q[i].occurrence <= now
                             /\ q[i].occurrence < doc'.schedule[q[i].schedule].next
    BY <2>3, <2>4, <2>6
  <2>8. doc'.sent = q
    BY <1>12 DEF q
  <2>9. Ordered(doc)'
    BY <1>1, <2>2, <2>5, <2>7, <2>8 DEF Ordered
  <2> QED BY <2>1, <2>9 DEF SentInv
<1> QED BY <1>13, <1>14, <1>15, <1>16, <1>17 DEF IInv

-----------------------------------------------------------------------------
(* Sections end.                                                           *)

\* What is left of a list.
LEMMA Dropped ==
  ASSUME IInv, run.due # <<>>
  PROVE  /\ Tail(run.due) \in Seq(Due) /\ Len(Tail(run.due)) <= Cardinality(Schedules)
         /\ \A i \in 1 .. Len(Tail(run.due)) :
              \E j \in 1 .. Len(run.due) : Tail(run.due)[i] = run.due[j]
<1> DEFINE q == Tail(run.due)
<1>1. run.due \in Seq(Due) /\ Len(run.due) <= Cardinality(Schedules)
      /\ Cardinality(Schedules) \in Nat
    BY FS_CardinalityType, SchedulesAssumption DEF IInv, ShapeInv
<1>2. q \in Seq(Due) /\ Len(q) = Len(run.due) - 1 /\ Len(run.due) \in Nat
    BY <1>1
<1>3. \A i \in 1 .. Len(q) : i + 1 \in 1 .. Len(run.due) /\ q[i] = run.due[i + 1]
    BY <1>1
<1> HIDE DEF q
<1>4. q \in Seq(Due) /\ Len(q) <= Cardinality(Schedules)
    BY <1>1, <1>2
<1> QED BY <1>3, <1>4 DEF q

LEMMA RunFields ==
  ASSUME NEW A, NEW B, NEW x \in [stage : A, due : B], NEW a, NEW b
  PROVE  /\ [x EXCEPT !.stage = a] = [stage |-> a, due |-> x.due]
         /\ [x EXCEPT !.due = b] = [stage |-> x.stage, due |-> b]
OBVIOUS

\* A run goes on, or ends, while the documents stay what they are.
LEMMA RunMoves ==
  ASSUME IInv, UNCHANGED <<now, doc, saved, previous, section>>,
         NEW stage \in Working \cup {"none", "loop"},
         \/ run' = [stage |-> stage, due |-> run.due] /\ (stage \in Working => run.due # <<>>)
         \/ run' = [stage |-> stage, due |-> Tail(run.due)] /\ run.due # <<>> /\ stage = "loop"
         \/ run' = [stage |-> stage, due |-> <<>>] /\ stage = "none",
         section = "accept" => stage = "persisting",
         timer' \in Times, TimerInv'
  PROVE  IInv'
<1>1. /\ run'.due \in Seq(Due) /\ Len(run'.due) <= Cardinality(Schedules)
      /\ \A i \in 1 .. Len(run'.due) :
           doc.schedule[run'.due[i].schedule].object = run'.due[i].object
             => doc.schedule[run'.due[i].schedule].text = run'.due[i].text
      /\ \A i \in 1 .. Len(run'.due) :
           saved.schedule[run'.due[i].schedule].object = run'.due[i].object
             => saved.schedule[run'.due[i].schedule].text = run'.due[i].text
  <2>1. CASE run'.due = run.due
    BY <2>1 DEF IInv, ShapeInv, ObjectInv
  <2>2. CASE run.due # <<>> /\ run'.due = Tail(run.due)
    <3> DEFINE q == run'.due
    <3>1. /\ q \in Seq(Due) /\ Len(q) <= Cardinality(Schedules)
          /\ \A i \in 1 .. Len(q) : \E j \in 1 .. Len(run.due) : q[i] = run.due[j]
        BY <2>2, Dropped
    <3> HIDE DEF q
    <3>2. \A d \in {doc, saved} : \A i \in 1 .. Len(q) :
            d.schedule[q[i].schedule].object = q[i].object
              => d.schedule[q[i].schedule].text = q[i].text
      <4>1. TAKE d \in {doc, saved}
      <4>2. TAKE i \in 1 .. Len(q)
      <4>3. PICK j \in 1 .. Len(run.due) : q[i] = run.due[j]
        BY <3>1
      <4>4. d.schedule[run.due[j].schedule].object = run.due[j].object
              => d.schedule[run.due[j].schedule].text = run.due[j].text
        BY DEF IInv, ObjectInv
      <4> QED BY <4>3, <4>4
    <3> QED BY <3>1, <3>2 DEF q
  <2>3. CASE run'.due = <<>>
    <3>1. Cardinality(Schedules) \in Nat
        BY FS_CardinalityType, SchedulesAssumption
    <3>2. run'.due \in Seq(Due) /\ Len(run'.due) = 0
        BY <2>3
    <3> QED BY <3>1, <3>2
  <2>4. \/ run'.due = run.due
        \/ run.due # <<>> /\ run'.due = Tail(run.due)
        \/ run'.due = <<>>
    <3>1. CASE run' = [stage |-> stage, due |-> run.due]
        BY <3>1
    <3>2. CASE run' = [stage |-> stage, due |-> Tail(run.due)] /\ run.due # <<>>
        BY <3>2
    <3>3. CASE run' = [stage |-> stage, due |-> <<>>]
        BY <3>3
    <3> QED BY <3>1, <3>2, <3>3
  <2> QED BY <2>1, <2>2, <2>3, <2>4
<1>2. run' \in [stage : Working \cup {"none", "loop"}, due : Seq(Due)] /\ run'.stage = stage
      /\ (stage \in Working => run'.due # <<>>)
  <2>1. run' = [stage |-> stage, due |-> run'.due]
    OBVIOUS
  <2>2. "loop" \notin Working /\ "none" \notin Working
    BY DEF Working
  <2> QED BY <1>1, <2>1, <2>2
<1>3. ShapeInv' /\ RunInv' /\ SentInv'
    BY <1>1, <1>2 DEF IInv, ShapeInv, RunInv, SentInv, Ordered
<1>4. SectionInv'
    BY DEF IInv, SectionInv, Matches
<1>5. ObjectInv'
    BY <1>1 DEF IInv, ObjectInv
<1> QED BY <1>3, <1>4, <1>5 DEF IInv

\* Timers, looks at the list and preparations.
LEMMA RunPreserves ==
  ASSUME IInv, NextDue \/ Prepared \/ PrepareFails \/ (Accept /\ ~IsDue(Head(run.due)))
  PROVE  IInv'
<1> USE DEF Working
<1>1. /\ UNCHANGED <<now, doc, saved, previous, section, host>>
      /\ run.stage \in {"loop", "preparing", "accepting"}
      /\ section # "accept" /\ run.stage # "none"
      /\ run \in [stage : Working \cup {"none", "loop"}, due : Seq(Due)]
      /\ timer \in Times /\ now \in 0 .. Horizon
    BY DEF NextDue, Prepared, PrepareFails, Accept, IInv, ShapeInv, RunInv
<1>2. run.stage \in Working => run.due # <<>>
    BY DEF IInv, RunInv
<1>3. ASSUME NEW stage \in Working \cup {"loop"}, UNCHANGED <<timer, unarmed>>, run.due # <<>>,
             \/ run' = [stage |-> stage, due |-> run.due]
             \/ run' = GoOn /\ stage = "loop"
      PROVE  IInv'
  <2>1. run'.stage # "none"
    BY <1>3 DEF GoOn
  <2>2. TimerInv'
    BY <2>1 DEF TimerInv
  <2>3. \/ run' = [stage |-> stage, due |-> run.due]
        \/ run' = [stage |-> stage, due |-> Tail(run.due)] /\ stage = "loop"
    BY <1>3 DEF GoOn
  <2> QED BY <1>1, <1>3, <2>2, <2>3, RunMoves
<1>4. CASE Prepared \/ PrepareFails \/ (Accept /\ ~IsDue(Head(run.due)))
  <2>1. run.due # <<>> /\ UNCHANGED <<timer, unarmed>>
    BY <1>2, <1>4 DEF Prepared, PrepareFails, Accept
  <2>2. run' = GoOn \/ run' = [run EXCEPT !.stage = "accepting"]
    BY <1>4 DEF Prepared, PrepareFails, Accept
  <2>3. [run EXCEPT !.stage = "accepting"] = [stage |-> "accepting", due |-> run.due]
    BY <1>1, RunFields
  <2> QED BY <1>3, <2>1, <2>2, <2>3
<1>5. CASE NextDue /\ run.due # <<>>
  <2>1. /\ UNCHANGED <<timer, unarmed>>
        /\ \/ run' = [run EXCEPT !.stage = "preparing"]
           \/ run' = [run EXCEPT !.due = Tail(@)]
        /\ run.stage = "loop"
    BY <1>5 DEF NextDue
  <2>2. [run EXCEPT !.stage = "preparing"] = [stage |-> "preparing", due |-> run.due]
    BY <1>1, RunFields
  <2>3. [run EXCEPT !.due = Tail(@)] = [stage |-> run.stage, due |-> Tail(run.due)]
    <3> DEFINE q == Tail(run.due)
    <3> HIDE DEF q
    <3>1. [run EXCEPT !.due = q] = [stage |-> run.stage, due |-> q]
        BY <1>1, RunFields
    <3> QED BY <3>1 DEF q
  <2> QED BY <1>3, <1>5, <2>1, <2>2, <2>3 DEF GoOn
<1>6. CASE NextDue /\ run.due = <<>>
  <2>1. /\ run' = [stage |-> "none", due |-> <<>>] /\ timer' = Armed(doc, retryAt)
        /\ unarmed' = (unarmed \/ (section = "change" /\ timer' = Never))
    BY <1>6 DEF NextDue, NoRun
  <2>2. timer' \in Times /\ (Active(doc) # {} => timer' # Never)
    BY <1>1, <2>1, ArmedIsSoon
  <2>3. TimerInv'
    <3>1. CASE section = "change"
        BY <1>1, <2>1, <3>1 DEF TimerInv
    <3>2. CASE section = "free"
      <4>1. doc = saved /\ Active(saved)' = Active(saved)
        BY <1>1, <3>2 DEF IInv, SectionInv, Active
      <4> QED BY <1>1, <2>2, <4>1 DEF TimerInv
    <3> QED BY <1>1, <3>1, <3>2 DEF IInv, ShapeInv
  <2> QED BY <1>1, <2>1, <2>2, <2>3, RunMoves
<1> QED BY <1>4, <1>5, <1>6

\* A section ends: both documents are the one it saved, or the one it found.
LEMMA SectionPreserves ==
  ASSUME IInv, Saved \/ Rejected
  PROVE  IInv'
<1>1. /\ host = "up" /\ section # "free" /\ section' = "free"
      /\ doc' = saved' /\ previous' = saved' /\ saved' \in {doc, saved}
      /\ run' = IF section = "accept" THEN GoOn ELSE run
      /\ UNCHANGED <<now, host>>
      /\ timer \in Times /\ now \in 0 .. Horizon
    BY DEF Saved, Rejected, IInv, ShapeInv
<1>2. /\ run'.due \in Seq(Due) /\ Len(run'.due) <= Cardinality(Schedules)
      /\ \A i \in 1 .. Len(run'.due) : \E j \in 1 .. Len(run.due) : run'.due[i] = run.due[j]
      /\ run' \in [stage : Working \cup {"none", "loop"}, due : Seq(Due)]
      /\ (run'.stage \in Working => run'.due # <<>>)
      /\ (section = "accept" => run'.stage = "loop") /\ (section # "accept" => run' = run)
  <2>1. CASE section = "accept"
    <3>1. run' = [stage |-> "loop", due |-> Tail(run.due)] /\ run.due # <<>>
        BY <1>1, <2>1 DEF GoOn, IInv, RunInv, Working
    <3>2. run'.stage = "loop" /\ run'.due = Tail(run.due) /\ "loop" \notin Working
        BY <3>1 DEF Working
    <3>3. /\ Tail(run.due) \in Seq(Due) /\ Len(Tail(run.due)) <= Cardinality(Schedules)
          /\ \A i \in 1 .. Len(Tail(run.due)) :
               \E j \in 1 .. Len(run.due) : Tail(run.due)[i] = run.due[j]
        BY <3>1, Dropped
    <3> QED BY <2>1, <3>1, <3>2, <3>3
  <2>2. CASE section # "accept"
    BY <1>1, <2>2 DEF IInv, ShapeInv, RunInv
  <2> QED BY <2>1, <2>2
<1>3. timer' \in Times /\ TimerInv'
  <2>1. CASE Saved /\ section = "change"
    <3>1. timer' = Armed(doc, retryAt) /\ saved' = doc
        BY <2>1 DEF Saved
    <3>2. timer' \in Times /\ (Active(doc) # {} => timer' # Never)
        BY <1>1, <3>1, ArmedIsSoon
    <3>3. Active(saved)' = Active(doc)
        BY <3>1 DEF Active
    <3> QED BY <3>2, <3>3 DEF TimerInv
  <2>2. CASE section = "accept"
    <3>1. timer' = timer /\ run'.stage = "loop"
        BY <1>2, <2>2 DEF Saved, Rejected
    <3> QED BY <1>1, <3>1 DEF TimerInv
  <2>3. CASE Rejected /\ section = "change"
    <3>1. UNCHANGED <<saved, timer, run, unarmed, host>>
        BY <1>2, <2>3 DEF Rejected
    <3> QED BY <1>1, <3>1 DEF IInv, TimerInv, Active
  <2> QED BY <1>1, <2>1, <2>2, <2>3 DEF IInv, ShapeInv
<1>4. ShapeInv' /\ RunInv'
    BY <1>1, <1>2, <1>3 DEF IInv, ShapeInv, RunInv
<1>5. SectionInv' /\ SentInv'
    BY <1>1 DEF IInv, SectionInv, SentInv, Ordered
<1>6. ObjectInv'
  <2>1. \A i \in 1 .. Len(run'.due) :
          saved'.schedule[run'.due[i].schedule].object = run'.due[i].object
            => saved'.schedule[run'.due[i].schedule].text = run'.due[i].text
    <3>1. TAKE i \in 1 .. Len(run'.due)
    <3>2. PICK j \in 1 .. Len(run.due) : run'.due[i] = run.due[j]
        BY <1>2
    <3>3. \A d \in {doc, saved} : d.schedule[run.due[j].schedule].object = run.due[j].object
                                 => d.schedule[run.due[j].schedule].text = run.due[j].text
        BY DEF IInv, ObjectInv
    <3> QED BY <1>1, <3>2, <3>3
  <2> QED BY <1>1, <2>1 DEF ObjectInv
<1> QED BY <1>3, <1>4, <1>5, <1>6 DEF IInv

-----------------------------------------------------------------------------
(* Timers, time, deaths and the first state.                               *)

LEMMA TimerFiresPreserves ==
  ASSUME IInv, TimerFires
  PROVE  IInv'
<1>1. /\ timer' = Never /\ timer' \in Times
      /\ UNCHANGED <<now, doc, saved, previous, section, host, unarmed>>
    BY Minutes DEF TimerFires
<1>2. CASE run.stage # "none"
  <2>1. run' = run
    BY <1>2 DEF TimerFires
  <2> QED BY <1>1, <1>2, <2>1 DEF IInv, ShapeInv, RunInv, SectionInv, Matches, ObjectInv,
                                SentInv, Ordered, TimerInv
<1>3. CASE run.stage = "none"
  <2>1. PICK list \in Lists : DueList(list) /\ run' = [stage |-> "loop", due |-> list]
    BY <1>3 DEF TimerFires
  <2>2. PICK n \in 0 .. Cardinality(Schedules) : list \in [1 .. n -> Entries]
    BY <2>1 DEF Lists
  <2>3. n \in Nat /\ n <= Cardinality(Schedules) /\ DOMAIN list = 1 .. n
    BY <2>2, FS_CardinalityType, SchedulesAssumption
  <2>4. ASSUME NEW i \in 1 .. n
        PROVE  /\ list[i] \in Due
               /\ doc.schedule[list[i].schedule].text = list[i].text
               /\ doc.schedule[list[i].schedule].object = list[i].object
    <3>1. PICK s \in Schedules :
             list[i] = [schedule |-> s, object |-> doc.schedule[s].object,
                        text |-> doc.schedule[s].text]
        BY <2>2 DEF Entries
    <3>2. list[i].schedule = s /\ list[i].object = doc.schedule[s].object
          /\ list[i].text = doc.schedule[s].text
        BY <3>1
    <3>3. s \in Active(doc)
        BY <2>1, <2>3, <3>2 DEF DueList
    <3>4. doc.schedule[s] \in Slots /\ doc.schedule[s].next # Never
        BY <3>3, Elements DEF Active
    <3>5. doc.schedule[s].object \in Objects /\ doc.schedule[s].text \in Nat
        BY <3>4, SlotShape, GoneShape
    <3> QED BY <3>1, <3>2, <3>5 DEF Due
  <2>5. list \in Seq(Due) /\ Len(list) = n
    BY <2>2, <2>3, <2>4
  <2>6. run'.stage = "loop" /\ run'.due = list /\ "loop" \notin Working
        /\ run' \in [stage : Working \cup {"none", "loop"}, due : Seq(Due)]
    BY <2>1, <2>5 DEF Working
  <2>7. ShapeInv' /\ SentInv' /\ TimerInv' /\ SectionInv'
    BY <1>1, <2>3, <2>5, <2>6 DEF IInv, ShapeInv, SentInv, Ordered, TimerInv, SectionInv, Matches
  <2>8. RunInv'
    BY <1>1, <1>3, <2>6 DEF IInv, RunInv
  <2>9. ObjectInv'
    <3>1. \A q \in Schedules : doc.schedule[q].object = saved.schedule[q].object
                                => doc.schedule[q].text = saved.schedule[q].text
        BY DEF IInv, ObjectInv
    <3>2. \A i \in 1 .. n : list[i].schedule \in Schedules
        BY <2>4 DEF Due
    <3> QED BY <1>1, <2>4, <2>5, <2>6, <3>1, <3>2 DEF ObjectInv
  <2> QED BY <2>7, <2>8, <2>9 DEF IInv
<1> QED BY <1>2, <1>3

LEMMA TickPreserves ==
  ASSUME IInv, Tick
  PROVE  IInv'
<1>1. /\ now \in Nat /\ now' = now + 1 /\ now' \in 0 .. Horizon
      /\ UNCHANGED <<doc, saved, previous, section, timer, run, host, unarmed>>
    BY Elements, Minutes DEF Tick
<1>2. ASSUME NEW d \in {doc, saved}, NEW i \in 1 .. Len(d.sent)
      PROVE  d.sent[i].occurrence <= now'
  <2>1. d.sent \in Seq(Messages)
    BY DEF IInv, ShapeInv, Documents
  <2>2. d.sent[i] \in Messages
    BY <2>1
  <2>3. d.sent[i].occurrence \in Nat
    BY <2>2, Minutes DEF Messages
  <2> QED BY <1>1, <2>3 DEF IInv, SentInv, Ordered
<1>3. SentInv'
    BY <1>1, <1>2 DEF IInv, SentInv, Ordered
<1>4. TimerInv'
    BY <1>1 DEF IInv, TimerInv, Active
<1> QED BY <1>1, <1>3, <1>4 DEF IInv, ShapeInv, RunInv, SectionInv, Matches, ObjectInv

LEMMA BootPreserves ==
  ASSUME IInv, Boot
  PROVE  IInv'
<1>1. /\ doc' = saved /\ previous' = saved /\ section' = "free" /\ run' = NoRun /\ host' = "up"
      /\ timer' = Armed(saved, retryAt') /\ UNCHANGED <<now, saved>>
    BY DEF Boot
<1>2. timer' \in Times /\ (Active(saved) # {} => timer' # Never)
    BY <1>1, ArmedIsSoon DEF IInv, ShapeInv
<1>3. Active(saved)' = Active(saved)
    BY <1>1 DEF Active
<1>4. run'.stage = "none" /\ run'.due = <<>> /\ <<>> \in Seq(Due) /\ Len(<<>>) = 0
      /\ run' \in [stage : Working \cup {"none", "loop"}, due : Seq(Due)]
      /\ "none" \notin Working
    BY <1>1 DEF NoRun, Working
<1>5. Cardinality(Schedules) \in Nat
    BY FS_CardinalityType, SchedulesAssumption
<1>6. ShapeInv' /\ RunInv' /\ TimerInv'
    BY <1>1, <1>2, <1>3, <1>4, <1>5 DEF IInv, ShapeInv, RunInv, TimerInv
<1>7. SectionInv' /\ SentInv'
    BY <1>1 DEF IInv, SectionInv, SentInv, Ordered
<1>8. ObjectInv'
    BY <1>1, <1>4 DEF ObjectInv
<1> QED BY <1>6, <1>7, <1>8 DEF IInv

LEMMA InitInv == Init => IInv
<1> SUFFICES ASSUME Init PROVE IInv
    OBVIOUS
<1>1. PICK start \in Starts :
         /\ doc = [schedule |-> start.schedule, sent |-> <<>>]
         /\ timer = Armed(doc, [o \in Objects \cup {0} |-> 0])
    BY DEF Init
<1>2. /\ now = 0 /\ saved = doc /\ previous = doc /\ section = "free" /\ run = NoRun
    BY DEF Init
<1>3. doc.sent = <<>> /\ doc.schedule \in [Schedules -> Slots] /\ doc \in Documents
    BY <1>1, StartsAssumption DEF Documents
<1>4. now \in 0 .. Horizon
    BY <1>2, Minutes
<1>5. timer \in Times /\ (Active(doc) # {} => timer # Never)
    BY <1>1, <1>4, ArmedIsSoon
<1>6. run.stage = "none" /\ run.due = <<>> /\ <<>> \in Seq(Due) /\ Len(<<>>) = 0
      /\ run \in [stage : Working \cup {"none", "loop"}, due : Seq(Due)]
      /\ "none" \notin Working
    BY <1>2 DEF NoRun, Working
<1>7. Cardinality(Schedules) \in Nat
    BY FS_CardinalityType, SchedulesAssumption
<1>8. ShapeInv /\ RunInv /\ TimerInv
    BY <1>2, <1>3, <1>4, <1>5, <1>6, <1>7 DEF ShapeInv, RunInv, TimerInv
<1>9. SectionInv /\ SentInv
    BY <1>2, <1>3 DEF SectionInv, SentInv, Ordered
<1>10. ObjectInv
    BY <1>2, <1>6 DEF ObjectInv
<1> QED BY <1>8, <1>9, <1>10 DEF IInv

-----------------------------------------------------------------------------
(* The theorems.                                                           *)

LEMMA NextPreserves ==
  ASSUME IInv, [Next]_vars
  PROVE  IInv'
<1>1. CASE UNCHANGED vars
    BY <1>1 DEF vars, IInv, ShapeInv, RunInv, SectionInv, Matches, ObjectInv, SentInv,
       Ordered, TimerInv, Active
<1>2. CASE Crash
  <2>1. UNCHANGED <<now, doc, saved, previous, section, timer, run>> /\ host' = "down"
    BY <1>2 DEF Crash
  <2> QED BY <2>1 DEF IInv, ShapeInv, RunInv, SectionInv, Matches, ObjectInv, SentInv,
             Ordered, TimerInv
<1>3. CASE HostStep
    BY <1>3, TimerFiresPreserves, RunPreserves, AcceptPreserves DEF HostStep
<1>4. CASE Saved \/ Rejected
    BY <1>4, SectionPreserves
<1>5. CASE Boot
    BY <1>5, BootPreserves
<1>6. CASE Tick
    BY <1>6, TickPreserves
<1>7. CASE Change
    BY <1>7, ChangePreserves
<1>8. CASE PrepareFails
    BY <1>8, RunPreserves
<1> QED BY <1>1, <1>2, <1>3, <1>4, <1>5, <1>6, <1>7, <1>8 DEF Next

THEOREM Invariance == Spec => []IInv
BY InitInv, NextPreserves, PTL DEF Spec

\* What holds of the schedules in every state: their values are of the right kind, each
\* occurrence is sent once at most and in order, and a timer is held while one is active.
THEOREM SchedulesTheorem == Spec => []SchedulesConsistent
<1>1. ASSUME IInv
      PROVE  SchedulesConsistent
  <2>1. TypeOK
    <3>1. \A d \in {doc, saved, previous} : d.schedule \in [Schedules -> Slots]
        BY <1>1 DEF IInv, ShapeInv, Documents
    <3> QED BY <1>1, <3>1 DEF TypeOK, IInv, ShapeInv, RunInv, SectionInv, Free, Working
  <2>2. SentOnce
    <3>1. saved.sent \in Seq(Messages)
        BY <1>1 DEF IInv, ShapeInv, Documents
    <3>2. DOMAIN saved.sent = 1 .. Len(saved.sent)
        BY <3>1
    <3> QED BY <1>1, <3>2 DEF IInv, SentInv, Ordered, SentOnce
  <2>3. TimerHeld
    BY <1>1 DEF IInv, TimerInv, SectionInv, TimerHeld, Free
  <2> QED BY <2>1, <2>2, <2>3 DEF SchedulesConsistent
<1> QED BY <1>1, Invariance, PTL

\* A message that is saved for a schedule is the one that the saved schedule asked for at
\* that moment, however long it was on its way.
THEOREM SendingTheorem == Spec => SendsWhatIsSaved
<1> DEFINE Sends == Len(saved'.sent) > Len(saved.sent) =>
         LET message == saved'.sent[Len(saved'.sent)]
             schedule == saved.schedule[message.schedule]
         IN  /\ ~schedule.paused
             /\ schedule.text = message.text /\ schedule.next = message.occurrence
<1>1. ASSUME IInv, [Next]_vars
      PROVE  [Sends]_vars
  <2>1. saved.sent \in Seq(Messages) /\ Len(saved.sent) \in Nat
    BY <1>1 DEF IInv, ShapeInv, Documents
  <2>2. CASE Saved /\ section = "accept"
    <3>1. PICK message \in Messages : doc.sent = Append(saved.sent, message) /\ Matches(message)
        BY <1>1, <2>2 DEF IInv, SectionInv
    <3>2. saved'.sent = Append(saved.sent, message)
        BY <2>2, <3>1 DEF Saved
    <3>3. saved'.sent[Len(saved'.sent)] = message
        BY <2>1, <3>2
    <3> QED BY <3>1, <3>3 DEF Matches
  <2>3. CASE Saved /\ section # "accept"
    <3>1. saved'.sent = saved.sent
        BY <1>1, <2>3 DEF Saved, IInv, ShapeInv, SectionInv
    <3> QED BY <2>1, <3>1
  <2>4. CASE ~Saved
    <3>1. saved' = saved
        BY <1>1, <2>4 DEF Next, HostStep, TimerFires, NextDue, Prepared, Accept, Boot, Tick,
           Change, PrepareFails, Rejected, Crash, vars
    <3> QED BY <2>1, <3>1
  <2> QED BY <2>2, <2>3, <2>4
<1> QED BY <1>1, Invariance, PTL DEF Spec, SendsWhatIsSaved

=============================================================================
