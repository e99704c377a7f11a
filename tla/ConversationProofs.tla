------------------------- MODULE ConversationProofs -------------------------
(***************************************************************************)
(* A conversation accepts each submission once, keeps what it accepted,    *)
(* starts each message once and none that was removed, for any number of   *)
(* sends, submissions, rejected persists and process deaths.               *)
(***************************************************************************)
EXTENDS Conversation, TLAPS

-----------------------------------------------------------------------------
(* The inductive invariant.                                                *)

Waiting(q) == {q[i] : i \in 1..Len(q)}
Distinct(q) == \A i, j \in 1..Len(q) : q[i] = q[j] => i = j

\* The messages of a document.
In(d) == {m \in Sends : d[m] # "none"}
OnePerSubmission(d) ==
    \A m, n \in In(d) : SubmissionOf[m] = SubmissionOf[n] => m = n

Holding == holder # None
NoFailure == failures = 0 /\ lateFailures = 0 /\ removeFailures = 0

\* Everything but the bound of starts, which comes of StartInv.
ShapeInv ==
    /\ state \in [Sends -> Statuses]
    /\ disk \in [Sends -> Statuses]
    /\ previous \in [Sends -> Statuses]
    /\ saved \in Seq(Sends)
    /\ holder \in {None} \cup
         {Section(kind, m) : kind \in {"accept", "record", "remove"}, m \in Sends}
    /\ send \in [Sends -> {"idle", "sent", "accepted", "replayed", "failed", "lost"}]
    /\ files \subseteq Sends
    /\ pending \in Seq(Sends)
    /\ current \in {Idle} \cup {Of(m) : m \in Sends}
    /\ stage \in {"none", "working", "recording", "recorded", "broken"}
    /\ starts \in [Sends -> Nat]
    /\ removed \subseteq Sends
    /\ host \in {"up", "down"}
    /\ failures \in 0..MaxFailures
    /\ lateFailures \in 0..MaxLateFailures
    /\ removeFailures \in 0..MaxRemoveFailures
    /\ crashes \in 0..MaxCrashes

\* A host that is down holds nothing; a loop has a message to work on, and so has
\* the section that records its reply.
ControlInv ==
    /\ host = "down" => ~Holding /\ current = Idle /\ pending = <<>>
    /\ current = Idle <=> stage = "none"
    /\ \A m \in Sends : Held("record", m) =>
         stage = "recording" /\ current = Of(m) /\ state[m] = "settled"

\* Which messages there are in memory, before the section, and on disk.
DocumentInv ==
    /\ host = "up" => IF Holding THEN In(previous) \subseteq In(state) \cap In(disk)
                                 ELSE In(state) \subseteq In(disk)
    /\ \A m \in Sends : Held("accept", m) => m \in In(state) /\ send[m] = "sent"
    /\ \A m \in Sends : Held("remove", m) => In(state) = In(previous)
    /\ OnePerSubmission(state) /\ OnePerSubmission(disk) /\ OnePerSubmission(previous)

\* What is worked on or waits was accepted; so was what a section may bring back.
QueueInv ==
    /\ Distinct(pending)
    /\ \A m \in Waiting(pending) : send[m] = "accepted"
    /\ \A m \in Sends : current = Of(m) => send[m] = "accepted"
    /\ \A n \in Sends : Held("remove", n) =>
         /\ Distinct(saved)
         /\ \A m \in Waiting(saved) : send[m] = "accepted"
         /\ Waiting(pending) \subseteq Waiting(saved)

\* What was accepted or replayed is there, also when the section is undone.
KeptInv ==
    \A s \in Sends :
        /\ send[s] = "accepted" =>
             /\ s \in In(disk)
             /\ host = "up" => s \in In(state)
             /\ Holding => s \in In(previous)
        /\ send[s] = "replayed" =>
             /\ Receipts(disk, SubmissionOf[s]) # {}
             /\ host = "up" => Receipts(state, SubmissionOf[s]) # {}
             /\ Holding => Receipts(previous, SubmissionOf[s]) # {}

\* Without late failures memory and disk have the same messages, and those their files.
FilesInv ==
    lateFailures = 0 =>
        /\ host = "up" => In(disk) = IF Holding THEN In(previous) ELSE In(state)
        /\ In(disk) \cup In(state) \subseteq files
        /\ \A s \in Sends :
             /\ send[s] = "idle" => s \notin In(state) \cup In(disk)
             /\ send[s] = "sent" =>
                  s \in files \ In(disk) /\ (s \in In(state) => Held("accept", s))
             /\ send[s] \in {"failed", "replayed"} => s \notin files

\* A message that waits was started at most once for each rolled back removal.
StartInv ==
    \A m \in Sends :
        /\ send[m] # "accepted" => starts[m] = 0
        /\ starts[m] <= 1 + removeFailures
        /\ m \in Waiting(pending) => starts[m] <= removeFailures

\* As long as no persist has been rejected, an open message is on its way.
OwnerInv ==
    NoFailure =>
        /\ stage # "broken"
        /\ current = Idle => pending = <<>>
        /\ \A m \in Sends : stage = "recorded" /\ current = Of(m) => state[m] # "open"
        /\ host = "up" => \A m \in Sends : state[m] = "open" =>
             current = Of(m) \/ m \in Waiting(pending) \/ Held("accept", m)

\* What was removed waits neither in the queue nor in the one that may come back.
RemovedInv ==
    /\ \A m \in removed :
         /\ send[m] = "accepted"
         /\ m \notin Waiting(pending)
         /\ \A n \in Sends : Held("remove", n) => m \notin Waiting(saved)
    /\ \A n \in Sends : Held("remove", n) => n \notin Waiting(pending) /\ send[n] = "accepted"

IInv ==
    /\ ShapeInv
    /\ ControlInv
    /\ DocumentInv
    /\ QueueInv
    /\ KeptInv
    /\ FilesInv
    /\ StartInv
    /\ OwnerInv
    /\ RemovedInv

-----------------------------------------------------------------------------
(* What the operations on the queue do.                                    *)

\* A message is put at the back, ...
LEMMA PushBack ==
  ASSUME NEW q \in Seq(Sends), Distinct(q), NEW m \in Sends, m \notin Waiting(q)
  PROVE  LET r == Append(q, m)
         IN  r \in Seq(Sends) /\ Distinct(r) /\ Waiting(r) = Waiting(q) \cup {m}
<1> DEFINE r == Append(q, m)
<1>1. r \in Seq(Sends) /\ Len(r) = Len(q) + 1 /\ r[Len(q) + 1] = m
    OBVIOUS
<1>2. \A i \in 1..Len(q) : r[i] = q[i] /\ i \in 1..Len(r)
    OBVIOUS
<1>3. \A i \in 1..Len(r) : i \in 1..Len(q) \/ i = Len(q) + 1
    BY <1>1
<1> HIDE DEF r
<1>4. Distinct(r)
    BY <1>1, <1>2, <1>3 DEF Distinct, Waiting
<1>5. Waiting(r) = Waiting(q) \cup {m}
    BY <1>1, <1>2, <1>3 DEF Waiting
<1> QED BY <1>1, <1>4, <1>5 DEF r

\* ... or at the front.
LEMMA PushFront ==
  ASSUME NEW q \in Seq(Sends), Distinct(q), NEW m \in Sends, m \notin Waiting(q)
  PROVE  LET r == <<m>> \o q
         IN  r \in Seq(Sends) /\ Distinct(r) /\ Waiting(r) = Waiting(q) \cup {m}
<1> DEFINE r == <<m>> \o q
<1>1. r \in Seq(Sends) /\ Len(r) = Len(q) + 1 /\ r[1] = m /\ 1 \in 1..Len(r)
    OBVIOUS
<1>2. \A i \in 1..Len(q) : r[i + 1] = q[i] /\ i + 1 \in 1..Len(r)
    OBVIOUS
<1>3. \A i \in 1..Len(r) : i = 1 \/ (i - 1 \in 1..Len(q) /\ r[i] = q[i - 1])
    OBVIOUS
<1> HIDE DEF r
<1>4. Distinct(r)
  <2> SUFFICES ASSUME NEW j \in 1..Len(r), NEW k \in 1..Len(r), r[j] = r[k]
               PROVE  j = k
    BY DEF Distinct
  <2>1. j = 1 \/ (j - 1 \in 1..Len(q) /\ r[j] = q[j - 1] /\ r[j] # m)
    BY <1>3 DEF Waiting
  <2>2. k = 1 \/ (k - 1 \in 1..Len(q) /\ r[k] = q[k - 1] /\ r[k] # m)
    BY <1>3 DEF Waiting
  <2>3. j - 1 \in 1..Len(q) /\ k - 1 \in 1..Len(q) /\ q[j - 1] = q[k - 1] => j - 1 = k - 1
    BY DEF Distinct
  <2> QED BY <1>1, <2>1, <2>2, <2>3
<1>5. Waiting(r) \subseteq Waiting(q) \cup {m}
    BY <1>1, <1>3 DEF Waiting
<1>6. Waiting(q) \cup {m} \subseteq Waiting(r)
  <2>1. \A k \in 1..Len(q) : q[k] \in Waiting(r)
    BY <1>2 DEF Waiting
  <2>2. m \in Waiting(r)
    BY <1>1 DEF Waiting
  <2> QED BY <2>1, <2>2 DEF Waiting
<1> QED BY <1>1, <1>4, <1>5, <1>6 DEF r

\* The first is taken.
LEMMA Pop ==
  ASSUME NEW q \in Seq(Sends), Distinct(q), q # <<>>
  PROVE  /\ Head(q) \in Sends /\ Head(q) \in Waiting(q)
         /\ Tail(q) \in Seq(Sends) /\ Distinct(Tail(q))
         /\ Waiting(Tail(q)) = Waiting(q) \ {Head(q)}
<1> DEFINE r == Tail(q)
<1>1. r \in Seq(Sends) /\ Len(r) = Len(q) - 1 /\ Head(q) = q[1] /\ 1 \in 1..Len(q)
    OBVIOUS
<1>2. \A i \in 1..Len(r) : r[i] = q[i + 1] /\ i + 1 \in 1..Len(q)
    OBVIOUS
<1>3. \A i \in 1..Len(q) : i = 1 \/ (i - 1 \in 1..Len(r) /\ r[i - 1] = q[i])
    OBVIOUS
<1> HIDE DEF r
<1>4. Distinct(r)
    BY <1>1, <1>2 DEF Distinct
<1>5. Waiting(r) = Waiting(q) \ {q[1]}
  <2>1. ASSUME NEW i \in 1..Len(r)
        PROVE  r[i] \in Waiting(q) /\ r[i] # q[1]
    <3>1. r[i] = q[i + 1] /\ i + 1 \in 1..Len(q) /\ i + 1 # 1
        BY <1>1, <1>2
    <3> QED BY <1>1, <3>1 DEF Waiting, Distinct
  <2>2. ASSUME NEW i \in 1..Len(q), q[i] # q[1]
        PROVE  q[i] \in Waiting(r)
    <3>1. i - 1 \in 1..Len(r) /\ r[i - 1] = q[i]
        BY <1>3, <2>2
    <3> QED BY <3>1 DEF Waiting
  <2> QED BY <2>1, <2>2 DEF Waiting
<1>6. q[1] \in Sends /\ q[1] \in Waiting(q)
    BY <1>1 DEF Waiting
<1> QED BY <1>1, <1>4, <1>5, <1>6 DEF r

\* Two neighbours change places.
LEMMA Swap ==
  ASSUME NEW q \in Seq(Sends), Distinct(q), NEW i \in 1..(Len(q) - 1)
  PROVE  LET r == [q EXCEPT ![i] = q[i + 1], ![i + 1] = q[i]]
         IN  r \in Seq(Sends) /\ Distinct(r) /\ Waiting(r) = Waiting(q)
<1> DEFINE r == [q EXCEPT ![i] = q[i + 1], ![i + 1] = q[i]]
           at(j) == IF j = i THEN i + 1 ELSE IF j = i + 1 THEN i ELSE j
<1>1. r \in Seq(Sends) /\ Len(r) = Len(q)
    OBVIOUS
<1>2. \A j \in 1..Len(q) : at(j) \in 1..Len(q) /\ r[j] = q[at(j)] /\ at(at(j)) = j
    OBVIOUS
<1> HIDE DEF r
<1>3. Distinct(r)
  <2> SUFFICES ASSUME NEW j \in 1..Len(q), NEW k \in 1..Len(q), r[j] = r[k]
               PROVE  j = k
    BY <1>1 DEF Distinct
  <2>1. at(j) = at(k)
    BY <1>2 DEF Distinct
  <2> QED BY <2>1, <1>2
<1>4. Waiting(r) = Waiting(q)
    BY <1>1, <1>2 DEF Waiting
<1> QED BY <1>1, <1>3, <1>4 DEF r

\* One is taken out.
LEMMA Cut ==
  ASSUME NEW q \in Seq(Sends), Distinct(q), NEW i \in 1..Len(q)
  PROVE  LET r == RemoveAt(q, i)
         IN  r \in Seq(Sends) /\ Distinct(r) /\ Waiting(r) = Waiting(q) \ {q[i]}
<1> DEFINE r == RemoveAt(q, i)
           a == SubSeq(q, 1, i - 1)
           b == SubSeq(q, i + 1, Len(q))
           at(j) == IF j < i THEN j ELSE j + 1
<1>1. a \in Seq(Sends) /\ Len(a) = i - 1 /\ \A j \in 1..(i - 1) : a[j] = q[j]
    OBVIOUS
<1>2. /\ b \in Seq(Sends) /\ Len(b) = Len(q) - i
      /\ \A j \in 1..(Len(q) - i) : b[j] = q[j + i]
    OBVIOUS
<1>3. r = a \o b
    BY DEF RemoveAt
<1> HIDE DEF a, b, r
<1>4. /\ r \in Seq(Sends) /\ Len(r) = Len(q) - 1
      /\ \A j \in 1..(Len(q) - 1) : r[j] = q[at(j)] /\ at(j) \in 1..Len(q) /\ at(j) # i
  <2>1. r \in Seq(Sends) /\ Len(r) = Len(a) + Len(b)
    <3>1. \A x, y \in Seq(Sends) : x \o y \in Seq(Sends) /\ Len(x \o y) = Len(x) + Len(y)
        OBVIOUS
    <3> QED BY <1>1, <1>2, <1>3, <3>1
  <2>3. Len(a) + Len(b) = Len(q) - 1
    BY <1>1, <1>2
  <2>2. ASSUME NEW j \in 1..(Len(q) - 1)
        PROVE  r[j] = q[at(j)] /\ at(j) \in 1..Len(q) /\ at(j) # i
    <3>1. CASE j < i
      <4>1. r[j] = a[j] /\ j \in 1..(i - 1)
          BY <1>1, <1>2, <1>3, <3>1
      <4> QED BY <1>1, <3>1, <4>1
    <3>2. CASE j >= i
      <4>1. r[j] = b[j - (i - 1)] /\ j - (i - 1) \in 1..(Len(q) - i)
          BY <1>1, <1>2, <1>3, <3>2
      <4>2. b[j - (i - 1)] = q[j - (i - 1) + i]
          BY <1>2, <4>1
      <4> QED BY <3>2, <4>1, <4>2
    <3> QED BY <3>1, <3>2
  <2> QED BY <2>1, <2>2, <2>3
<1>5. Distinct(r)
  <2> SUFFICES ASSUME NEW j \in 1..(Len(q) - 1), NEW k \in 1..(Len(q) - 1), r[j] = r[k]
               PROVE  j = k
    BY <1>4 DEF Distinct
  <2>1. at(j) = at(k)
    BY <1>4 DEF Distinct
  <2> QED BY <2>1
<1>6. \A j \in 1..Len(q) : j # i => \E k \in 1..(Len(q) - 1) : at(k) = j
  <2> SUFFICES ASSUME NEW j \in 1..Len(q), j # i
               PROVE  \E k \in 1..(Len(q) - 1) : at(k) = j
    OBVIOUS
  <2>1. CASE j < i
    <3>1. j \in 1..(Len(q) - 1) /\ at(j) = j
        BY <2>1
    <3> QED BY <3>1
  <2>2. CASE j > i
    <3>1. j - 1 \in 1..(Len(q) - 1) /\ at(j - 1) = j
        BY <2>2
    <3> QED BY <3>1
  <2> QED BY <2>1, <2>2
<1> HIDE DEF at
<1>7. Waiting(r) \subseteq Waiting(q) \ {q[i]}
    BY <1>4 DEF Waiting, Distinct
<1>8. Waiting(q) \ {q[i]} \subseteq Waiting(r)
  <2> SUFFICES ASSUME NEW j \in 1..Len(q), j # i
               PROVE  q[j] \in Waiting(r)
    BY DEF Waiting
  <2>1. PICK k \in 1..(Len(q) - 1) : at(k) = j
    BY <1>6
  <2>2. k \in 1..Len(r) /\ r[k] = q[j]
    BY <1>4, <2>1
  <2> QED BY <2>2 DEF Waiting
<1> QED BY <1>4, <1>5, <1>7, <1>8 DEF r

-----------------------------------------------------------------------------
(* Names of sections and of what is worked on.                             *)

\* A section is told by its kind and its message.
LEMMA SectionNames ==
  /\ \A k \in {"accept", "record", "remove"}, m \in Sends : Section(k, m) # None
  /\ \A k, l \in {"accept", "record", "remove"}, m, n \in Sends :
       Section(k, m) = Section(l, n) => k = l /\ m = n
BY DEF Section, None

\* What is worked on is told by its message, and is not Idle.
LEMMA WorkNames ==
  /\ \A m \in Sends : Of(m) # Idle
  /\ \A m, n \in Sends : Of(m) = Of(n) => m = n
BY DEF Of, Idle

\* A rejected persist is counted.
LEMMA RejectedCounts ==
  ASSUME IInv, Rejected
  PROVE  /\ failures' \in 0..MaxFailures /\ lateFailures' \in 0..MaxLateFailures
         /\ removeFailures' \in 0..MaxRemoveFailures /\ crashes' \in 0..MaxCrashes
         /\ failures' > 0 \/ lateFailures' > 0
         /\ lateFailures' = 0 => disk' = disk /\ lateFailures = 0
         /\ disk' = disk \/ disk' = state
         /\ state' = previous /\ previous' = previous /\ holder' = None
         /\ removeFailures' = removeFailures
BY BoundAssumption, SMTT(30) DEF IInv, ShapeInv, Rejected

\* A send that is prepared has its files and no message.
LEMMA PreparePreserves ==
  ASSUME IInv, NEW m \in Sends, Prepare(m)
  PROVE  IInv'
<1>1. ShapeInv'
    BY DEF IInv, ShapeInv, Statuses, Prepare, document, loop, counters
<1>2. ControlInv'
    BY SectionNames, WorkNames DEF IInv, ShapeInv, ControlInv, Holding, Held,
       Prepare, document, loop
<1>3. DocumentInv'
    BY SectionNames DEF IInv, ShapeInv, ControlInv, DocumentInv, OnePerSubmission,
       In, Holding, Held, Statuses, Prepare, document
<1>4. QueueInv'
    BY SectionNames DEF IInv, ShapeInv, DocumentInv, QueueInv, Held, Prepare,
       document, loop
<1>5. KeptInv'
    BY SectionNames DEF IInv, ShapeInv, DocumentInv, KeptInv, In, Holding, Held,
       Receipts, Statuses, Prepare, document
<1>6. FilesInv'
    BY SectionNames DEF IInv, ShapeInv, ControlInv, FilesInv, In, Holding, Held,
       Statuses, Prepare, document, counters
<1>7. StartInv'
    BY DEF IInv, ShapeInv, QueueInv, StartInv, Prepare, loop, counters
<1>8. OwnerInv'
    BY SectionNames, WorkNames DEF IInv, ShapeInv, ControlInv, QueueInv, OwnerInv,
       NoFailure, Held, Prepare, document, loop, counters
<1>9. RemovedInv'
    BY SectionNames DEF IInv, ShapeInv, QueueInv, RemovedInv, Held, Prepare,
       document, loop
<1> QED BY <1>1, <1>2, <1>3, <1>4, <1>5, <1>6, <1>7, <1>8, <1>9 DEF IInv

\* A replayed send had no message of its own.
LEMMA ReplayPreserves ==
  ASSUME IInv, NEW m \in Sends, Replay(m)
  PROVE  IInv'
<1>1. ShapeInv'
    BY DEF IInv, ShapeInv, Statuses, Replay, Free, document, loop, counters
<1>2. ControlInv'
    BY SectionNames, WorkNames DEF IInv, ShapeInv, ControlInv, Holding, Held,
       Replay, Free, document, loop
<1>3. DocumentInv'
    BY SectionNames DEF IInv, ShapeInv, ControlInv, DocumentInv, OnePerSubmission,
       In, Holding, Held, Statuses, Replay, Free, document
<1>4. QueueInv'
    BY SectionNames DEF IInv, ShapeInv, DocumentInv, QueueInv, Held, Replay, Free,
       document, loop
<1>5. KeptInv'
    BY SectionNames DEF IInv, ShapeInv, DocumentInv, KeptInv, In, Holding, Held,
       Receipts, Statuses, Replay, Free, document
<1>6. FilesInv'
    BY SectionNames DEF IInv, ShapeInv, ControlInv, FilesInv, In, Holding, Held,
       Statuses, Replay, Free, document, counters
<1>7. StartInv'
    BY DEF IInv, ShapeInv, QueueInv, StartInv, Replay, Free, loop, counters
<1>8. OwnerInv'
    BY SectionNames, WorkNames DEF IInv, ShapeInv, ControlInv, QueueInv, OwnerInv,
       NoFailure, Held, Replay, Free, document, loop, counters
<1>9. RemovedInv'
    BY SectionNames DEF IInv, ShapeInv, QueueInv, RemovedInv, Held, Replay, Free,
       document, loop
<1> QED BY <1>1, <1>2, <1>3, <1>4, <1>5, <1>6, <1>7, <1>8, <1>9 DEF IInv

\* The submission has no message yet.
LEMMA BeginAcceptPreserves ==
  ASSUME IInv, NEW m \in Sends, BeginAccept(m)
  PROVE  IInv'
<1>1. ShapeInv'
    BY DEF IInv, ShapeInv, Statuses, BeginAccept, Free, Change, loop, counters
<1>2. ControlInv'
    BY SectionNames, WorkNames DEF IInv, ShapeInv, ControlInv, Holding, Held,
       BeginAccept, Free, Change, loop
<1>3. DocumentInv'
    BY SectionNames DEF IInv, ShapeInv, ControlInv, DocumentInv, OnePerSubmission,
       In, Holding, Held, Statuses, BeginAccept, Free, Change, Receipts
<1>4. QueueInv'
    BY SectionNames DEF IInv, ShapeInv, DocumentInv, QueueInv, Held, BeginAccept,
       Free, Change, loop
<1>5. KeptInv'
    BY SectionNames DEF IInv, ShapeInv, DocumentInv, KeptInv, In, Holding, Held,
       Receipts, Statuses, BeginAccept, Free, Change
<1>6. FilesInv'
  <2>1. /\ host = "up" /\ holder = None /\ send[m] = "sent"
        /\ host' = host /\ previous' = state
        /\ holder' = Section("accept", m) /\ send' = send /\ files' = files
        /\ disk' = disk /\ lateFailures' = lateFailures
        /\ state' = [state EXCEPT ![m] = "open"]
      BY DEF BeginAccept, Free, Change, loop, counters
  <2>2. In(state') = In(state) \cup {m} /\ In(previous') = In(state) /\ In(disk') = In(disk)
      BY <2>1 DEF IInv, ShapeInv, In, Statuses
  <2>3. Holding' /\ Held("accept", m)' /\ ~Holding
      BY <2>1, SectionNames DEF Holding, Held
  <2>4. lateFailures = 0 => m \in files /\ In(disk) = In(state)
      BY <2>1, <2>3 DEF IInv, FilesInv
  <2> QED BY <2>1, <2>2, <2>3, <2>4 DEF IInv, FilesInv, Held
<1>7. StartInv'
    BY DEF IInv, ShapeInv, QueueInv, StartInv, BeginAccept, Free, Change, loop,
       counters
<1>8. OwnerInv'
    BY SectionNames, WorkNames DEF IInv, ShapeInv, ControlInv, QueueInv, OwnerInv,
       NoFailure, Held, BeginAccept, Free, Change, loop, counters
<1>9. RemovedInv'
    BY SectionNames DEF IInv, ShapeInv, QueueInv, RemovedInv, Held, BeginAccept,
       Free, Change, loop
<1> QED BY <1>1, <1>2, <1>3, <1>4, <1>5, <1>6, <1>7, <1>8, <1>9 DEF IInv

\* The message is saved, and starts or waits.
LEMMA AcceptPreserves ==
  ASSUME IInv, NEW m \in Sends, Accept(m)
  PROVE  IInv'
<1>1. m \notin Waiting(pending) /\ send[m] = "sent" /\ holder = Section("accept", m)
    BY SectionNames DEF IInv, DocumentInv, QueueInv, Accept, Persisted, Start, Held
<1>2. /\ state' = state /\ disk' = state /\ previous' = previous /\ holder' = None
      /\ send' = [send EXCEPT ![m] = "accepted"]
      /\ UNCHANGED <<saved, files, removed, host, counters>>
    BY DEF Accept, Persisted, Start, counters
<1>3. /\ current = Idle => /\ current' = Of(m) /\ stage' = "working" /\ pending' = pending
                           /\ starts' = [starts EXCEPT ![m] = @ + 1]
      /\ current # Idle => UNCHANGED <<current, stage, starts>>
    BY DEF Accept, Persisted, Start
<1>4. /\ pending' \in Seq(Sends) /\ Distinct(pending')
      /\ Waiting(pending') = IF current = Idle THEN Waiting(pending)
                                              ELSE Waiting(pending) \cup {m}
  <2>1. pending \in Seq(Sends) /\ Distinct(pending)
      BY DEF IInv, ShapeInv, QueueInv
  <2>2. CASE current = Idle
      BY <1>3, <2>1, <2>2
  <2>3. CASE current # Idle /\ pending' = Append(pending, m)
      BY <1>1, <2>1, <2>3, PushBack
  <2>4. CASE current # Idle /\ pending' = <<m>> \o pending
      BY <1>1, <2>1, <2>4, PushFront
  <2> QED BY <2>2, <2>3, <2>4 DEF Accept, Persisted, Start
<1>5. ShapeInv'
  <2>1. starts' \in [Sends -> Nat]
    <3>1. starts \in [Sends -> Nat]
        BY DEF IInv, ShapeInv
    <3>2. \A k \in Nat : k + 1 \in Nat
        OBVIOUS
    <3>3. CASE current = Idle
      <4>1. starts[m] + 1 \in Nat
          BY <3>1, <3>2
      <4> QED BY <1>3, <3>1, <3>3, <4>1
    <3> QED BY <1>3, <3>1, <3>3
  <2>3. stage' \in {"none", "working", "recording", "recorded", "broken"}
      BY <1>3 DEF IInv, ShapeInv
  <2>4. send' \in [Sends -> {"idle", "sent", "accepted", "replayed", "failed", "lost"}]
      BY <1>2 DEF IInv, ShapeInv
  <2>2. current' \in {Idle} \cup {Of(n) : n \in Sends}
      BY <1>3 DEF IInv, ShapeInv
  <2> QED BY <1>2, <1>4, <2>1, <2>2, <2>3, <2>4 DEF IInv, ShapeInv, counters
<1>6. ControlInv'
  <2>1. host = "up"
      BY <1>1, SectionNames DEF IInv, ShapeInv, ControlInv, Holding
  <2>2. \A n \in Sends : ~Held("record", n)'
      BY <1>2, SectionNames DEF Held
  <2>3. current' = Idle <=> stage' = "none"
      BY <1>3, WorkNames DEF IInv, ControlInv
  <2> QED BY <1>2, <2>1, <2>2, <2>3 DEF ControlInv
<1>7. DocumentInv'
    BY <1>1, <1>2, <1>3, <1>4, SectionNames, WorkNames DEF IInv, ShapeInv,
       ControlInv, DocumentInv, OnePerSubmission, In, Holding, Held, Statuses, counters
<1>8. QueueInv'
  <2>1. \A n \in Sends : ~Held("remove", n)'
      BY <1>2, SectionNames DEF Held
  <2> QED BY <1>2, <1>3, <1>4, <2>1, WorkNames DEF IInv, ShapeInv, QueueInv
<1>9. KeptInv'
    BY <1>1, <1>2, <1>3, <1>4, SectionNames, WorkNames DEF IInv, ShapeInv,
       DocumentInv, KeptInv, In, Holding, Held, Receipts, Statuses, ControlInv,
       QueueInv, counters
<1>10. FilesInv'
    BY <1>1, <1>2, <1>3, <1>4, SectionNames, WorkNames DEF IInv, ShapeInv,
       ControlInv, FilesInv, In, Holding, Held, Statuses, counters
<1>11. StartInv'
  <2>1. starts[m] = 0
      BY <1>1 DEF IInv, StartInv
  <2>2. starts \in [Sends -> Nat] /\ removeFailures \in Nat
      BY BoundAssumption DEF IInv, ShapeInv
  <2>3. /\ starts'[m] <= 1 /\ (current # Idle => starts'[m] = 0)
        /\ \A s \in Sends \ {m} : starts'[s] = starts[s]
      BY <1>3, <2>1, <2>2
  <2>4. removeFailures' = removeFailures /\ starts'[m] \in Nat
      BY <1>2, <1>3, <2>2 DEF counters
  <2>5. send \in [Sends -> {"idle", "sent", "accepted", "replayed", "failed", "lost"}]
      BY DEF IInv, ShapeInv
  <2>6. send'[m] = "accepted" /\ \A s \in Sends \ {m} : send'[s] = send[s]
      BY <1>2, <2>5
  <2> SUFFICES ASSUME NEW s \in Sends
               PROVE  /\ send'[s] # "accepted" => starts'[s] = 0
                      /\ starts'[s] <= 1 + removeFailures'
                      /\ s \in Waiting(pending') => starts'[s] <= removeFailures'
      BY DEF StartInv
  <2>7. CASE s = m
      BY <1>1, <1>4, <2>2, <2>3, <2>4, <2>6, <2>7
  <2>8. CASE s # m
      BY <1>4, <2>3, <2>4, <2>6, <2>8 DEF IInv, StartInv
  <2> QED BY <2>7, <2>8
<1>12. OwnerInv'
  <2>1. NoFailure' = NoFailure
      BY <1>2 DEF NoFailure, counters
  <2>2. \A n \in Sends : Held("accept", n) => n = m
      BY <1>1, SectionNames DEF Held
  <2> QED BY <1>2, <1>3, <1>4, <2>1, <2>2, WorkNames DEF IInv, OwnerInv, ControlInv
<1>13. RemovedInv'
  <2>1. \A n \in Sends : ~Held("remove", n)'
      BY <1>2, SectionNames DEF Held
  <2>2. m \notin removed /\ removed \subseteq Sends
      BY <1>1 DEF IInv, ShapeInv, RemovedInv
  <2> QED BY <1>2, <1>4, <2>1, <2>2 DEF IInv, ShapeInv, RemovedInv
<1> QED BY <1>5, <1>6, <1>7, <1>8, <1>9, <1>10, <1>11, <1>12, <1>13 DEF IInv

\* The message is taken back with its files.
LEMMA AcceptFailsPreserves ==
  ASSUME IInv, NEW m \in Sends, AcceptFails(m)
  PROVE  IInv'
<1>1. /\ send' = [send EXCEPT ![m] = "failed"] /\ files' = files \ {m}
      /\ UNCHANGED <<saved, loop, removed, host>>
      /\ Rejected /\ holder = Section("accept", m)
    BY DEF AcceptFails, Held
<1>2. ShapeInv'
  <2>1. /\ send' \in [Sends -> {"idle", "sent", "accepted", "replayed", "failed", "lost"}]
        /\ files' \subseteq Sends
      BY <1>1 DEF IInv, ShapeInv
  <2>2. UNCHANGED <<pending, current, stage, starts, saved, removed, host>>
      BY <1>1 DEF loop
  <2>3. disk' \in [Sends -> Statuses]
      BY <1>1, RejectedCounts DEF IInv, ShapeInv
  <2>4. Rejected
      BY <1>1
  <2> QED BY <2>1, <2>2, <2>3, <2>4, RejectedCounts, SMTT(30) DEF IInv, ShapeInv
<1>3. ControlInv'
    BY <1>1, SectionNames, WorkNames DEF IInv, ShapeInv, ControlInv, Holding, Held,
       AcceptFails, Rejected, loop
<1>4. DocumentInv'
    BY <1>1, SectionNames DEF IInv, ShapeInv, ControlInv, DocumentInv,
       OnePerSubmission, In, Holding, Held, Statuses, AcceptFails, Rejected
<1>5. QueueInv'
    BY <1>1, SectionNames DEF IInv, ShapeInv, DocumentInv, QueueInv, Held,
       AcceptFails, Rejected, loop
<1>6. KeptInv'
    BY <1>1, SectionNames DEF IInv, ShapeInv, DocumentInv, KeptInv, In, Holding,
       Held, Receipts, Statuses, AcceptFails, Rejected, ControlInv, QueueInv, loop
<1>7. FilesInv'
    BY <1>1, SectionNames DEF IInv, ShapeInv, ControlInv, FilesInv, In, Holding,
       Held, Statuses, AcceptFails, Rejected, DocumentInv, QueueInv, KeptInv,
       Receipts, loop
<1>8. StartInv'
    BY <1>1 DEF IInv, ShapeInv, QueueInv, StartInv, AcceptFails, Rejected, loop,
       DocumentInv, Held
<1>9. OwnerInv'
    BY <1>1, SectionNames, WorkNames DEF IInv, ShapeInv, ControlInv, QueueInv,
       OwnerInv, NoFailure, Held, AcceptFails, Rejected, loop
<1>10. RemovedInv'
  <2>1. send[m] = "sent" /\ m \notin removed
      BY <1>1 DEF IInv, DocumentInv, RemovedInv, Held
  <2>2. \A n \in Sends : ~Held("remove", n)'
      BY <1>1, RejectedCounts, SectionNames DEF Held
  <2>3. removed' = removed /\ pending' = pending /\ removed \subseteq Sends
      BY <1>1 DEF loop, IInv, ShapeInv
  <2>4. \A s \in Sends \ {m} : send'[s] = send[s]
      BY <1>1 DEF IInv, ShapeInv
  <2> QED BY <2>1, <2>2, <2>3, <2>4 DEF IInv, RemovedInv
<1> QED BY <1>2, <1>3, <1>4, <1>5, <1>6, <1>7, <1>8, <1>9, <1>10 DEF IInv

\* Only the stage changes.
LEMMA FinishTurnPreserves ==
  ASSUME IInv, FinishTurn
  PROVE  IInv'
<1>1. ShapeInv'
    BY DEF IInv, ShapeInv, Statuses, FinishTurn, document, counters
<1>2. ControlInv'
    BY SectionNames, WorkNames DEF IInv, ShapeInv, ControlInv, Holding, Held,
       FinishTurn, document
<1>3. DocumentInv'
    BY SectionNames DEF IInv, ShapeInv, ControlInv, DocumentInv, OnePerSubmission,
       In, Holding, Held, Statuses, FinishTurn, document
<1>4. QueueInv'
    BY SectionNames DEF IInv, ShapeInv, DocumentInv, QueueInv, Held, FinishTurn,
       document
<1>5. KeptInv'
    BY SectionNames DEF IInv, ShapeInv, DocumentInv, KeptInv, In, Holding, Held,
       Receipts, Statuses, FinishTurn, document
<1>6. FilesInv'
    BY SectionNames DEF IInv, ShapeInv, ControlInv, FilesInv, In, Holding, Held,
       Statuses, FinishTurn, document, counters
<1>7. StartInv'
    BY DEF IInv, ShapeInv, QueueInv, StartInv, FinishTurn, counters
<1>8. OwnerInv'
    BY SectionNames, WorkNames DEF IInv, ShapeInv, ControlInv, QueueInv, OwnerInv,
       NoFailure, Held, FinishTurn, document, counters
<1>9. RemovedInv'
    BY SectionNames DEF IInv, ShapeInv, QueueInv, RemovedInv, Held, FinishTurn,
       document
<1> QED BY <1>1, <1>2, <1>3, <1>4, <1>5, <1>6, <1>7, <1>8, <1>9 DEF IInv

\* The message that is worked on is settled.
LEMMA BeginRecordPreserves ==
  ASSUME IInv, NEW m \in Sends, BeginRecord(m)
  PROVE  IInv'
<1>1. m \in In(state)
    BY DEF IInv, QueueInv, KeptInv, BeginRecord, Free, Change
<1>2. /\ host = "up" /\ holder = None /\ holder' = Section("record", m) /\ previous' = state
      /\ state' = [state EXCEPT ![m] = "settled"] /\ disk' = disk
      /\ host' = host /\ send' = send
    BY DEF BeginRecord, Free, Change
<1>3. In(state') = In(state) /\ In(previous') = In(state) /\ In(disk') = In(disk)
    BY <1>1, <1>2 DEF IInv, ShapeInv, In, Statuses
<1>4. ShapeInv'
    BY <1>1, <1>2, <1>3 DEF IInv, ShapeInv, Statuses, BeginRecord, Free, Change,
       loop, counters
<1>5. ControlInv'
    BY <1>1, <1>2, <1>3, SectionNames, WorkNames DEF IInv, ShapeInv, ControlInv,
       Holding, Held, BeginRecord, Free, Change, loop
<1>6. DocumentInv'
  <2>1. Holding' /\ ~Holding /\ \A n \in Sends : ~Held("accept", n)'
      BY <1>2, SectionNames DEF Holding, Held
  <2> QED BY <1>2, <1>3, <2>1 DEF IInv, DocumentInv, OnePerSubmission
<1>7. QueueInv'
    BY <1>1, <1>2, <1>3, SectionNames DEF IInv, ShapeInv, DocumentInv, QueueInv,
       Held, BeginRecord, Free, Change, loop
<1>8. KeptInv'
    BY <1>1, <1>2, <1>3, SectionNames DEF IInv, ShapeInv, DocumentInv, KeptInv, In,
       Holding, Held, Receipts, Statuses, BeginRecord, Free, Change
<1>9. FilesInv'
    BY <1>1, <1>2, <1>3, SectionNames DEF IInv, ShapeInv, ControlInv, FilesInv, In,
       Holding, Held, Statuses, BeginRecord, Free, Change, counters
<1>10. StartInv'
    BY <1>1, <1>2, <1>3 DEF IInv, ShapeInv, QueueInv, StartInv, BeginRecord, Free,
       Change, loop, counters
<1>11. OwnerInv'
    BY <1>1, <1>2, <1>3, SectionNames, WorkNames DEF IInv, ShapeInv, ControlInv,
       QueueInv, OwnerInv, NoFailure, Held, BeginRecord, Free, Change, loop, counters
<1>12. RemovedInv'
    BY <1>1, <1>2, <1>3, SectionNames DEF IInv, ShapeInv, QueueInv, RemovedInv,
       Held, BeginRecord, Free, Change, loop
<1> QED BY <1>4, <1>5, <1>6, <1>7, <1>8, <1>9, <1>10, <1>11, <1>12 DEF IInv

\* The reply is saved.
LEMMA RecordPreserves ==
  ASSUME IInv, NEW m \in Sends, Record(m)
  PROVE  IInv'
<1>1. /\ current = Of(m) /\ stage = "recording" /\ state[m] = "settled"
      /\ holder = Section("record", m)
    BY SectionNames DEF IInv, ControlInv, Record, Persisted, Held
<1>2. ShapeInv'
    BY <1>1 DEF IInv, ShapeInv, Statuses, Record, Persisted, counters
<1>3. ControlInv'
    BY <1>1, SectionNames, WorkNames DEF IInv, ShapeInv, ControlInv, Holding, Held,
       Record, Persisted
<1>4. DocumentInv'
    BY <1>1, SectionNames DEF IInv, ShapeInv, ControlInv, DocumentInv,
       OnePerSubmission, In, Holding, Held, Statuses, Record, Persisted
<1>5. QueueInv'
    BY <1>1, SectionNames DEF IInv, ShapeInv, DocumentInv, QueueInv, Held, Record,
       Persisted
<1>6. KeptInv'
    BY <1>1, SectionNames DEF IInv, ShapeInv, DocumentInv, KeptInv, In, Holding,
       Held, Receipts, Statuses, Record, Persisted, ControlInv, QueueInv, counters
<1>7. FilesInv'
    BY <1>1, SectionNames DEF IInv, ShapeInv, ControlInv, FilesInv, In, Holding,
       Held, Statuses, Record, Persisted, counters
<1>8. StartInv'
    BY <1>1 DEF IInv, ShapeInv, QueueInv, StartInv, Record, Persisted, counters
<1>9. OwnerInv'
    BY <1>1, SectionNames, WorkNames DEF IInv, ShapeInv, ControlInv, QueueInv,
       OwnerInv, NoFailure, Held, Record, Persisted, counters
<1>10. RemovedInv'
    BY <1>1, SectionNames DEF IInv, ShapeInv, QueueInv, RemovedInv, Held, Record,
       Persisted
<1> QED BY <1>2, <1>3, <1>4, <1>5, <1>6, <1>7, <1>8, <1>9, <1>10 DEF IInv

\* The reply is taken back.
LEMMA RecordFailsPreserves ==
  ASSUME IInv, NEW m \in Sends, RecordFails(m)
  PROVE  IInv'
<1>1. /\ current = Of(m) /\ stage = "recording" /\ state[m] = "settled"
      /\ holder = Section("record", m)
    BY SectionNames DEF IInv, ControlInv, RecordFails, Rejected, Held
<1>2. /\ Rejected /\ stage' = "broken"
      /\ UNCHANGED <<saved, send, files, pending, current, starts, removed, host>>
    BY DEF RecordFails
<1>3. ShapeInv'
  <2>3. disk' \in [Sends -> Statuses]
      BY <1>2, RejectedCounts DEF IInv, ShapeInv
  <2>4. Rejected
      BY <1>2
  <2> QED BY <1>2, <2>3, <2>4, RejectedCounts, SMTT(30) DEF IInv, ShapeInv
<1>4. ControlInv'
    BY <1>1, <1>2, SectionNames, WorkNames DEF IInv, ShapeInv, ControlInv, Holding,
       Held, RecordFails, Rejected
<1>5. DocumentInv'
    BY <1>1, <1>2, SectionNames DEF IInv, ShapeInv, ControlInv, DocumentInv,
       OnePerSubmission, In, Holding, Held, Statuses, RecordFails, Rejected
<1>6. QueueInv'
    BY <1>1, <1>2, SectionNames DEF IInv, ShapeInv, DocumentInv, QueueInv, Held,
       RecordFails, Rejected
<1>7. KeptInv'
    BY <1>1, <1>2, SectionNames DEF IInv, ShapeInv, DocumentInv, KeptInv, In,
       Holding, Held, Receipts, Statuses, RecordFails, Rejected, ControlInv, QueueInv
<1>8. FilesInv'
    BY <1>1, <1>2, SectionNames DEF IInv, ShapeInv, ControlInv, FilesInv, In,
       Holding, Held, Statuses, RecordFails, Rejected
<1>9. StartInv'
    BY <1>1, <1>2 DEF IInv, ShapeInv, QueueInv, StartInv, RecordFails, Rejected
<1>10. OwnerInv'
    BY <1>1, <1>2, SectionNames, WorkNames DEF IInv, ShapeInv, ControlInv, QueueInv,
       OwnerInv, NoFailure, Held, RecordFails, Rejected
<1>11. RemovedInv'
    BY <1>1, <1>2, SectionNames DEF IInv, ShapeInv, QueueInv, RemovedInv, Held,
       RecordFails, Rejected
<1> QED BY <1>3, <1>4, <1>5, <1>6, <1>7, <1>8, <1>9, <1>10, <1>11 DEF IInv

\* The first that waits is started.
LEMMA AdvancePreserves ==
  ASSUME IInv, Advance
  PROVE  IInv'
<1>1. pending # <<>> => /\ Head(pending) \in Sends /\ Head(pending) \in Waiting(pending)
                         /\ Tail(pending) \in Seq(Sends) /\ Distinct(Tail(pending))
                         /\ Waiting(Tail(pending)) = Waiting(pending) \ {Head(pending)}
    BY Pop DEF IInv, ShapeInv, QueueInv
<1>2. /\ UNCHANGED <<document, saved, send, files, removed, host, counters>>
      /\ stage = "recorded" /\ host = "up"
    BY DEF Advance
<1>3. /\ pending # <<>> => /\ current' = Of(Head(pending)) /\ stage' = "working"
                           /\ starts' = [starts EXCEPT ![Head(pending)] = @ + 1]
                           /\ pending' = Tail(pending)
      /\ pending = <<>> => /\ current' = Idle /\ stage' = "none"
                           /\ pending' = pending /\ starts' = starts
    BY DEF Advance, Start
<1>4. Waiting(<<>>) = {}
    BY DEF Waiting
<1>5. /\ pending' \in Seq(Sends) /\ Distinct(pending')
      /\ Waiting(pending') = IF pending = <<>> THEN {} ELSE Waiting(pending) \ {Head(pending)}
  <2>1. pending \in Seq(Sends) /\ Distinct(pending)
      BY DEF IInv, ShapeInv, QueueInv
  <2>2. CASE pending = <<>>
      BY <1>3, <1>4, <2>1, <2>2
  <2>3. CASE pending # <<>>
      BY <1>1, <1>3, <2>3
  <2> QED BY <2>2, <2>3
<1>6. ShapeInv'
  <2>1. starts' \in [Sends -> Nat]
    <3>1. starts \in [Sends -> Nat]
        BY DEF IInv, ShapeInv
    <3>3. CASE pending # <<>>
      <4>1. starts[Head(pending)] + 1 \in Nat
          BY <1>1, <3>1, <3>3
      <4> QED BY <1>1, <1>3, <3>1, <3>3, <4>1
    <3> QED BY <1>3, <3>1, <3>3
  <2>3. stage' \in {"none", "working", "recording", "recorded", "broken"}
      BY <1>3
  <2>2. current' \in {Idle} \cup {Of(n) : n \in Sends}
      BY <1>1, <1>3 DEF IInv, ShapeInv
  <2> QED BY <1>2, <1>5, <2>1, <2>2, <2>3 DEF IInv, ShapeInv, document, counters
<1>7. ControlInv'
  <2>1. current' = Idle <=> stage' = "none"
      BY <1>1, <1>3, WorkNames
  <2> QED BY <1>2, <2>1 DEF IInv, ControlInv, Held, Holding, document
<1>8. DocumentInv'
    BY <1>2 DEF IInv, DocumentInv, Held, Holding, In, OnePerSubmission, document
<1>9. QueueInv'
  <2>1. \A m \in Sends : current' = Of(m) => send[m] = "accepted"
      BY <1>1, <1>3, WorkNames DEF IInv, QueueInv
  <2>2. Waiting(pending') \subseteq Waiting(pending)
      BY <1>5
  <2> QED BY <1>2, <1>5, <2>1, <2>2 DEF IInv, QueueInv, Held, document
<1>10. KeptInv'
    BY <1>2 DEF IInv, KeptInv, Holding, Receipts, In, document
<1>11. FilesInv'
    BY <1>2 DEF IInv, FilesInv, Held, Holding, In, document, counters
<1>12. StartInv'
  <2>1. /\ starts \in [Sends -> Nat] /\ removeFailures \in Nat
        /\ removeFailures' = removeFailures /\ send' = send
      BY <1>2, BoundAssumption DEF IInv, ShapeInv, counters
  <2>2. CASE pending = <<>>
      BY <1>3, <1>5, <2>1, <2>2 DEF IInv, StartInv
  <2>3. CASE pending # <<>>
    <3>1. send[Head(pending)] = "accepted" /\ starts[Head(pending)] <= removeFailures
        BY <1>1, <2>3 DEF IInv, QueueInv, StartInv
    <3>2. \A m \in Sends : starts'[m] = IF m = Head(pending) THEN starts[m] + 1 ELSE starts[m]
        BY <1>3, <2>1, <2>3
    <3>3. Waiting(pending') = Waiting(pending) \ {Head(pending)}
        BY <1>5, <2>3
    <3> QED BY <1>1, <2>1, <2>3, <3>1, <3>2, <3>3 DEF IInv, StartInv
  <2> QED BY <2>2, <2>3
<1>13. OwnerInv'
  <2>1. NoFailure' = NoFailure /\ state' = state /\ host' = host
      BY <1>2 DEF NoFailure, document, counters
  <2>2. \A n \in Sends : Held("accept", n)' = Held("accept", n)
      BY <1>2 DEF Held, document
  <2>3. CASE pending = <<>>
      BY <1>2, <1>3, <1>4, <2>1, <2>2, <2>3, WorkNames DEF IInv, OwnerInv
  <2>4. CASE pending # <<>>
      BY <1>1, <1>2, <1>3, <1>5, <2>1, <2>2, <2>4, WorkNames DEF IInv, OwnerInv
  <2> QED BY <2>3, <2>4
<1>14. RemovedInv'
  <2>1. Waiting(pending') \subseteq Waiting(pending)
      BY <1>5
  <2> QED BY <1>2, <2>1 DEF IInv, RemovedInv, Held, document
<1> QED BY <1>6, <1>7, <1>8, <1>9, <1>10, <1>11, <1>12, <1>13, <1>14 DEF IInv

\* A loop ends early only after a rejected persist.
LEMMA AbandonPreserves ==
  ASSUME IInv, Abandon
  PROVE  IInv'
<1>1. ShapeInv'
    BY DEF IInv, ShapeInv, Statuses, Abandon, document, counters
<1>2. ControlInv'
    BY SectionNames, WorkNames DEF IInv, ShapeInv, ControlInv, Holding, Held,
       Abandon, document
<1>3. DocumentInv'
    BY SectionNames DEF IInv, ShapeInv, ControlInv, DocumentInv, OnePerSubmission,
       In, Holding, Held, Statuses, Abandon, document
<1>4. QueueInv'
    BY WorkNames DEF IInv, ShapeInv, DocumentInv, QueueInv, Held, Abandon, document
<1>5. KeptInv'
    BY SectionNames DEF IInv, ShapeInv, DocumentInv, KeptInv, In, Holding, Held,
       Receipts, Statuses, Abandon, document
<1>6. FilesInv'
    BY SectionNames DEF IInv, ShapeInv, ControlInv, FilesInv, In, Holding, Held,
       Statuses, Abandon, document, counters
<1>7. StartInv'
    BY DEF IInv, ShapeInv, QueueInv, StartInv, Abandon, counters
<1>8. OwnerInv'
    BY SectionNames, WorkNames DEF IInv, ShapeInv, ControlInv, QueueInv, OwnerInv,
       NoFailure, Held, Abandon, document, counters
<1>9. RemovedInv'
    BY SectionNames DEF IInv, ShapeInv, QueueInv, RemovedInv, Held, Abandon, document
<1> QED BY <1>1, <1>2, <1>3, <1>4, <1>5, <1>6, <1>7, <1>8, <1>9 DEF IInv

\* Neighbours change places.
LEMMA ReorderPreserves ==
  ASSUME IInv, NEW m \in Sends, Reorder(m)
  PROVE  IInv'
<1>1. pending \in Seq(Sends) /\ Distinct(pending)
    BY DEF IInv, ShapeInv, QueueInv
<1>2. PICK i \in 1..(Len(pending) - 1) :
            pending' = [pending EXCEPT ![i] = pending[i + 1], ![i + 1] = pending[i]]
    BY DEF Reorder
<1>3. pending' \in Seq(Sends) /\ Distinct(pending') /\ Waiting(pending') = Waiting(pending)
    BY <1>1, <1>2, Swap
<1>4. UNCHANGED <<document, saved, send, files, current, stage, starts, removed,
                      host, counters>>
      /\ host = "up" /\ holder = None
    BY DEF Reorder, Free
<1>5. ShapeInv'
    BY <1>3, <1>4, SectionNames DEF IInv, ShapeInv, Statuses, document, counters
<1>6. ControlInv'
    BY <1>3, <1>4, SectionNames DEF IInv, ShapeInv, ControlInv, Holding, Held,
       document, counters
<1>7. DocumentInv'
    BY <1>3, <1>4, SectionNames, SMTT(30) DEF IInv, ShapeInv, ControlInv, DocumentInv,
       OnePerSubmission, In, Holding, Held, Statuses, document, counters
<1>8. QueueInv'
    BY <1>3, <1>4, SectionNames DEF IInv, ShapeInv, DocumentInv, QueueInv,
       Held, document, counters
<1>9. KeptInv'
    BY <1>4 DEF IInv, KeptInv, Holding, Receipts, In, document
<1>10. FilesInv'
    BY <1>3, <1>4, SectionNames DEF IInv, ShapeInv, ControlInv, FilesInv, In,
       Holding, Held, Statuses, document, counters
<1>11. StartInv'
    BY <1>3, <1>4, SectionNames DEF IInv, ShapeInv, QueueInv, StartInv,
       document, counters
<1>12. OwnerInv'
  <2>1. NoFailure' = NoFailure /\ state' = state /\ host' = host
      BY <1>4 DEF NoFailure, document, counters
  <2>2. \A n \in Sends : Held("accept", n)' = Held("accept", n)
      BY <1>4 DEF Held, document
  <2>3. pending = <<>> => pending' = <<>>
      BY <1>2
  <2> QED BY <1>3, <1>4, <2>1, <2>2, <2>3 DEF IInv, OwnerInv
<1>13. RemovedInv'
    BY <1>3, <1>4, SectionNames DEF IInv, ShapeInv, QueueInv, RemovedInv,
       Held, document, counters
<1> QED BY <1>5, <1>6, <1>7, <1>8, <1>9, <1>10, <1>11, <1>12, <1>13 DEF IInv

\* The message leaves the queue.
LEMMA BeginRemovePreserves ==
  ASSUME IInv, NEW m \in Sends, BeginRemove(m)
  PROVE  IInv'
<1>1. pending \in Seq(Sends) /\ Distinct(pending)
    BY DEF IInv, ShapeInv, QueueInv
<1>2. PICK i \in 1..Len(pending) : pending[i] = m /\ pending' = RemoveAt(pending, i)
    BY <1>1 DEF BeginRemove
<1>3. /\ pending' \in Seq(Sends) /\ Distinct(pending')
      /\ Waiting(pending') = Waiting(pending) \ {m}
    BY <1>1, <1>2, Cut
<1>4. m \in Waiting(pending) /\ m \in In(state) /\ send[m] = "accepted"
  <2>1. m \in Waiting(pending)
      BY <1>2 DEF Waiting
  <2>2. host = "up"
      BY DEF BeginRemove, Free
  <2> QED BY <2>1, <2>2 DEF IInv, QueueInv, KeptInv
<1>5. /\ host = "up" /\ holder = None /\ holder' = Section("remove", m) /\ previous' = state
      /\ state' = [state EXCEPT ![m] = "settled"] /\ disk' = disk /\ saved' = pending
      /\ UNCHANGED <<send, files, current, stage, starts, removed, host, counters>>
    BY DEF BeginRemove, Free, Change
<1>6. In(state') = In(state) /\ In(previous') = In(state) /\ In(disk') = In(disk)
    BY <1>4, <1>5 DEF IInv, ShapeInv, In, Statuses
<1>7. /\ Holding' /\ ~Holding /\ \A n \in Sends : ~Held("accept", n)' /\ ~Held("record", n)'
      /\ \A n \in Sends : Held("remove", n)' <=> n = m
      /\ \A n \in Sends : ~Held("accept", n)
    BY <1>5, SectionNames DEF Holding, Held
<1>8. ShapeInv'
    BY <1>1, <1>3, <1>5 DEF IInv, ShapeInv, Statuses, counters
<1>9. ControlInv'
    BY <1>3, <1>5, <1>7 DEF IInv, ControlInv
<1>10. DocumentInv'
    BY <1>5, <1>6, <1>7 DEF IInv, DocumentInv, OnePerSubmission
<1>11. QueueInv'
    BY <1>1, <1>3, <1>5, <1>7 DEF IInv, QueueInv
<1>12. KeptInv'
  <2>1. \A s \in Sends :
          /\ Receipts(state', SubmissionOf[s]) = Receipts(state, SubmissionOf[s])
          /\ Receipts(previous', SubmissionOf[s]) = Receipts(state, SubmissionOf[s])
      BY <1>6 DEF Receipts, In
  <2> QED BY <1>5, <1>6, <1>7, <2>1 DEF IInv, KeptInv
<1>13. FilesInv'
    BY <1>5, <1>6, <1>7 DEF IInv, FilesInv, counters
<1>14. StartInv'
    BY <1>3, <1>5 DEF IInv, StartInv, counters
<1>15. OwnerInv'
  <2>1. NoFailure' = NoFailure
      BY <1>5 DEF NoFailure, counters
  <2>2. \A n \in Sends : state'[n] = IF n = m THEN "settled" ELSE state[n]
      BY <1>5 DEF IInv, ShapeInv
  <2>3. pending # <<>>
      BY <1>2
  <2> QED BY <1>3, <1>4, <1>5, <1>7, <2>1, <2>2, <2>3 DEF IInv, OwnerInv
<1>16. RemovedInv'
    BY <1>3, <1>4, <1>5, <1>7 DEF IInv, RemovedInv
<1> QED BY <1>8, <1>9, <1>10, <1>11, <1>12, <1>13, <1>14, <1>15, <1>16 DEF IInv

\* The removal is saved.
LEMMA RemovedPreserves ==
  ASSUME IInv, NEW m \in Sends, Removed(m)
  PROVE  IInv'
<1>1. ShapeInv'
    BY DEF IInv, ShapeInv, Statuses, Removed, Persisted, loop, counters
<1>2. ControlInv'
    BY SectionNames, WorkNames DEF IInv, ShapeInv, ControlInv, Holding, Held,
       Removed, Persisted, loop
<1>3. DocumentInv'
    BY SectionNames DEF IInv, ShapeInv, ControlInv, DocumentInv, OnePerSubmission,
       In, Holding, Held, Statuses, Removed, Persisted
<1>4. QueueInv'
    BY SectionNames DEF IInv, ShapeInv, DocumentInv, QueueInv, Held, Removed,
       Persisted, loop
<1>5. KeptInv'
    BY SectionNames DEF IInv, ShapeInv, DocumentInv, KeptInv, In, Holding, Held,
       Receipts, Statuses, Removed, Persisted, ControlInv, QueueInv, counters
<1>6. FilesInv'
    BY SectionNames DEF IInv, ShapeInv, ControlInv, FilesInv, In, Holding, Held,
       Statuses, Removed, Persisted, counters
<1>7. StartInv'
    BY DEF IInv, ShapeInv, QueueInv, StartInv, Removed, Persisted, loop, counters
<1>8. OwnerInv'
    BY SectionNames, WorkNames DEF IInv, ShapeInv, ControlInv, QueueInv, OwnerInv,
       NoFailure, Held, Removed, Persisted, loop, counters
<1>9. RemovedInv'
    BY SectionNames DEF IInv, ShapeInv, QueueInv, RemovedInv, Held, Removed,
       Persisted, loop
<1> QED BY <1>1, <1>2, <1>3, <1>4, <1>5, <1>6, <1>7, <1>8, <1>9 DEF IInv

\* The queue of before comes back.
LEMMA RemoveFailsPreserves ==
  ASSUME IInv, NEW m \in Sends, RemoveFails(m)
  PROVE  IInv'
<1>1. /\ removeFailures' \in 0..MaxRemoveFailures /\ removeFailures' > 0
      /\ removeFailures' = removeFailures + 1
    BY BoundAssumption DEF IInv, ShapeInv, RemoveFails
<1>2. /\ state' = previous /\ pending' = saved /\ holder' = None
      /\ disk' = disk \/ disk' = state
      /\ UNCHANGED <<previous, saved, send, files, current, stage, starts, removed,
                      host, failures, lateFailures, crashes>>
    BY DEF RemoveFails
<1>3. ShapeInv'
    BY <1>1, <1>2 DEF IInv, ShapeInv
<1>4. ControlInv'
    BY <1>1, <1>2, SectionNames, WorkNames DEF IInv, ShapeInv, ControlInv, Holding,
       Held, RemoveFails
<1>5. DocumentInv'
    BY <1>1, <1>2, SectionNames DEF IInv, ShapeInv, ControlInv, DocumentInv,
       OnePerSubmission, In, Holding, Held, Statuses, RemoveFails
<1>6. QueueInv'
    BY <1>1, <1>2, SectionNames DEF IInv, ShapeInv, DocumentInv, QueueInv, Held,
       RemoveFails
<1>7. KeptInv'
    BY <1>1, <1>2, SectionNames DEF IInv, ShapeInv, DocumentInv, KeptInv, In,
       Holding, Held, Receipts, Statuses, RemoveFails
<1>8. FilesInv'
    BY <1>1, <1>2, SectionNames DEF IInv, ShapeInv, ControlInv, DocumentInv, FilesInv, In,
       Holding, Held, Statuses, RemoveFails
<1>9. StartInv'
    BY <1>1, <1>2 DEF IInv, ShapeInv, QueueInv, StartInv, RemoveFails
<1>10. OwnerInv'
    BY <1>1, <1>2, SectionNames, WorkNames DEF IInv, ShapeInv, ControlInv, QueueInv,
       OwnerInv, NoFailure, Held, RemoveFails
<1>11. RemovedInv'
    BY <1>1, <1>2, SectionNames DEF IInv, ShapeInv, QueueInv, RemovedInv, Held,
       RemoveFails
<1> QED BY <1>3, <1>4, <1>5, <1>6, <1>7, <1>8, <1>9, <1>10, <1>11 DEF IInv

\* Memory is gone.
LEMMA CrashPreserves ==
  ASSUME IInv, Crash
  PROVE  IInv'
<1>1. /\ state' = Nowhere /\ previous' = Nowhere /\ holder' = None /\ saved' = <<>>
      /\ pending' = <<>> /\ current' = Idle /\ stage' = "none" /\ host = "up" /\ host' = "down"
      /\ UNCHANGED <<files, starts, removed, failures, lateFailures, removeFailures>>
    BY DEF Crash
<1>2. send' = [s \in Sends |-> IF send[s] = "sent" THEN "lost" ELSE send[s]]
    BY DEF Crash
<1>3. crashes' \in 0..MaxCrashes
    BY BoundAssumption DEF IInv, ShapeInv, Crash
<1>4. disk' = disk \/ (Holding /\ disk' = state)
    BY DEF Crash, Holding
<1>5. /\ Waiting(<<>>) = {} /\ Distinct(<<>>) /\ <<>> \in Seq(Sends)
    BY DEF Waiting, Distinct
<1>6. In(Nowhere) = {} /\ Nowhere \in [Sends -> Statuses]
    BY DEF In, Nowhere, Statuses
<1>7. \A s \in Sends : send'[s] = "accepted" <=> send[s] = "accepted"
    BY <1>2 DEF IInv, ShapeInv
<1>8. ShapeInv'
  <2>1. send' \in [Sends -> {"idle", "sent", "accepted", "replayed", "failed", "lost"}]
      BY <1>2 DEF IInv, ShapeInv
  <2> QED BY <1>1, <1>3, <1>4, <1>5, <1>6, <2>1 DEF IInv, ShapeInv
<1>9. ControlInv'
    BY <1>1, SectionNames DEF ControlInv, Holding, Held
<1>10. DocumentInv'
  <2>1. OnePerSubmission(disk') /\ OnePerSubmission(Nowhere)
      BY <1>4, <1>6 DEF IInv, DocumentInv, OnePerSubmission
  <2> QED BY <1>1, <2>1, SectionNames DEF DocumentInv, Held
<1>11. QueueInv'
    BY <1>1, <1>5, WorkNames, SectionNames DEF QueueInv, Held
<1>12. KeptInv'
    BY <1>1, <1>2, <1>4 DEF IInv, ShapeInv, KeptInv, Holding, Receipts, In
<1>13. FilesInv'
  <2> SUFFICES ASSUME lateFailures = 0
               PROVE  FilesInv'
      BY <1>1 DEF FilesInv
  <2>1. In(disk') \cup In(state') \subseteq files
      BY <1>1, <1>4, <1>6 DEF IInv, FilesInv
  <2>2. ASSUME NEW s \in Sends
        PROVE  /\ send'[s] = "idle" => s \notin In(disk')
               /\ send'[s] # "sent"
               /\ send'[s] \in {"failed", "replayed"} => s \notin files
      BY <1>2, <1>4 DEF IInv, ShapeInv, FilesInv
  <2> QED BY <1>1, <1>6, <2>1, <2>2 DEF FilesInv
<1>14. StartInv'
    BY <1>1, <1>5, <1>7 DEF IInv, StartInv
<1>15. OwnerInv'
  <2>1. NoFailure' => NoFailure
      BY <1>1 DEF NoFailure
  <2> QED BY <1>1, <2>1, WorkNames DEF OwnerInv
<1>16. RemovedInv'
    BY <1>1, <1>5, <1>7, SectionNames DEF IInv, ShapeInv, RemovedInv, Held
<1> QED BY <1>8, <1>9, <1>10, <1>11, <1>12, <1>13, <1>14, <1>15, <1>16 DEF IInv

\* The document is loaded.
LEMMA RestartPreserves ==
  ASSUME IInv, Restart
  PROVE  IInv'
<1>1. ShapeInv'
    BY DEF IInv, ShapeInv, Statuses, Restart, loop, counters
<1>2. ControlInv'
    BY SectionNames, WorkNames DEF IInv, ShapeInv, ControlInv, Holding, Held,
       Restart, loop
<1>3. DocumentInv'
    BY SectionNames DEF IInv, ShapeInv, ControlInv, DocumentInv, OnePerSubmission,
       In, Holding, Held, Statuses, Restart
<1>4. QueueInv'
    BY SectionNames DEF IInv, ShapeInv, DocumentInv, QueueInv, Held, Restart, loop
<1>5. KeptInv'
    BY SectionNames DEF IInv, ShapeInv, DocumentInv, KeptInv, In, Holding, Held,
       Receipts, Statuses, Restart
<1>6. FilesInv'
    BY SectionNames DEF IInv, ShapeInv, ControlInv, FilesInv, In, Holding, Held,
       Statuses, Restart, counters
<1>7. StartInv'
    BY DEF IInv, ShapeInv, QueueInv, StartInv, Restart, loop, counters
<1>8. OwnerInv'
    BY SectionNames, WorkNames DEF IInv, ShapeInv, ControlInv, QueueInv, OwnerInv,
       NoFailure, Held, Restart, loop, counters
<1>9. RemovedInv'
    BY SectionNames DEF IInv, ShapeInv, QueueInv, RemovedInv, Held, Restart, loop
<1> QED BY <1>1, <1>2, <1>3, <1>4, <1>5, <1>6, <1>7, <1>8, <1>9 DEF IInv

-----------------------------------------------------------------------------
(* The invariant, and what follows from it.                                *)

\* Nothing was sent, stored or started yet.
LEMMA InitInv == Init => IInv
<1> SUFFICES ASSUME Init
             PROVE  IInv
    OBVIOUS
<1> USE DEF Init
<1>1. /\ Nowhere \in [Sends -> Statuses] /\ In(Nowhere) = {}
      /\ Waiting(<<>>) = {} /\ Distinct(<<>>) /\ <<>> \in Seq(Sends)
    BY DEF Nowhere, Statuses, In, Waiting, Distinct
<1>2. ShapeInv
    BY <1>1, BoundAssumption DEF ShapeInv
<1>3. ControlInv
    BY SectionNames DEF ControlInv, Holding, Held
<1>4. DocumentInv
    BY <1>1, SectionNames DEF DocumentInv, OnePerSubmission, Held, Holding
<1>5. QueueInv
    BY <1>1, SectionNames, WorkNames DEF QueueInv, Held
<1>6. KeptInv
    BY DEF KeptInv
<1>7. FilesInv
    BY <1>1 DEF FilesInv, Holding
<1>8. StartInv
    BY <1>1 DEF StartInv
<1>9. OwnerInv
    BY DEF OwnerInv, Nowhere
<1>10. RemovedInv
    BY SectionNames DEF RemovedInv, Held
<1> QED BY <1>2, <1>3, <1>4, <1>5, <1>6, <1>7, <1>8, <1>9, <1>10 DEF IInv

\* A step that changes nothing.
LEMMA StutterPreserves ==
  ASSUME IInv, UNCHANGED vars
  PROVE  IInv'
<1>1. /\ UNCHANGED <<state, disk, previous, holder, saved, send, files, pending>>
      /\ UNCHANGED <<current, stage, starts, removed, host>>
      /\ UNCHANGED <<failures, lateFailures, removeFailures, crashes>>
    BY DEF vars, document, loop, counters
<1>2. ShapeInv' /\ ControlInv' /\ DocumentInv' /\ QueueInv'
    BY <1>1 DEF IInv, ShapeInv, ControlInv, DocumentInv, QueueInv, Held, Holding,
       In, OnePerSubmission
<1>3. KeptInv' /\ FilesInv'
    BY <1>1 DEF IInv, KeptInv, FilesInv, Held, Holding, In, Receipts
<1>4. StartInv' /\ OwnerInv' /\ RemovedInv'
    BY <1>1 DEF IInv, StartInv, OwnerInv, RemovedInv, NoFailure, Held
<1> QED BY <1>2, <1>3, <1>4 DEF IInv

\* Every step keeps the invariant.
LEMMA NextPreserves == IInv /\ [Next]_vars => IInv'
<1> SUFFICES ASSUME IInv, [Next]_vars
             PROVE  IInv'
    OBVIOUS
<1>1. ASSUME NEW m \in Sends,
             Prepare(m) \/ Locked(m) \/ Fail(m) \/ Reorder(m) \/ BeginRemove(m)
      PROVE  IInv'
  <2>1. CASE Locked(m)
    BY <2>1, ReplayPreserves, BeginAcceptPreserves, BeginRecordPreserves,
       AcceptPreserves, RecordPreserves, RemovedPreserves DEF Locked, Settles
  <2>2. CASE Fail(m)
    BY <2>2, AcceptFailsPreserves, RecordFailsPreserves, RemoveFailsPreserves DEF Fail
  <2> QED BY <1>1, <2>1, <2>2, PreparePreserves, ReorderPreserves,
      BeginRemovePreserves
<1>2. CASE RunLoop
    BY <1>2, FinishTurnPreserves, AdvancePreserves, AbandonPreserves DEF RunLoop
<1>3. CASE Crash
    BY <1>3, CrashPreserves
<1>4. CASE Restart
    BY <1>4, RestartPreserves
<1>5. CASE UNCHANGED vars
    BY <1>5, StutterPreserves
<1> QED BY <1>1, <1>2, <1>3, <1>4, <1>5 DEF Next

\* What the queue, the document, the receipts and the files have to do with each other
\* holds in every state a conversation reaches.
THEOREM Invariance == Spec => []IInv
BY InitInv, NextPreserves, PTL DEF Spec

\* The model asks with Contains what the proof asks with Waiting.
LEMMA WaitingIsContains ==
  ASSUME NEW q \in Seq(Sends), NEW m \in Sends
  PROVE  m \in Waiting(q) <=> Contains(q, m)
BY DEF Waiting, Contains

\* Receipts of a submission are the messages of a document that carry it.
LEMMA InvAcceptedOnce == IInv => AcceptedOnce
BY SubmissionAssumption DEF IInv, DocumentInv, AcceptedOnce, Receipts,
   OnePerSubmission, In

\* Each part of QueueConsistent follows from one part of the invariant.
LEMMA InvConsistent == IInv => QueueConsistent
<1> SUFFICES ASSUME IInv
             PROVE  QueueConsistent
    OBVIOUS
<1>1. /\ failures \in Nat /\ lateFailures \in Nat /\ removeFailures \in Nat
      /\ removeFailures <= MaxRemoveFailures /\ MaxRemoveFailures \in Nat
      /\ starts \in [Sends -> Nat] /\ pending \in Seq(Sends) /\ host \in {"up", "down"}
    BY BoundAssumption DEF IInv, ShapeInv
<1>2. failures + lateFailures + removeFailures = 0 => NoFailure
    BY <1>1 DEF NoFailure
<1>3. TypeOK
  <2>1. \A m \in Sends : starts[m] <= 1 + removeFailures
    BY DEF IInv, StartInv
  <2>2. \A m \in Sends : starts[m] \in 0..(1 + MaxRemoveFailures)
    BY <1>1, <2>1
  <2>3. starts \in [Sends -> 0..(1 + MaxRemoveFailures)]
    BY <1>1, <2>2
  <2> QED BY <2>3 DEF IInv, ShapeInv, TypeOK
<1>4. AcceptedIsKept
    BY DEF IInv, KeptInv, AcceptedIsKept, In
<1>5. FilesFollowMessages
    BY DEF IInv, FilesInv, FilesFollowMessages, In
<1>6. StartedOnce
    BY <1>1 DEF IInv, StartInv, StartedOnce
<1>7. OpenHasAnOwner
    BY <1>1, <1>2, WaitingIsContains DEF IInv, OwnerInv, OpenHasAnOwner
<1>8. NoOvertaking
    BY <1>2 DEF IInv, OwnerInv, NoOvertaking
<1> QED BY <1>3, <1>4, <1>5, <1>6, <1>7, <1>8 DEF QueueConsistent

\* At most one message comes of a submission, in memory and on disk, however its
\* sends, the persists and the deaths of the process interleave.
THEOREM AcceptedOnceTheorem == Spec => []AcceptedOnce
<1>1. IInv => AcceptedOnce
    BY InvAcceptedOnce
<1> QED BY Invariance, <1>1, PTL

\* What was accepted is kept with its files and its place, and is not started
\* twice: pendingFollowups and the document agree.
THEOREM QueueTheorem == Spec => []QueueConsistent
<1>1. IInv => QueueConsistent
    BY InvConsistent
<1> QED BY Invariance, <1>1, PTL

\* What a client was told is removed is never given to the Agent, whichever
\* removal is rolled back and whatever the loop took meanwhile.
THEOREM RemovalTheorem == Spec => RemovedNeverStarts
<1>1. ASSUME IInv, [Next]_vars, NEW m \in removed
      PROVE  starts'[m] = starts[m]
  <2>1. /\ m \in Sends /\ send[m] = "accepted" /\ m \notin Waiting(pending)
        /\ starts \in [Sends -> Nat] /\ pending \in Seq(Sends) /\ Distinct(pending)
    BY <1>1 DEF IInv, ShapeInv, RemovedInv, QueueInv
  <2>2. ASSUME NEW n \in Sends, Accept(n)
        PROVE  starts'[m] = starts[m]
    <3>1. send[n] = "sent"
      BY <1>1, <2>2 DEF IInv, DocumentInv, Accept
    <3> QED BY <2>1, <2>2, <3>1 DEF Accept, Start
  <2>3. CASE Advance
    <3>1. pending # <<>> => Head(pending) # m
      BY <2>1, Pop
    <3> QED BY <2>1, <2>3, <3>1 DEF Advance, Start
  <2>4. CASE UNCHANGED starts
    BY <2>4
  <2> QED BY <1>1, <2>2, <2>3, <2>4 DEF Next, vars, loop, Locked, Settles, Fail,
      RunLoop, Prepare, Replay, BeginAccept, BeginRecord, Record, Removed, AcceptFails,
      RecordFails, RemoveFails, Reorder, BeginRemove, FinishTurn, Abandon, Crash,
      Restart
<1>2. IInv /\ [Next]_vars => [\A m \in removed : starts'[m] = starts[m]]_vars
    BY <1>1
<1> QED BY Invariance, <1>2, PTL DEF Spec, RemovedNeverStarts

=============================================================================
