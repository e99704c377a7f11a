------------------------ MODULE ThreadDeliveryProofs ------------------------
(***************************************************************************)
(* A delivery takes no more turns than its limit and none on an edge that  *)
(* it has used, its turns share each session one at a time, it shows at    *)
(* most one stop, a relay loses no Agent without a trace, and its Agents   *)
(* keep their sessions: for any number of Agents, any plan, any limit and  *)
(* any failures.                                                           *)
(*                                                                         *)
(* The memory of the thread it writes in keeps no text of what was deleted *)
(* and is never compacted over what a person wrote meanwhile: for any      *)
(* messages, edits, refreshes, failures and restarts.                      *)
(***************************************************************************)
EXTENDS ThreadDelivery, ContextMemory, FiniteSetTheorems, TLAPS

-----------------------------------------------------------------------------
(* The inductive invariant.                                                *)

In(q) == {q[i] : i \in 1..Len(q)}
Root  == assigned[1]

ShapeInv ==
    /\ relay \in BOOLEAN /\ limit \in Nat
    /\ assigned \in Seq(Known) /\ assigned # <<>>
    /\ remaining \in Seq(Known) /\ IsInjective(remaining)
    /\ turns \in Seq([from : {Nobody} \cup {To(a) : a \in Agents}, to : Known])
    /\ stopped \in BOOLEAN /\ saving \in BOOLEAN
    /\ stage \in [Agents -> Stages]
    /\ agent \in [Agents -> Agents]
    /\ handoff \in [Agents -> {Nobody} \cup {To(a) : a \in Agents}]
    /\ waiting \in [Agents -> Seq(Agents)]
    /\ lock \in Seq(Agents)
    /\ state.stops \in Nat /\ previous.stops \in Nat
    /\ failures \in Nat

\* A chain that persists holds the lock at a stage it leaves only with it.
LockInv == saving => lock # <<>> /\ stage[Head(lock)] \in Locking

TurnsInv == RelayIsBounded

\* A chain that comes for a session waits for it, and works in it as the first.
SessionInv ==
    \A c \in Agents :
        /\ stage[c] \in {"queued", "running", "forgetting"} => c \in In(waiting[agent[c]])
        /\ stage[c] \in {"running", "forgetting"} => Head(waiting[agent[c]]) = c

\* The stop that is shown is the one that was recorded, or is being recorded.
Stopping == saving /\ stage[Head(lock)] = "stopping"
StopInv ==
    IF Stopping
    THEN ~stopped /\ state.stops = 1 /\ previous.stops = 0
    ELSE /\ state.stops = IF stopped THEN 1 ELSE 0
         /\ saving => previous.stops = state.stops

\* A relay has one chain.  Whom it was given and has not reached is in its plan, until
\* a stop or a failure is shown.
RelayInv ==
    relay =>
        /\ Root \in Agents /\ stage[Root] # "none"
        /\ \A c \in Agents \ {Root} : stage[c] = "none"
        /\ In(remaining) \cap Delivered = {}
        /\ failures = 0 =>
             /\ stage[Root] # "broken"
             /\ saving /\ stage[Head(lock)] \in {"failing", "interrupting"}
                  => state.failed # {}
             /\ \/ In(assigned) \subseteq Delivered \cup In(remaining)
                \/ stage[Root] = "stopping"
                \/ stage[Root] = "ended" /\ state.stops > 0
             /\ stage[Root] = "ended" =>
                  \/ remaining = <<>>
                  \/ state.stops > 0
                  \/ state.failed # {}
                  \/ handoff[Root] # Nobody

IInv == ShapeInv /\ LockInv /\ TurnsInv /\ SessionInv /\ StopInv /\ RelayInv

-----------------------------------------------------------------------------
(* What the operations on sequences do.                                    *)

LEMMA Push ==
  ASSUME NEW S, NEW q \in Seq(S), NEW x \in S
  PROVE  /\ Append(q, x) \in Seq(S) /\ Append(q, x) # <<>>
         /\ In(Append(q, x)) = In(q) \cup {x}
         /\ q # <<>> => Head(Append(q, x)) = Head(q)
<1> DEFINE r == Append(q, x)
<1>1. r \in Seq(S) /\ Len(r) = Len(q) + 1
    OBVIOUS
<1>2. (\A i \in 1..Len(q) : r[i] = q[i]) /\ r[Len(q) + 1] = x
    OBVIOUS
<1>3. r # <<>> /\ (q # <<>> => Head(r) = Head(q))
  <2>1. r # <<>> /\ Head(r) = r[1]
    BY <1>1
  <2>2. q # <<>> => 1 \in 1..Len(q) /\ Head(q) = q[1]
    OBVIOUS
  <2> HIDE DEF r
  <2> QED BY <1>2, <2>1, <2>2
<1> HIDE DEF r
<1>4. In(r) = In(q) \cup {x}
    BY <1>1, <1>2 DEF In
<1> QED BY <1>1, <1>3, <1>4 DEF r

LEMMA Pop ==
  ASSUME NEW S, NEW q \in Seq(S), q # <<>>
  PROVE  /\ Head(q) \in S /\ Head(q) \in In(q) /\ Tail(q) \in Seq(S)
         /\ In(q) = In(Tail(q)) \cup {Head(q)}
         /\ IsInjective(q) => IsInjective(Tail(q)) /\ Head(q) \notin In(Tail(q))
<1> DEFINE r == Tail(q)
<1>1. r \in Seq(S) /\ Len(r) = Len(q) - 1 /\ Head(q) = q[1] /\ 1 \in 1..Len(q)
      /\ q[1] \in S /\ DOMAIN q = 1..Len(q) /\ DOMAIN r = 1..Len(r)
    OBVIOUS
<1>2. \A i \in 1..Len(r) : r[i] = q[i + 1] /\ i + 1 \in 1..Len(q) /\ i + 1 # 1
    OBVIOUS
<1>3. \A i \in 1..Len(q) : i = 1 \/ (i - 1 \in 1..Len(r) /\ r[i - 1] = q[i])
    OBVIOUS
<1> HIDE DEF r
<1>4. In(q) = In(r) \cup {q[1]}
  <2>1. In(r) \subseteq In(q) /\ q[1] \in In(q)
    BY <1>1, <1>2 DEF In
  <2>2. In(q) \subseteq In(r) \cup {q[1]}
    BY <1>3 DEF In
  <2> QED BY <2>1, <2>2
<1>5. ASSUME IsInjective(q)
      PROVE  IsInjective(r) /\ q[1] \notin In(r)
  <2>1. q[1] \notin In(r)
    BY <1>1, <1>2, <1>5 DEF In, IsInjective
  <2>2. ASSUME NEW i \in 1..Len(r), NEW j \in 1..Len(r), r[i] = r[j]
        PROVE  i = j
    <3>1. q[i + 1] = q[j + 1] /\ i + 1 \in 1..Len(q) /\ j + 1 \in 1..Len(q)
        BY <1>2, <2>2
    <3>2. i + 1 = j + 1
        BY <1>1, <1>5, <3>1 DEF IsInjective
    <3> QED BY <3>2
  <2> QED BY <1>1, <2>1, <2>2 DEF IsInjective
<1>6. q[1] \in In(q)
    BY <1>1 DEF In
<1> QED BY <1>1, <1>4, <1>5, <1>6 DEF r

\* Taking out the element at a place, of a sequence without repetition.
LEMMA Cut ==
  ASSUME NEW S, NEW q \in Seq(S), IsInjective(q), NEW i \in 1..Len(q)
  PROVE  LET r == RemoveAt(q, i)
         IN  r \in Seq(S) /\ IsInjective(r) /\ In(r) = In(q) \ {q[i]}
<1> DEFINE r == RemoveAt(q, i)
           a == SubSeq(q, 1, i - 1)
           b == SubSeq(q, i + 1, Len(q))
           at(j) == IF j < i THEN j ELSE j + 1
<1>1. a \in Seq(S) /\ Len(a) = i - 1 /\ \A j \in 1..(i - 1) : a[j] = q[j]
    OBVIOUS
<1>2. /\ b \in Seq(S) /\ Len(b) = Len(q) - i
      /\ \A j \in 1..(Len(q) - i) : b[j] = q[j + i]
    OBVIOUS
<1>3. r = a \o b
    BY DEF RemoveAt
<1> HIDE DEF a, b, r
<1>4. r \in Seq(S) /\ Len(r) = Len(q) - 1
  <2>1. \A x, y \in Seq(S) : x \o y \in Seq(S) /\ Len(x \o y) = Len(x) + Len(y)
    OBVIOUS
  <2>2. Len(a) + Len(b) = Len(q) - 1
    BY <1>1, <1>2
  <2> QED BY <1>1, <1>2, <1>3, <2>1, <2>2
<1>5. ASSUME NEW j \in 1..(Len(q) - 1)
      PROVE  r[j] = q[at(j)] /\ at(j) \in 1..Len(q) /\ at(j) # i
  <2>1. CASE j < i
    <3>1. r[j] = a[j] /\ j \in 1..(i - 1)
        BY <1>1, <1>2, <1>3, <2>1
    <3> QED BY <1>1, <2>1, <3>1
  <2>2. CASE j >= i
    <3>1. r[j] = b[j - (i - 1)] /\ j - (i - 1) \in 1..(Len(q) - i)
        BY <1>1, <1>2, <1>3, <2>2
    <3>2. b[j - (i - 1)] = q[j - (i - 1) + i]
        BY <1>2, <3>1
    <3> QED BY <2>2, <3>1, <3>2
  <2> QED BY <2>1, <2>2
<1>6. DOMAIN q = 1..Len(q) /\ DOMAIN r = 1..(Len(q) - 1)
    BY <1>4
<1>7. IsInjective(r)
  <2> SUFFICES ASSUME NEW j \in 1..(Len(q) - 1), NEW k \in 1..(Len(q) - 1), r[j] = r[k]
               PROVE  j = k
    BY <1>6 DEF IsInjective
  <2>1. at(j) = at(k)
    BY <1>5, <1>6 DEF IsInjective
  <2> QED BY <2>1
<1>8. In(r) = In(q) \ {q[i]}
  <2>1. ASSUME NEW j \in 1..Len(r)
        PROVE  r[j] \in In(q) /\ r[j] # q[i]
    <3>1. r[j] = q[at(j)] /\ at(j) \in 1..Len(q) /\ at(j) # i
        BY <1>4, <1>5
    <3> QED BY <1>6, <3>1 DEF In, IsInjective
  <2>2. ASSUME NEW j \in 1..Len(q), q[j] # q[i]
        PROVE  q[j] \in In(r)
    <3> DEFINE k == IF j < i THEN j ELSE j - 1
    <3>1. k \in 1..(Len(q) - 1) /\ at(k) = j
        BY <2>2
    <3>2. r[k] = q[j] /\ k \in 1..Len(r)
        BY <1>4, <1>5, <3>1
    <3> QED BY <3>2 DEF In
  <2> QED BY <2>1, <2>2 DEF In
<1> QED BY <1>4, <1>7, <1>8 DEF r

\* An Agent that is called otherwise leaves the plan, and nobody else does.
LEMMA Unplanned ==
  ASSUME ShapeInv, NEW a
  PROVE  /\ PlanWithout(a) \in Seq(Known) /\ IsInjective(PlanWithout(a))
         /\ In(PlanWithout(a)) = In(remaining) \ {a}
<1>1. DOMAIN remaining = 1..Len(remaining)
    BY DEF ShapeInv
<1>2. CASE Contains(remaining, a)
  <2> DEFINE i == CHOOSE i \in DOMAIN remaining : remaining[i] = a
  <2>1. i \in 1..Len(remaining) /\ remaining[i] = a
    BY <1>1, <1>2 DEF Contains
  <2> QED BY <1>2, <2>1, Cut DEF PlanWithout, ShapeInv
<1>3. CASE ~Contains(remaining, a)
    BY <1>3 DEF PlanWithout, Contains, In, ShapeInv
<1> QED BY <1>2, <1>3

-----------------------------------------------------------------------------
(* Steps of the lock.                                                      *)

Working == {"queued", "running", "forgetting"}

LEMMA StageNames ==
  /\ Locking \subseteq Stages
  /\ {"queued", "running", "continuing", "ended", "broken", "none"} \cap Locking = {}
  /\ {"none", "queued", "running", "continuing", "ended", "broken", "seating", "forgetting",
      "completing", "failing", "interrupting", "stopping"} \subseteq Stages
BY DEF Locking, Stages

LEMMA Moved ==
  ASSUME ShapeInv, NEW c \in Agents, NEW to \in Stages, NEW rest \in Seq(Agents),
         Moves(c, to, rest)
  PROVE  /\ stage' \in [Agents -> Stages] /\ lock' \in Seq(Agents)
         /\ stage'[c] = to /\ \A d \in Agents \ {c} : stage'[d] = stage[d]
         /\ rest # <<>> => lock' # <<>> /\ Head(lock') = Head(rest)
<1>1. stage' \in [Agents -> Stages] /\ stage'[c] = to
      /\ \A d \in Agents \ {c} : stage'[d] = stage[d]
    BY DEF ShapeInv, Moves
<1>2. lock' = rest \/ lock' = Append(rest, c)
    BY DEF Moves
<1>3. lock' \in Seq(Agents) /\ (rest # <<>> => lock' # <<>> /\ Head(lock') = Head(rest))
    BY <1>2, Push
<1> QED BY <1>1, <1>3

\* A chain that is not at the lock disturbs neither its holder nor the stop.
LEMMA OffLock ==
  ASSUME ShapeInv, LockInv, StopInv, NEW c \in Agents, NEW to \in Stages,
         stage[c] \notin Locking, Goes(c, to), UNCHANGED <<document, stopped>>
  PROVE  /\ LockInv' /\ StopInv'
         /\ saving => Head(lock') = Head(lock) /\ stage'[Head(lock)] = stage[Head(lock)]
<1>1. /\ \A d \in Agents \ {c} : stage'[d] = stage[d]
      /\ lock # <<>> => lock' # <<>> /\ Head(lock') = Head(lock)
    BY Moved DEF ShapeInv, Goes
<1>2. saving => lock # <<>> /\ Head(lock) \in Agents \ {c}
    BY Pop DEF LockInv, ShapeInv
<1> QED BY <1>1, <1>2 DEF LockInv, StopInv, Stopping, document

\* A chain that leaves the lock has nothing more to save.
LEMMA Left ==
  ASSUME ShapeInv, NEW c \in Agents, NEW to \in Stages, lock # <<>>, Leaves(c, to)
  PROVE  /\ stage' \in [Agents -> Stages] /\ lock' \in Seq(Agents)
         /\ stage'[c] = to /\ \A d \in Agents \ {c} : stage'[d] = stage[d]
<1>1. Tail(lock) \in Seq(Agents)
    BY Pop DEF ShapeInv
<1> QED BY <1>1, Moved DEF Leaves

\* In a relay only the first chain does anything.
LEMMA OneChain ==
  ASSUME IInv, relay, NEW c \in Agents, stage[c] # "none"
  PROVE  c = Root
BY DEF IInv, RelayInv

-----------------------------------------------------------------------------
(* Sessions.                                                               *)

\* A chain that works in no session afterwards and left the waiting as it was.
LEMMA Elsewhere ==
  ASSUME ShapeInv, SessionInv, NEW c \in Agents,
         \A d \in Agents \ {c} : stage'[d] = stage[d] /\ agent'[d] = agent[d],
         stage'[c] \notin Working, waiting' = waiting
  PROVE  SessionInv'
BY DEF SessionInv, Working

\* A chain that comes to wait for its session.
LEMMA Joined ==
  ASSUME ShapeInv, SessionInv, NEW c \in Agents, stage[c] \notin Working,
         \A d \in Agents \ {c} : stage'[d] = stage[d],
         stage'[c] = "queued", agent' = agent,
         waiting' = [waiting EXCEPT ![agent[c]] = Append(@, c)]
  PROVE  SessionInv' /\ waiting' \in [Agents -> Seq(Agents)]
<1> DEFINE a == agent[c]
<1>1. a \in Agents /\ waiting[a] \in Seq(Agents)
    BY DEF ShapeInv
<1>2. /\ waiting'[a] \in Seq(Agents) /\ In(waiting'[a]) = In(waiting[a]) \cup {c}
      /\ waiting[a] # <<>> => Head(waiting'[a]) = Head(waiting[a])
      /\ \A b \in Agents \ {a} : waiting'[b] = waiting[b]
    BY <1>1, Push DEF ShapeInv
<1>3. \A d \in Agents : stage[d] \in Working => waiting[agent[d]] # <<>>
    BY DEF SessionInv, Working, In, ShapeInv
<1>4. waiting' \in [Agents -> Seq(Agents)]
    BY <1>1, <1>2 DEF ShapeInv
<1>5. ASSUME NEW d \in Agents
      PROVE  /\ stage'[d] \in Working => d \in In(waiting'[agent'[d]])
             /\ stage'[d] \in {"running", "forgetting"} => Head(waiting'[agent'[d]]) = d
  <2>1. CASE d = c
    BY <1>2, <2>1
  <2>2. CASE d # c /\ stage[d] \in Working
    <3>1. d \in In(waiting[agent[d]]) /\ waiting[agent[d]] # <<>> /\ agent[d] \in Agents
        BY <1>3, <2>2 DEF SessionInv, Working, ShapeInv
    <3>2. d \in In(waiting'[agent[d]]) /\ Head(waiting'[agent[d]]) = Head(waiting[agent[d]])
        BY <1>2, <3>1
    <3> QED BY <2>2, <3>2 DEF SessionInv, Working
  <2>3. CASE d # c /\ stage[d] \notin Working
    BY <2>3 DEF Working
  <2> QED BY <2>1, <2>2, <2>3
<1> QED BY <1>4, <1>5 DEF SessionInv, Working

\* A chain that had its session hands it on.
LEMMA Released ==
  ASSUME ShapeInv, SessionInv, NEW c \in Agents, stage[c] \in Working,
         Head(waiting[agent[c]]) = c,
         \A d \in Agents \ {c} : stage'[d] = stage[d],
         stage'[c] \notin Working, agent' = agent, Release(c)
  PROVE  SessionInv' /\ waiting' \in [Agents -> Seq(Agents)]
<1> DEFINE a == agent[c]
<1>1. a \in Agents /\ waiting[a] \in Seq(Agents) /\ waiting[a] # <<>>
    BY DEF ShapeInv, SessionInv, Working, In
<1>2. /\ waiting'[a] \in Seq(Agents) /\ In(waiting[a]) = In(waiting'[a]) \cup {c}
      /\ \A b \in Agents \ {a} : waiting'[b] = waiting[b]
    BY <1>1, Pop DEF ShapeInv, Release
<1>3. waiting' \in [Agents -> Seq(Agents)]
    BY <1>1, <1>2 DEF ShapeInv, Release
<1>4. ASSUME NEW d \in Agents
      PROVE  /\ stage'[d] \in Working => d \in In(waiting'[agent'[d]])
             /\ stage'[d] \in {"running", "forgetting"} => Head(waiting'[agent'[d]]) = d
  <2>1. CASE d = c
    BY <2>1 DEF Working
  <2>2. CASE d # c /\ stage[d] \in Working
    <3>1. d \in In(waiting[agent[d]]) /\ agent[d] \in Agents
        BY <2>2 DEF SessionInv, Working, ShapeInv
    <3>2. d \in In(waiting'[agent[d]])
        BY <1>2, <2>2, <3>1
    <3>3. ASSUME stage[d] \in {"running", "forgetting"}
          PROVE  Head(waiting'[agent[d]]) = d
      <4>1. Head(waiting[agent[d]]) = d
        BY <3>3 DEF SessionInv
      <4> QED BY <1>2, <2>2, <3>1, <4>1
    <3> QED BY <2>2, <3>2, <3>3
  <2>3. CASE d # c /\ stage[d] \notin Working
    BY <2>3 DEF Working
  <2> QED BY <2>1, <2>2, <2>3
<1> QED BY <1>3, <1>4 DEF SessionInv, Working

\* A chain that has its session goes on in it.
LEMMA Stays ==
  ASSUME ShapeInv, SessionInv, NEW c \in Agents, stage[c] \in Working,
         Head(waiting[agent[c]]) = c,
         \A d \in Agents \ {c} : stage'[d] = stage[d],
         stage'[c] \in Working, agent' = agent, waiting' = waiting
  PROVE  SessionInv'
BY DEF SessionInv, Working

-----------------------------------------------------------------------------
(* The steps of a turn.                                                    *)

LEMMA StartTurnPreserves ==
  ASSUME IInv, NEW c \in Agents, StartTurn(c)
  PROVE  IInv'
<1>1. /\ stage[c] = "queued" /\ Head(waiting[agent[c]]) = c
      /\ UNCHANGED <<plan, remaining, turns, stopped, agent, handoff, document, bounds>>
    BY DEF StartTurn
<1>2. \/ Goes(c, "interrupting") /\ Release(c)
      \/ Goes(c, "running") /\ waiting' = waiting
    BY DEF StartTurn, RunsIn, Goes
<1>3. PICK to \in {"interrupting", "running"} :
         Goes(c, to) /\ IF to = "running" THEN waiting' = waiting ELSE Release(c)
    BY <1>2
<1>4. /\ stage' \in [Agents -> Stages] /\ lock' \in Seq(Agents) /\ stage'[c] = to
      /\ \A d \in Agents \ {c} : stage'[d] = stage[d]
    BY <1>3, StageNames, Moved DEF IInv, ShapeInv, Goes
<1>5. SessionInv' /\ waiting' \in [Agents -> Seq(Agents)]
    BY <1>1, <1>3, <1>4, Released, Stays DEF IInv, ShapeInv, Working
<1>6. ShapeInv'
    BY <1>1, <1>4, <1>5 DEF IInv, ShapeInv, plan, document, bounds
<1>7. /\ LockInv' /\ StopInv'
      /\ saving => Head(lock') = Head(lock) /\ stage'[Head(lock)] = stage[Head(lock)]
    BY <1>1, <1>3, StageNames, OffLock DEF IInv
<1>8. TurnsInv'
    BY <1>1 DEF IInv, TurnsInv, RelayIsBounded, plan
<1>9. RelayInv'
    BY <1>1, <1>3, <1>4, <1>7, OneChain DEF IInv, RelayInv, Root, Delivered, plan, document, bounds
<1> QED BY <1>5, <1>6, <1>7, <1>8, <1>9 DEF IInv

LEMMA FinishTurnPreserves ==
  ASSUME IInv, NEW c \in Agents, FinishTurn(c)
  PROVE  IInv'
<1>1. /\ stage[c] = "running" /\ Release(c)
      /\ UNCHANGED <<plan, remaining, turns, stopped, agent, document, bounds>>
    BY DEF FinishTurn
<1>2. PICK to \in {"interrupting", "completing", "failing"} :
         /\ Goes(c, to)
         /\ handoff' \in {handoff, [handoff EXCEPT ![c] = Nobody]}
    BY DEF FinishTurn
<1>3. /\ stage' \in [Agents -> Stages] /\ lock' \in Seq(Agents) /\ stage'[c] = to
      /\ \A d \in Agents \ {c} : stage'[d] = stage[d]
    BY <1>2, StageNames, Moved DEF IInv, ShapeInv, Goes
<1>4. SessionInv' /\ waiting' \in [Agents -> Seq(Agents)]
  <2>1. Head(waiting[agent[c]]) = c
    BY <1>1 DEF IInv, SessionInv
  <2> QED BY <1>1, <1>2, <1>3, <2>1, Released DEF IInv, ShapeInv, Working
<1>5. handoff' \in [Agents -> {Nobody} \cup {To(a) : a \in Agents}]
    BY <1>2 DEF IInv, ShapeInv
<1>6. ShapeInv'
    BY <1>1, <1>3, <1>4, <1>5 DEF IInv, ShapeInv, plan, document, bounds
<1>7. /\ LockInv' /\ StopInv'
      /\ saving => Head(lock') = Head(lock) /\ stage'[Head(lock)] = stage[Head(lock)]
    BY <1>1, <1>2, StageNames, OffLock DEF IInv
<1>8. TurnsInv'
    BY <1>1 DEF IInv, TurnsInv, RelayIsBounded, plan
<1>9. RelayInv'
    BY <1>1, <1>2, <1>3, <1>7, OneChain DEF IInv, RelayInv, Root, Delivered, plan, document, bounds
<1> QED BY <1>4, <1>6, <1>7, <1>8, <1>9 DEF IInv

LEMMA MissingPreserves ==
  ASSUME IInv, NEW c \in Agents, Missing(c)
  PROVE  IInv'
<1>1. /\ stage[c] = "running"
      /\ UNCHANGED <<plan, remaining, turns, stopped, agent, handoff, document, failures>>
    BY DEF Missing
<1>2. PICK to \in {"interrupting", "forgetting"} :
         Goes(c, to) /\ IF to = "forgetting" THEN waiting' = waiting ELSE Release(c)
    BY DEF Missing
<1>3. /\ stage' \in [Agents -> Stages] /\ lock' \in Seq(Agents) /\ stage'[c] = to
      /\ \A d \in Agents \ {c} : stage'[d] = stage[d]
    BY <1>2, StageNames, Moved DEF IInv, ShapeInv, Goes
<1>4. SessionInv' /\ waiting' \in [Agents -> Seq(Agents)]
  <2>1. Head(waiting[agent[c]]) = c
    BY <1>1 DEF IInv, SessionInv
  <2> QED BY <1>1, <1>2, <1>3, <2>1, Released, Stays DEF IInv, ShapeInv, Working
<1>5. ShapeInv'
    BY <1>1, <1>3, <1>4 DEF IInv, ShapeInv, plan, document
<1>6. /\ LockInv' /\ StopInv'
      /\ saving => Head(lock') = Head(lock) /\ stage'[Head(lock)] = stage[Head(lock)]
    BY <1>1, <1>2, StageNames, OffLock DEF IInv
<1>7. TurnsInv'
    BY <1>1 DEF IInv, TurnsInv, RelayIsBounded, plan
<1>8. RelayInv'
    BY <1>1, <1>2, <1>3, <1>6, OneChain DEF IInv, RelayInv, Root, Delivered, plan, document
<1> QED BY <1>4, <1>5, <1>6, <1>7, <1>8 DEF IInv

\* A handoff, which a relay that is over takes no more, and a stop.
LEMMA HandoffPreserves ==
  ASSUME IInv, NEW c \in Agents, NEW to \in Agents, Handoff(c, to) \/ Abort(c)
  PROVE  IInv'
<1>1. /\ UNCHANGED <<plan, remaining, turns, stopped, stage, agent, waiting, document, lock, bounds>>
      /\ stage[c] # "none" /\ stage[c] # "ended"
      /\ handoff' \in {handoff, [handoff EXCEPT ![c] = To(to)]}
    BY DEF Handoff, Abort
<1>2. ShapeInv'
  <2> DEFINE T == {Nobody} \cup {To(a) : a \in Agents}
  <2>1. To(to) \in T
    OBVIOUS
  <2>2. handoff \in [Agents -> T]
    BY DEF IInv, ShapeInv
  <2> HIDE DEF T
  <2>3. handoff' \in [Agents -> T]
    BY <1>1, <2>1, <2>2
  <2> USE DEF T
  <2> QED BY <1>1, <2>3 DEF IInv, ShapeInv, plan, document, bounds
<1>3. LockInv' /\ StopInv' /\ SessionInv' /\ TurnsInv'
    BY <1>1 DEF IInv, LockInv, StopInv, Stopping, SessionInv, TurnsInv, RelayIsBounded,
       plan, document
<1>4. RelayInv'
    BY <1>1, OneChain DEF IInv, RelayInv, Root, Delivered, plan, document, bounds
<1> QED BY <1>2, <1>3, <1>4 DEF IInv

-----------------------------------------------------------------------------
(* Sections of the lock.                                                   *)

\* The holder edits: nothing but a stop counts as one, a failure shows itself.
LEMMA Edited ==
  ASSUME IInv, NEW c \in Agents, NEW at \in Locking, NEW after,
         Begins(c, at), Edit(after),
         UNCHANGED <<plan, remaining, turns, stopped, agent, handoff, waiting>>,
         IF at = "stopping" THEN ~stopped /\ after.stops = state.stops + 1
                            ELSE after.stops = state.stops,
         at \in {"failing", "interrupting"} => after.failed # {}
  PROVE  IInv'
<1>1. /\ stage[c] = at /\ lock # <<>> /\ Head(lock) = c /\ ~saving
      /\ previous' = state /\ state' = after /\ saving' /\ UNCHANGED <<stage, lock, bounds>>
    BY DEF Begins, Holds, Edit
<1>2. ShapeInv'
  <2>1. after.stops \in Nat /\ state.stops \in Nat /\ failures \in Nat
    BY DEF IInv, ShapeInv
  <2> QED BY <1>1, <2>1 DEF IInv, ShapeInv, plan, bounds
<1>3. LockInv'
    BY <1>1 DEF LockInv
<1>4. TurnsInv' /\ SessionInv'
    BY <1>1 DEF IInv, TurnsInv, RelayIsBounded, SessionInv, plan
<1>5. StopInv'
    BY <1>1 DEF IInv, StopInv, Stopping
<1>6. RelayInv'
  <2> SUFFICES ASSUME relay PROVE RelayInv'
    BY DEF RelayInv, plan
  <2>1. c = Root /\ stage[c] # "ended"
    BY <1>1, StageNames, OneChain
  <2> QED BY <1>1, <2>1 DEF IInv, RelayInv, Root, Delivered, plan, bounds
<1> QED BY <1>2, <1>3, <1>4, <1>5, <1>6 DEF IInv

\* The holder leaves: it had nothing to save, or saved it, or takes it back.
LEMMA Finished ==
  ASSUME IInv, NEW c \in Agents, NEW at \in Locking, NEW to \in Stages,
         Holds(c, at), Leaves(c, to),
         UNCHANGED <<plan, remaining, turns, agent, handoff>>,
         \/ ~saving /\ Skip /\ UNCHANGED stopped /\ to # "broken"
         \/ /\ saving /\ Saved /\ to # "broken"
            /\ IF at = "stopping" THEN stopped' = TRUE ELSE UNCHANGED stopped
         \/ saving /\ Fails /\ UNCHANGED stopped,
         to \notin {"none", "stopping"}, at = "stopping" => to \in {"ended", "broken"},
         ~saving /\ at = "stopping" => stopped,
         to = "ended" => \/ at = "stopping"
                         \/ at \in {"failing", "interrupting"} /\ (saving \/ state.failed # {}),
         SessionInv', waiting' \in [Agents -> Seq(Agents)]
  PROVE  IInv'
<1>1. stage[c] = at /\ lock # <<>> /\ Head(lock) = c /\ saving' = FALSE
    BY DEF Holds, Skip, Saved, Fails, document, IInv, ShapeInv
<1>2. /\ stage' \in [Agents -> Stages] /\ lock' \in Seq(Agents) /\ stage'[c] = to
      /\ \A d \in Agents \ {c} : stage'[d] = stage[d]
    BY <1>1, Left DEF IInv
<1>3. ShapeInv'
  <2>1. failures' \in Nat /\ state'.stops \in Nat /\ previous'.stops \in Nat
    BY DEF Skip, Saved, Fails, IInv, ShapeInv, document, bounds
  <2>2. stopped' \in BOOLEAN
    BY DEF IInv, ShapeInv
  <2> QED BY <1>1, <1>2, <2>1, <2>2 DEF IInv, ShapeInv, plan
<1>4. LockInv'
    BY <1>1 DEF LockInv
<1>5. TurnsInv'
    BY DEF IInv, TurnsInv, RelayIsBounded, plan
<1>6. StopInv'
  <2>1. Stopping <=> saving /\ at = "stopping"
    BY <1>1 DEF Stopping
  <2>2. ~Stopping'
    BY <1>1 DEF Stopping
  <2>3. IF saving /\ at = "stopping"
        THEN ~stopped /\ state.stops = 1 /\ previous.stops = 0
        ELSE /\ state.stops = IF stopped THEN 1 ELSE 0
             /\ saving => previous.stops = state.stops
    BY <2>1 DEF IInv, StopInv
  <2>4. state'.stops = IF stopped' THEN 1 ELSE 0
    <3>1. CASE ~saving
        BY <2>3, <3>1 DEF Skip, Saved, Fails, document
    <3>2. CASE saving /\ Saved
      <4>1. state' = state
        BY <3>2 DEF Saved
      <4>2. CASE at = "stopping"
        <5>1. state.stops = 1
            BY <2>3, <3>2, <4>2
        <5>2. ~Fails
            BY <3>2 DEF Saved, Fails, bounds, IInv, ShapeInv
        <5>3. stopped'
            BY <3>2, <4>2, <5>2
        <5> QED BY <4>1, <5>1, <5>3
      <4>3. CASE at # "stopping"
        <5>1. UNCHANGED stopped
            BY <3>2, <4>3
        <5> QED BY <2>3, <4>1, <4>3, <5>1
      <4> QED BY <4>2, <4>3
    <3>3. CASE saving /\ Fails
      <4>1. state' = previous /\ failures' = failures + 1
        BY <3>3 DEF Fails
      <4>2. UNCHANGED stopped
        BY <3>3, <4>1 DEF Saved, bounds, IInv, ShapeInv
      <4> QED BY <2>3, <3>3, <4>1, <4>2
    <3> QED BY <3>1, <3>2, <3>3
  <2> QED BY <1>1, <2>2, <2>4 DEF StopInv
<1>7. RelayInv'
  <2> SUFFICES ASSUME relay PROVE RelayInv'
    BY DEF RelayInv, plan
  <2>1. c = Root /\ at \notin {"ended", "none", "broken"}
    BY <1>1, StageNames, OneChain
  <2>2. Root' = Root /\ Delivered' = Delivered
    BY DEF Root, Delivered, plan
  <2>3. ASSUME failures' = 0
        PROVE  /\ failures = 0 /\ state' = state /\ to # "broken"
               /\ at = "stopping" => state.stops > 0
               /\ saving /\ at \in {"failing", "interrupting"} => state.failed # {}
    <3>1. failures = 0 /\ state' = state /\ to # "broken"
        BY <2>3 DEF Skip, Saved, Fails, IInv, ShapeInv, document, bounds
    <3>2. at = "stopping" => state.stops > 0
        BY <1>1 DEF IInv, StopInv, Stopping
    <3>3. saving /\ at \in {"failing", "interrupting"} => state.failed # {}
        BY <1>1, <3>1 DEF IInv, RelayInv
    <3> QED BY <3>1, <3>2, <3>3
  <2>4. \A d \in Agents \ {Root} : stage'[d] = "none"
    BY <1>2, <2>1 DEF IInv, RelayInv
  <2>5. Root \in Agents /\ In(remaining) \cap Delivered = {}
    BY DEF IInv, RelayInv
  <2>6. ASSUME failures' = 0
        PROVE  \/ In(assigned) \subseteq Delivered \cup In(remaining)
               \/ to = "ended" /\ state.stops > 0
    BY <1>1, <2>1, <2>3, <2>6 DEF IInv, RelayInv
  <2>7. ASSUME failures' = 0, to = "ended"
        PROVE  state.stops > 0 \/ state.failed # {}
    BY <2>3, <2>7
  <2> QED BY <1>1, <1>2, <2>1, <2>2, <2>3, <2>4, <2>5, <2>6, <2>7 DEF RelayInv, plan
<1> QED BY <1>3, <1>4, <1>5, <1>6, <1>7 DEF IInv

\* ensureAgentThreadMembership, and what it was for: the wait for the session.
LEMMA SeatPreserves ==
  ASSUME IInv, NEW c \in Agents, BeginSeat(c) \/ EndSeat(c)
  PROVE  IInv'
<1> USE DEF Locking, Stages
<1>1. Holds(c, "seating") /\ UNCHANGED <<plan, remaining, turns, stopped, agent, handoff>>
    BY DEF BeginSeat, EndSeat, Begins, Settles
<1>2. CASE Join(c) /\ ((~saving /\ Skip) \/ (saving /\ Saved))
  <2>1. /\ Leaves(c, "queued")
        /\ waiting' = [waiting EXCEPT ![agent[c]] = Append(@, c)]
    BY <1>2 DEF Join
  <2>2. SessionInv' /\ waiting' \in [Agents -> Seq(Agents)]
    BY <1>1, <2>1, Left, Joined DEF IInv, Holds, Working
  <2>3. stopped' = (stopped \/ "seating" = "stopping")
    BY <1>1 DEF IInv, ShapeInv
  <2> QED BY <1>1, <1>2, <2>1, <2>2, <2>3, Finished
<1>3. CASE saving /\ Fails /\ Leaves(c, "broken") /\ waiting' = waiting
  <2>1. SessionInv' /\ waiting' \in [Agents -> Seq(Agents)]
    BY <1>1, <1>3, Left, Elsewhere DEF IInv, ShapeInv, Holds, Working
  <2> QED BY <1>1, <1>3, <2>1, Finished
<1>4. CASE /\ Begins(c, "seating") /\ waiting' = waiting
           /\ Edit([state EXCEPT !.seated = @ \cup {agent[c]}])
  <2>1. [state EXCEPT !.seated = @ \cup {agent[c]}].stops = state.stops
    OBVIOUS
  <2> QED BY <1>1, <1>4, <2>1, Edited
<1> QED BY <1>2, <1>3, <1>4 DEF BeginSeat, EndSeat, Begins, Settles

\* forgetAgentSession, and the new session in its place.
LEMMA ForgetPreserves ==
  ASSUME IInv, NEW c \in Agents, BeginForget(c) \/ EndForget(c)
  PROVE  IInv'
<1> USE DEF Locking, Stages
<1>1. /\ Holds(c, "forgetting") /\ Head(waiting[agent[c]]) = c
      /\ UNCHANGED <<plan, remaining, turns, stopped, agent, handoff>>
    BY DEF BeginForget, EndForget, Begins, Settles, Holds, IInv, SessionInv
<1>2. CASE Renew(c) /\ ((~saving /\ Skip) \/ (saving /\ Saved))
  <2>1. PICK to \in {"interrupting", "running"} :
           Leaves(c, to) /\ IF to = "running" THEN waiting' = waiting ELSE Release(c)
    BY <1>2 DEF Renew, RunsIn, Leaves
  <2>2. SessionInv' /\ waiting' \in [Agents -> Seq(Agents)]
    BY <1>1, <2>1, Left, Released, Stays DEF IInv, ShapeInv, Holds, Working
  <2>3. stopped' = (stopped \/ "forgetting" = "stopping")
    BY <1>1 DEF IInv, ShapeInv
  <2> QED BY <1>1, <1>2, <2>1, <2>2, <2>3, Finished
<1>3. CASE saving /\ Fails /\ Release(c) /\ \E to \in {"interrupting", "failing"} : Leaves(c, to)
  <2>1. PICK to \in {"interrupting", "failing"} : Leaves(c, to)
    BY <1>3
  <2>2. SessionInv' /\ waiting' \in [Agents -> Seq(Agents)]
    BY <1>1, <1>3, <2>1, Left, Released DEF IInv, Holds, Working
  <2> QED BY <1>1, <1>3, <2>1, <2>2, Finished
<1>4. CASE /\ Begins(c, "forgetting") /\ waiting' = waiting
           /\ Edit([state EXCEPT !.mapped[agent[c]] = NoSession])
  <2>1. [state EXCEPT !.mapped[agent[c]] = NoSession].stops = state.stops
    OBVIOUS
  <2> QED BY <1>1, <1>4, <2>1, Edited
<1> QED BY <1>2, <1>3, <1>4 DEF BeginForget, EndForget, Begins, Settles

\* The outcome of a turn.
LEMMA RecordPreserves ==
  ASSUME IInv, NEW c \in Agents,
         BeginComplete(c) \/ BeginFailure(c) \/ AlreadyShown(c) \/ EndRecord(c)
  PROVE  IInv'
<1> USE DEF Locking, Stages
<1>1. UNCHANGED <<plan, remaining, turns, stopped, agent, handoff, waiting>>
    BY DEF BeginComplete, BeginFailure, AlreadyShown, EndRecord, Records
<1>2. ASSUME NEW at \in {"completing", "failing", "interrupting"}, NEW to \in Stages,
             Holds(c, at), Leaves(c, to), to \notin Working \cup {"none", "stopping"},
             \/ ~saving /\ Skip /\ to # "broken"
             \/ saving /\ Saved /\ to # "broken"
             \/ saving /\ Fails,
             to = "ended" => at # "completing" /\ (saving \/ state.failed # {})
      PROVE  IInv'
  <2>1. SessionInv' /\ waiting' \in [Agents -> Seq(Agents)]
    BY <1>1, <1>2, Left, Elsewhere DEF IInv, ShapeInv, Holds
  <2>2. at \in Locking /\ at # "stopping" /\ UNCHANGED stopped
    BY <1>1
  <2> QED BY <1>1, <1>2, <2>1, <2>2, Finished
<1>3. CASE BeginComplete(c)
  <2>1. CASE Skip /\ Leaves(c, "interrupting")
    BY <1>2, <1>3, <2>1 DEF BeginComplete, Begins, Working
  <2>2. CASE Edit([state EXCEPT !.mapped[agent[c]] = session[c]])
    <3>1. [state EXCEPT !.mapped[agent[c]] = session[c]].stops = state.stops
        OBVIOUS
    <3> QED BY <1>1, <1>3, <2>2, <3>1, Edited DEF BeginComplete
  <2> QED BY <1>3, <2>1, <2>2 DEF BeginComplete
<1>4. CASE BeginFailure(c)
  <2> DEFINE after == [state EXCEPT !.failed = @ \cup {agent[c]}]
  <2>1. after.stops = state.stops
    OBVIOUS
  <2>2. PICK at \in {"failing", "interrupting"} : Begins(c, at) /\ Edit(after)
    BY <1>4 DEF BeginFailure
  <2>3. after.failed # {}
    BY <1>4 DEF BeginFailure
  <2> QED BY <1>1, <2>1, <2>2, <2>3, Edited
<1>5. CASE AlreadyShown(c)
    BY <1>2, <1>5 DEF AlreadyShown, Begins, Working
<1>6. CASE EndRecord(c)
    BY <1>2, <1>6 DEF EndRecord, Settles, Working
<1> QED BY <1>3, <1>4, <1>5, <1>6

\* The one stop.
LEMMA StopPreserves ==
  ASSUME IInv, NEW c \in Agents, BeginStop(c) \/ EndStop(c)
  PROVE  IInv'
<1> USE DEF Locking, Stages
<1>1. /\ Holds(c, "stopping")
      /\ UNCHANGED <<plan, remaining, turns, agent, handoff, waiting>>
    BY DEF BeginStop, EndStop, Begins, Settles, Records
<1>2. ASSUME NEW to \in {"ended", "broken"}, Leaves(c, to),
             \/ ~saving /\ Skip /\ stopped /\ UNCHANGED stopped /\ to # "broken"
             \/ saving /\ Saved /\ stopped' = TRUE /\ to # "broken"
             \/ saving /\ Fails /\ UNCHANGED stopped
      PROVE  IInv'
  <2>1. SessionInv' /\ waiting' \in [Agents -> Seq(Agents)]
    BY <1>1, <1>2, Left, Elsewhere DEF IInv, ShapeInv, Holds, Working
  <2> QED BY <1>1, <1>2, <2>1, Finished
<1>3. CASE BeginStop(c)
  <2>1. CASE stopped /\ Skip /\ Leaves(c, "ended")
    BY <1>2, <1>3, <2>1 DEF BeginStop, Begins, Records
  <2>2. CASE ~stopped /\ Edit([state EXCEPT !.stops = @ + 1])
    <3>1. [state EXCEPT !.stops = @ + 1].stops = state.stops + 1
        OBVIOUS
    <3> QED BY <1>1, <1>3, <2>2, <3>1, Edited DEF BeginStop, Records
  <2> QED BY <1>3, <2>1, <2>2 DEF BeginStop
<1>4. CASE EndStop(c)
    BY <1>2, <1>4 DEF EndStop, Settles
<1> QED BY <1>3, <1>4

-----------------------------------------------------------------------------
(* What comes after a reply.                                               *)

\* The plan loses no Agent but the one that is called.
Planning(to) ==
    /\ remaining' \in Seq(Known) /\ IsInjective(remaining')
    /\ In(remaining') = In(remaining) \ {to}

\* continueReplyDelivery: the chain ends, is stopped, or takes another turn.
LEMMA Continuations ==
  ASSUME IInv, NEW c \in Agents, Continue(c)
  PROVE  \/ /\ Goes(c, "ended") /\ UNCHANGED <<turns, agent, handoff>>
            /\ remaining' \in Seq(Known) /\ IsInjective(remaining')
            /\ relay => remaining' = remaining /\ (remaining = <<>> \/ handoff[c] # Nobody)
         \/ /\ Goes(c, "stopping") /\ UNCHANGED <<turns, agent, handoff>>
            /\ \E to \in Known : Planning(to)
         \/ \E to \in Known :
              Planning(to) /\ Take(c, To(agent[c]), to) /\ ~LimitReached /\ ~EdgeRan(agent[c], to)
<1>1. remaining \in Seq(Known) /\ IsInjective(remaining)
    BY DEF IInv, ShapeInv
<1>2. ASSUME NEW to \in Known, NEW repeat \in BOOLEAN, Reserve(c, to, repeat), Planning(to),
             ~(relay /\ ~repeat /\ to \in Delivered)
      PROVE  \/ Goes(c, "ended") /\ UNCHANGED <<turns, agent, handoff>> /\ ~relay
             \/ Goes(c, "stopping") /\ UNCHANGED <<turns, agent, handoff>>
             \/ Take(c, To(agent[c]), to) /\ ~LimitReached /\ ~EdgeRan(agent[c], to)
    BY <1>2 DEF Reserve, End
<1>3. ASSUME NEW to, remaining' = PlanWithout(to)
      PROVE  Planning(to)
    BY <1>3, Unplanned DEF IInv, Planning
<1>4. CASE Requested(c)
  <2> DEFINE to == handoff[c].agent
  <2>1. to \in Agents
    BY <1>4 DEF Requested, IInv, ShapeInv, To
  <2>2. CASE to \in Late
    BY <1>1, <1>4, <2>2 DEF Requested, End
  <2>3. CASE to \notin Late
    BY <1>2, <1>3, <1>4, <2>1, <2>3 DEF Requested, Planning, Known
  <2> QED BY <2>2, <2>3
<1>5. CASE Mentioned(c)
  <2>1. PICK to \in Known : Reserve(c, to, TRUE) /\ remaining' = PlanWithout(to)
    BY <1>5 DEF Mentioned
  <2> QED BY <1>2, <1>3, <2>1 DEF Planning
<1>6. CASE Planned(c)
  <2> DEFINE to == Head(remaining)
  <2>1. /\ to \in Known /\ to \in In(remaining) /\ Planning(to)
    BY <1>1, <1>6, Pop DEF Planned, Planning
  <2>2. ~(relay /\ to \in Delivered)
    BY <2>1 DEF IInv, RelayInv
  <2> QED BY <1>2, <1>6, <2>1, <2>2 DEF Planned, Planning
<1>7. CASE Exhausted(c)
    BY <1>1, <1>7 DEF Exhausted, End
<1> QED BY <1>4, <1>5, <1>6, <1>7 DEF Continue

\* A turn more, and whom it reaches.
LEMMA OneMore ==
  ASSUME ShapeInv, TurnsInv, NEW a \in Agents, NEW to \in Known, ~LimitReached, ~EdgeRan(a, to),
         turns' = Append(turns, Turn(To(a), to)), limit' = limit
  PROVE  /\ TurnsInv' /\ Delivered' = Delivered \cup {to}
         /\ turns' \in Seq([from : {Nobody} \cup {To(b) : b \in Agents}, to : Known])
<1> DEFINE E == [from : {Nobody} \cup {To(b) : b \in Agents}, to : Known]
           e == Turn(To(a), to)
<1>1. e \in E /\ e.to = to
    BY DEF Turn
<1>2. turns \in Seq(E)
    BY DEF ShapeInv
<1> HIDE DEF E
<1>3. \A i \in 1..Len(turns) : turns[i] # e
    BY DEF EdgeRan, Contains
<1> HIDE DEF e
<1>4. /\ turns' \in Seq(E) /\ Len(turns') = Len(turns) + 1 /\ turns'[Len(turns) + 1] = e
      /\ \A i \in 1..Len(turns) : turns'[i] = turns[i]
      /\ DOMAIN turns = 1..Len(turns) /\ DOMAIN turns' = 1..(Len(turns) + 1)
      /\ Len(turns) \in Nat
    BY <1>1, <1>2 DEF e
<1>5. Len(turns') <= limit'
    BY <1>4 DEF LimitReached, ShapeInv
<1>6. IsInjective(turns')
  <2> SUFFICES ASSUME NEW i \in 1..(Len(turns) + 1), NEW j \in 1..(Len(turns) + 1),
                      turns'[i] = turns'[j]
               PROVE  i = j
    BY <1>4 DEF IsInjective
  <2>1. CASE i \in 1..Len(turns) /\ j \in 1..Len(turns)
    BY <1>4, <2>1 DEF TurnsInv, RelayIsBounded, IsInjective
  <2>2. CASE i = Len(turns) + 1 \/ j = Len(turns) + 1
    BY <1>3, <1>4, <2>2
  <2> QED BY <1>4, <2>1, <2>2
<1>7. Delivered' = Delivered \cup {to}
    BY <1>1, <1>4 DEF Delivered
<1> QED BY <1>4, <1>5, <1>6, <1>7 DEF TurnsInv, RelayIsBounded, E

LEMMA ContinuePreserves ==
  ASSUME IInv, NEW c \in Agents, Continue(c)
  PROVE  IInv'
<1>1. /\ stage[c] = "continuing"
      /\ UNCHANGED <<plan, stopped, waiting, document, bounds>>
    BY DEF Continue
<1>2. ASSUME NEW to \in {"ended", "stopping", "seating"}, Goes(c, to),
             remaining' \in Seq(Known), IsInjective(remaining'),
             turns' \in Seq([from : {Nobody} \cup {To(a) : a \in Agents}, to : Known]), TurnsInv',
             agent' \in [Agents -> Agents], \A d \in Agents \ {c} : agent'[d] = agent[d],
             handoff' \in [Agents -> {Nobody} \cup {To(a) : a \in Agents}],
             relay =>
               /\ In(remaining') \cap Delivered' = {}
               /\ In(assigned) \subseteq Delivered \cup In(remaining)
                    => In(assigned) \subseteq Delivered' \cup In(remaining') \/ to = "stopping"
               /\ to = "ended" => remaining' = <<>> \/ handoff'[c] # Nobody
      PROVE  IInv'
  <2>1. /\ stage' \in [Agents -> Stages] /\ lock' \in Seq(Agents) /\ stage'[c] = to
        /\ \A d \in Agents \ {c} : stage'[d] = stage[d]
    BY <1>2, StageNames, Moved DEF IInv, ShapeInv, Goes
  <2>2. ShapeInv'
    BY <1>1, <1>2, <2>1 DEF IInv, ShapeInv, plan, document, bounds
  <2>3. /\ LockInv' /\ StopInv'
        /\ saving => Head(lock') = Head(lock) /\ stage'[Head(lock)] = stage[Head(lock)]
    BY <1>1, <1>2, StageNames, OffLock DEF IInv
  <2>4. SessionInv'
    BY <1>1, <1>2, <2>1, Elsewhere DEF IInv, Working
  <2>5. RelayInv'
    <3> SUFFICES ASSUME relay PROVE RelayInv'
        BY <1>1 DEF RelayInv, plan
    <3>1. c = Root
        BY <1>1, OneChain
    <3> QED BY <1>1, <1>2, <2>1, <2>3, <3>1 DEF IInv, RelayInv, Root, plan, document, bounds
  <2> QED BY <1>2, <2>2, <2>3, <2>4, <2>5 DEF IInv
<1>3. turns' = turns => Delivered' = Delivered /\ TurnsInv'
    BY <1>1 DEF Delivered, TurnsInv, RelayIsBounded, IInv, plan
<1>4. CASE /\ Goes(c, "ended") /\ UNCHANGED <<turns, agent, handoff>>
           /\ remaining' \in Seq(Known) /\ IsInjective(remaining')
           /\ relay => remaining' = remaining /\ (remaining = <<>> \/ handoff[c] # Nobody)
  <2>1. relay => In(remaining) \cap Delivered = {}
    BY DEF IInv, RelayInv
  <2> QED BY <1>2, <1>3, <1>4, <2>1 DEF IInv, ShapeInv
<1>5. CASE /\ Goes(c, "stopping") /\ UNCHANGED <<turns, agent, handoff>>
           /\ \E to \in Known : Planning(to)
  <2>1. relay => In(remaining) \cap Delivered = {}
    BY DEF IInv, RelayInv
  <2>2. In(remaining') \subseteq In(remaining)
    BY <1>5 DEF Planning
  <2> QED BY <1>2, <1>3, <1>5, <2>1, <2>2 DEF IInv, ShapeInv, Planning
<1>6. ASSUME NEW to \in Known,
             Planning(to), Take(c, To(agent[c]), to), ~LimitReached, ~EdgeRan(agent[c], to)
      PROVE  IInv'
  <2>1. /\ TurnsInv' /\ Delivered' = Delivered \cup {to}
        /\ turns' \in Seq([from : {Nobody} \cup {To(b) : b \in Agents}, to : Known])
    BY <1>1, <1>6, OneMore DEF IInv, ShapeInv, Take, plan
  <2>2. relay => In(remaining) \cap Delivered = {}
    BY DEF IInv, RelayInv
  <2>3. /\ agent' \in [Agents -> Agents] /\ \A d \in Agents \ {c} : agent'[d] = agent[d]
        /\ handoff' \in [Agents -> {Nobody} \cup {To(a) : a \in Agents}]
    BY <1>6 DEF IInv, ShapeInv, Take, Known
  <2> QED BY <1>2, <1>6, <2>1, <2>2, <2>3 DEF Planning, Take
<1> QED BY <1>4, <1>5, <1>6, Continuations

-----------------------------------------------------------------------------
(* The theorems.                                                           *)

LEMMA InitInv == Init => IInv
<1> SUFFICES ASSUME Init PROVE IInv
    OBVIOUS
<1>1. PICK p \in Plans : relay = p.relay /\ assigned = p.assigned /\ limit = p.limit
    BY DEF Init
<1>2. /\ relay \in BOOLEAN /\ limit \in Nat /\ Len(assigned) <= limit /\ 1 <= limit
      /\ assigned \in Seq(Known) /\ assigned # <<>> /\ IsInjective(assigned)
    BY <1>1, PlanAssumption, BoundAssumption DEF Known
<1>3. /\ Root \in Known /\ Root \in In(assigned) /\ Head(assigned) = Root
      /\ Tail(assigned) \in Seq(Known) /\ IsInjective(Tail(assigned))
      /\ In(assigned) = In(Tail(assigned)) \cup {Root} /\ Root \notin In(Tail(assigned))
  <2>1. Head(assigned) = Root
    BY <1>2 DEF Root
  <2> QED BY <1>2, <2>1, Pop
<1>4. /\ DOMAIN assigned = 1..Len(assigned) /\ Len(assigned) \in Nat
      /\ \A i \in 1..Len(assigned) : assigned[i] \in Known
    BY <1>2
<1> DEFINE n == IF relay THEN 1 ELSE Len(assigned)
           E == [from : {Nobody} \cup {To(a) : a \in Agents}, to : Known]
<1>5. /\ n \in Nat /\ 1 <= n /\ n <= limit /\ n <= Len(assigned)
      /\ turns = [i \in 1..n |-> Turn(Nobody, assigned[i])]
    BY <1>2, <1>4 DEF Init
<1>6. turns \in Seq(E) /\ Len(turns) = n /\ DOMAIN turns = 1..n
  <2>1. \A i \in 1..n : Turn(Nobody, assigned[i]) \in E
    BY <1>4, <1>5 DEF Turn
  <2> QED BY <1>5, <2>1
<1>7. IsInjective(turns)
  <2>1. ASSUME NEW i \in 1..n, NEW j \in 1..n, turns[i] = turns[j]
        PROVE  i = j
    <3>1. assigned[i] = assigned[j]
        BY <1>5, <2>1 DEF Turn
    <3>2. i \in DOMAIN assigned /\ j \in DOMAIN assigned
        BY <1>4, <1>5
    <3> QED BY <1>2, <3>1, <3>2 DEF IsInjective
  <2> QED BY <1>6, <2>1 DEF IsInjective
<1>8. relay => Delivered = {Root}
    BY <1>5, <1>6 DEF Delivered, Turn, Root
<1>9. Known \subseteq Agents
    BY DEF Known
<1>10. /\ stage = [c \in Agents |-> IF c \in Roots THEN "seating" ELSE "none"]
       /\ agent = [c \in Agents |-> c] /\ handoff = [c \in Agents |-> Nobody]
       /\ waiting = [a \in Agents |-> <<>>]
       /\ stopped = FALSE /\ saving = FALSE /\ failures = 0
       /\ remaining = IF relay THEN Tail(assigned) ELSE <<>>
       /\ lock = IF relay THEN <<assigned[1]>> ELSE assigned
       /\ state.stops = 0 /\ previous = state
    BY DEF Init
<1>11. remaining \in Seq(Known) /\ IsInjective(remaining)
    BY <1>3, <1>10 DEF IsInjective
<1>12. lock \in Seq(Agents)
    BY <1>2, <1>3, <1>9, <1>10 DEF Root
<1>13. ShapeInv
  <2>1. stage \in [Agents -> Stages]
    BY <1>10, StageNames
  <2>2. /\ agent \in [Agents -> Agents] /\ waiting \in [Agents -> Seq(Agents)]
        /\ handoff \in [Agents -> {Nobody} \cup {To(a) : a \in Agents}]
    BY <1>10
  <2>3. stopped \in BOOLEAN /\ saving \in BOOLEAN
    BY Zenon DEF Init
  <2>4. failures \in Nat /\ state.stops \in Nat /\ previous.stops \in Nat
    <3>1. failures = 0 /\ state.stops = 0 /\ previous = state
        BY <1>10
    <3> QED BY <3>1
  <2> QED BY <1>2, <1>6, <1>11, <1>12, <2>1, <2>2, <2>3, <2>4 DEF ShapeInv
<1>14. LockInv /\ SessionInv /\ StopInv
    BY <1>10 DEF LockInv, SessionInv, StopInv, Stopping
<1>15. TurnsInv
    BY <1>5, <1>6, <1>7 DEF TurnsInv, RelayIsBounded
<1>16. RelayInv
  <2> SUFFICES ASSUME relay PROVE RelayInv
    BY DEF RelayInv
  <2>1. Roots = {Root} /\ remaining = Tail(assigned) /\ Delivered = {Root}
    BY <1>8, <1>10 DEF Roots, Root
  <2> QED BY <1>3, <1>9, <1>10, <2>1 DEF RelayInv
<1> QED BY <1>13, <1>14, <1>15, <1>16 DEF IInv

LEMMA NextPreserves ==
  ASSUME IInv, [Next]_vars
  PROVE  IInv'
<1>1. CASE UNCHANGED vars
    BY <1>1 DEF vars, plan, turn, document, bounds, IInv, ShapeInv, LockInv, TurnsInv,
       RelayIsBounded, SessionInv, StopInv, Stopping, RelayInv, Root, Delivered
<1>2. ASSUME NEW c \in Agents, Locked(c)
      PROVE  IInv'
    BY <1>2, SeatPreserves, ForgetPreserves, RecordPreserves, StopPreserves DEF Locked
<1>3. ASSUME NEW c \in Agents, Turns(c)
      PROVE  IInv'
    BY <1>3, StartTurnPreserves, FinishTurnPreserves, ContinuePreserves DEF Turns
<1>4. ASSUME NEW c \in Agents, Missing(c) \/ Abort(c) \/ \E to \in Agents : Handoff(c, to)
      PROVE  IInv'
    BY <1>4, MissingPreserves, HandoffPreserves
<1> QED BY <1>1, <1>2, <1>3, <1>4 DEF Next

THEOREM Invariance == Spec => []IInv
BY InitInv, NextPreserves, PTL DEF Spec

\* However many chains continue at the same time, the turns of a delivery stay within its
\* limit, on edges it has not used, one at a time in a session, and one stop is shown.
THEOREM BoundedTheorem == Spec => [](RelayIsBounded /\ OneTurnPerSession /\ StopShownOnce)
<1>1. IInv => RelayIsBounded
    BY DEF IInv, TurnsInv
<1>2. IInv => OneTurnPerSession
    BY DEF IInv, SessionInv, OneTurnPerSession
<1>3. IInv => StopShownOnce
    BY DEF IInv, StopInv, StopShownOnce
<1> QED BY <1>1, <1>2, <1>3, Invariance, PTL

\* A relay that is over has reached every Agent of its plan, or the thread shows why not,
\* whatever handoffs and mentions took out of the plan and in which order.
THEOREM RelayTheorem == Spec => []RelayEndsVisibly
<1>1. ASSUME IInv, relay, Over, failures = 0, \A c \in Agents : handoff[c] = Nobody
      PROVE  Range(assigned) \subseteq Delivered \/ state.stops > 0 \/ state.failed # {}
  <2>1. Range(assigned) = In(assigned)
    BY <1>1 DEF IInv, ShapeInv, Range, In
  <2>2. Root \in Agents /\ stage[Root] \in {"none", "ended"}
    BY <1>1 DEF IInv, RelayInv, Over
  <2> QED BY <1>1, <2>1, <2>2 DEF IInv, RelayInv, In
<1> QED BY <1>1, Invariance, PTL DEF RelayEndsVisibly

-----------------------------------------------------------------------------
(* What the type invariant and the kept sessions rest on.                  *)

\* Who waits for the lock is at a stage that needs it, once.
QueuedInv == IsInjective(lock) /\ \A c \in In(lock) : stage[c] \in Locking

\* Who waits for a session, or has it, is a chain whose turn is that Agent's, once.
WaitInv ==
    \A a \in Agents :
        /\ IsInjective(waiting[a])
        /\ \A c \in In(waiting[a]) : stage[c] \in Working /\ agent[c] = a

\* The chains are the assigned Agents, and their turns are of prepared ones.
ChainInv ==
    \A c \in Agents : stage[c] # "none" => c \in In(assigned) /\ agent[c] \in Known

\* The sessions of an Agent are numbered without a gap; what is remembered or resumed is
\* one of them.
Number(a) == Cardinality(used[a])
NumberInv ==
    /\ \A a \in Agents :
         /\ Number(a) \in Nat /\ used[a] = 1..Number(a)
         /\ \A d \in {state, previous} : d.mapped[a] \in 0..Number(a)
    /\ \A c \in Agents :
         /\ stage[c] \in Working => resumes[c] \in 0..Number(agent[c])
         /\ stage[c] \in {"running", "forgetting", "completing"} => session[c] \in 1..Number(agent[c])

\* Every session but the first of an Agent is one a turn or a lost session accounts for.
Owing == {c \in Agents : stage[c] \in {"seating", "queued", "forgetting"}}
CountInv ==
    /\ IsFiniteSet(Owing)
    /\ \A a \in Agents : Number(a) + Cardinality(Owing) <= 1 + Len(turns) + missing

\* In a relay an Agent without a remembered session has had none, until its turn started.
Fresher == {"seating", "queued", "continuing"}
KeepInv ==
    relay =>
        /\ \A a \in Agents : Number(a) <= 1 + missing
        /\ stage[Root] \in Fresher \cup {"running", "forgetting", "completing"} =>
             \A a \in Agents :
                 state.mapped[a] = NoSession =>
                     Number(a) = 0 \/ (a = agent[Root] /\ stage[Root] \notin Fresher)
        /\ stage[Root] = "queued" => resumes[Root] = state.mapped[agent[Root]]
        /\ stage[Root] = "forgetting" => Number(agent[Root]) <= missing
        /\ saving /\ stage[Root] = "completing" => state.mapped[agent[Root]] # NoSession

\* The rest of the type invariant.
Rest ==
    /\ limit \in 1..MaxTurns
    /\ turns \in Seq([from : {Nobody} \cup {To(a) : a \in Known}, to : Known])
    /\ resumes \in [Agents -> Sessions] /\ session \in [Agents -> Sessions]
    /\ aborted \subseteq Agents
    /\ {state, previous} \subseteq Documents
    /\ missing \in 0..MaxMissing /\ failures \in 0..MaxFailures
    /\ used \in [Agents -> SUBSET Nat]

DeliveryInv == QueuedInv /\ WaitInv /\ ChainInv /\ NumberInv /\ CountInv /\ KeepInv /\ Rest

-----------------------------------------------------------------------------
(* Who waits for the lock, and for a session.                              *)

\* A sequence without repetition takes one element more that it does not have.
LEMMA PushNew ==
  ASSUME NEW S, NEW q \in Seq(S), IsInjective(q), NEW x \in S, x \notin In(q)
  PROVE  IsInjective(Append(q, x))
<1> DEFINE r == Append(q, x)
<1>1. /\ DOMAIN q = 1..Len(q) /\ DOMAIN r = 1..(Len(q) + 1) /\ r[Len(q) + 1] = x
      /\ \A i \in 1..Len(q) : r[i] = q[i]
      /\ Len(q) \in Nat
    OBVIOUS
<1> HIDE DEF r
<1>2. \A i \in 1..Len(q) : r[i] # x
    BY <1>1 DEF In
<1>3. ASSUME NEW i \in 1..(Len(q) + 1), NEW j \in 1..(Len(q) + 1), r[i] = r[j]
      PROVE  i = j
  <2>1. CASE i \in 1..Len(q) /\ j \in 1..Len(q)
    BY <1>1, <1>3, <2>1 DEF IsInjective
  <2>2. CASE i = Len(q) + 1 \/ j = Len(q) + 1
    BY <1>1, <1>2, <1>3, <2>2
  <2> QED BY <1>1, <2>1, <2>2
<1>4. IsInjective(r)
    BY <1>1, <1>3 DEF IsInjective
<1> QED BY <1>4 DEF r

\* A step of a chain.
Moving(c) == Locked(c) \/ Turns(c) \/ Missing(c) \/ Abort(c) \/ \E to \in Agents : Handoff(c, to)

\* A chain asks for the lock, or goes on without it, or leaves it.
LockStep(c) ==
    \/ UNCHANGED <<stage, lock>>
    \/ stage[c] \notin Locking /\ \E to \in Stages : Goes(c, to)
    \/ lock # <<>> /\ Head(lock) = c /\ \E to \in Stages : Leaves(c, to)

\* Which of the three every step is.
LEMMA LockSteps ==
  ASSUME NEW c \in Agents, Moving(c)
  PROVE  LockStep(c)
<1>0. /\ {"queued", "running", "continuing", "ended", "broken", "seating", "forgetting",
          "completing", "failing", "interrupting", "stopping"} \subseteq Stages
      /\ {"queued", "running", "continuing"} \cap Locking = {}
  BY StageNames
<1>1. CASE BeginSeat(c) \/ EndSeat(c)
  BY <1>0, <1>1 DEF BeginSeat, EndSeat, Join, Begins, Settles, Holds, Edit, LockStep
<1>2. CASE BeginForget(c) \/ EndForget(c)
  BY <1>0, <1>2
     DEF BeginForget, EndForget, Renew, RunsIn, Leaves, Begins, Settles, Holds, Edit,
         LockStep
<1>3. CASE BeginComplete(c) \/ BeginFailure(c) \/ AlreadyShown(c)
  BY <1>0, <1>3 DEF BeginComplete, BeginFailure, AlreadyShown, Begins, Holds, Edit, LockStep
<1>4. CASE EndRecord(c)
  BY <1>0, <1>4 DEF EndRecord, Settles, Holds, LockStep
<1>5. CASE BeginStop(c) \/ EndStop(c)
  BY <1>0, <1>5 DEF BeginStop, EndStop, Begins, Settles, Holds, Edit, LockStep
<1>6. CASE StartTurn(c)
  BY <1>0, <1>6 DEF StartTurn, RunsIn, Goes, LockStep
<1>7. CASE FinishTurn(c)
  BY <1>0, <1>7 DEF FinishTurn, LockStep
<1>8. CASE Continue(c)
  BY <1>0, <1>8
     DEF Continue, Requested, Mentioned, Planned, Exhausted, Reserve, Take, End, LockStep
<1>9. CASE Missing(c)
  BY <1>0, <1>9 DEF Missing, LockStep
<1>10. CASE Abort(c) \/ \E to \in Agents : Handoff(c, to)
  BY <1>10 DEF Abort, Handoff, LockStep
<1> QED BY <1>1, <1>2, <1>3, <1>4, <1>5, <1>6, <1>7, <1>8, <1>9, <1>10
           DEF Moving, Locked, Turns

\* Every step of a chain keeps the queue for the lock in order.
LEMMA QueuedStep ==
  ASSUME ShapeInv, QueuedInv, NEW c \in Agents, LockStep(c)
  PROVE  QueuedInv' /\ \A d \in Agents \ {c} : stage'[d] = stage[d]
<1>1. CASE UNCHANGED <<stage, lock>>
  BY <1>1 DEF QueuedInv
<1>2. ASSUME NEW rest \in Seq(Agents), NEW to \in Stages, Moves(c, to, rest),
             IsInjective(rest), c \notin In(rest), \A d \in In(rest) : stage[d] \in Locking
      PROVE  QueuedInv' /\ \A d \in Agents \ {c} : stage'[d] = stage[d]
  <2>1. stage'[c] = to /\ \A d \in Agents \ {c} : stage'[d] = stage[d]
    BY <1>2, Moved
  <2>2. \A d \in In(rest) : d \in Agents \ {c}
    BY <1>2 DEF In
  <2>3. CASE to \notin Locking
    BY <1>2, <2>1, <2>2, <2>3 DEF Moves, QueuedInv
  <2>4. CASE to \in Locking
    <3>1. lock' = Append(rest, c) /\ In(lock') = In(rest) \cup {c} /\ IsInjective(lock')
      BY <1>2, <2>4, Push, PushNew DEF Moves
    <3> QED BY <1>2, <2>1, <2>2, <2>4, <3>1 DEF QueuedInv
  <2> QED BY <2>1, <2>3, <2>4
<1>3. lock \in Seq(Agents)
  BY DEF ShapeInv
<1>4. CASE stage[c] \notin Locking /\ \E to \in Stages : Goes(c, to)
  BY <1>2, <1>3, <1>4 DEF Goes, QueuedInv
<1>5. CASE lock # <<>> /\ Head(lock) = c /\ \E to \in Stages : Leaves(c, to)
  <2>1. /\ Tail(lock) \in Seq(Agents) /\ IsInjective(Tail(lock)) /\ c \notin In(Tail(lock))
        /\ In(Tail(lock)) \subseteq In(lock)
    BY <1>3, <1>5, Pop DEF QueuedInv
  <2> QED BY <1>2, <1>5, <2>1 DEF Leaves, QueuedInv
<1> QED BY <1>1, <1>4, <1>5 DEF LockStep

\* A chain goes on with its session, comes to wait for one, or hands its own on.
WaitStep(c) ==
    /\ \A d \in Agents \ {c} : stage'[d] = stage[d] /\ agent'[d] = agent[d]
    /\ \/ /\ waiting' = waiting
          /\ stage[c] \in Working => stage'[c] \in Working /\ agent'[c] = agent[c]
       \/ /\ stage[c] \notin Working /\ stage'[c] = "queued" /\ agent' = agent
          /\ waiting' = [waiting EXCEPT ![agent[c]] = Append(@, c)]
       \/ /\ stage[c] \in Working /\ Head(waiting[agent[c]]) = c
          /\ stage'[c] \notin Working /\ agent' = agent /\ Release(c)

\* Which of these every step is.
LEMMA WaitSteps ==
  ASSUME IInv, NEW c \in Agents, Moving(c)
  PROVE  WaitStep(c)
<1>0. /\ \A d \in Agents \ {c} : stage'[d] = stage[d]
      /\ stage \in [Agents -> Stages] /\ agent \in [Agents -> Agents] /\ lock \in Seq(Agents)
      /\ \A to \in Stages, rest \in Seq(Agents) : Moves(c, to, rest) => stage'[c] = to
      /\ lock # <<>> => Tail(lock) \in Seq(Agents)
      /\ stage[c] \in {"running", "forgetting"} => Head(waiting[agent[c]]) = c
      /\ {"queued", "running", "continuing", "ended", "broken", "seating", "forgetting",
          "completing", "failing", "interrupting", "stopping"} \subseteq Stages
  <2>1. LockStep(c)
    BY LockSteps
  <2>2. lock # <<>> => Tail(lock) \in Seq(Agents)
    BY Pop DEF IInv, ShapeInv
  <2>3. \A d \in Agents \ {c} : stage'[d] = stage[d]
    BY <2>1 DEF LockStep, Goes, Leaves, Moves, IInv, ShapeInv
  <2>4. \A to \in Stages, rest \in Seq(Agents) : Moves(c, to, rest) => stage'[c] = to
    BY DEF Moves, IInv, ShapeInv
  <2> QED BY <2>2, <2>3, <2>4, StageNames DEF IInv, ShapeInv, SessionInv
<1>1. CASE BeginSeat(c) \/ EndSeat(c)
  BY <1>0, <1>1
     DEF BeginSeat, EndSeat, Join, Begins, Settles, Holds, Edit, Leaves, WaitStep, Working
<1>2. CASE BeginForget(c) \/ EndForget(c)
  BY <1>0, <1>2
     DEF BeginForget, EndForget, Renew, RunsIn, Leaves, Begins, Settles, Holds, Edit,
     WaitStep, Working
<1>3. CASE BeginComplete(c) \/ BeginFailure(c) \/ AlreadyShown(c)
  BY <1>0, <1>3
     DEF BeginComplete, BeginFailure, AlreadyShown, Begins, Holds, Edit, Leaves, Records,
     WaitStep, Working
<1>4. CASE EndRecord(c)
  BY <1>0, <1>4 DEF EndRecord, Settles, Holds, Leaves, Records, WaitStep, Working
<1>5. CASE BeginStop(c) \/ EndStop(c)
  BY <1>0, <1>5
     DEF BeginStop, EndStop, Begins, Settles, Holds, Edit, Leaves, Records, WaitStep,
         Working
<1>6. CASE StartTurn(c)
  BY <1>0, <1>6 DEF StartTurn, RunsIn, Goes, WaitStep, Working
<1>7. CASE FinishTurn(c)
  BY <1>0, <1>7 DEF FinishTurn, Goes, WaitStep, Working
<1>8. CASE Continue(c)
  BY <1>0, <1>8
     DEF Continue, Requested, Mentioned, Planned, Exhausted, Reserve, Take, End, Goes,
     WaitStep, Working
<1>9. CASE Missing(c)
  BY <1>0, <1>9 DEF Missing, Goes, WaitStep, Working
<1>10. CASE Abort(c) \/ \E to \in Agents : Handoff(c, to)
  BY <1>10 DEF Abort, Handoff, WaitStep, Working
<1> QED BY <1>1, <1>2, <1>3, <1>4, <1>5, <1>6, <1>7, <1>8, <1>9, <1>10
           DEF Moving, Locked, Turns

\* Every step of a chain keeps who waits for a session in order.
LEMMA WaitsStep ==
  ASSUME ShapeInv, WaitInv, NEW c \in Agents, WaitStep(c)
  PROVE  WaitInv'
<1> DEFINE a == agent[c]
<1>1. a \in Agents /\ waiting[a] \in Seq(Agents) /\ waiting \in [Agents -> Seq(Agents)]
  BY DEF ShapeInv
<1>2. \A b \in Agents : \A d \in In(waiting[b]) : d \in Agents
  BY DEF ShapeInv, In
<1>3. CASE waiting' = waiting /\ (stage[c] \in Working => stage'[c] \in Working /\ agent'[c] = agent[c])
  BY <1>2, <1>3 DEF WaitInv, WaitStep
<1>4. CASE /\ stage[c] \notin Working /\ stage'[c] = "queued" /\ agent' = agent
           /\ waiting' = [waiting EXCEPT ![agent[c]] = Append(@, c)]
  <2>1. \A b \in Agents : c \notin In(waiting[b])
    BY <1>4 DEF WaitInv
  <2>2. waiting'[a] = Append(waiting[a], c) /\ \A b \in Agents \ {a} : waiting'[b] = waiting[b]
    BY <1>1, <1>4
  <2>3. IsInjective(waiting'[a]) /\ In(waiting'[a]) = In(waiting[a]) \cup {c}
    BY <1>1, <2>1, <2>2, Push, PushNew DEF WaitInv
  <2>4. ASSUME NEW b \in Agents
        PROVE  /\ IsInjective(waiting'[b])
               /\ \A d \in In(waiting'[b]) : stage'[d] \in Working /\ agent'[d] = b
    BY <1>2, <1>4, <2>1, <2>2, <2>3 DEF WaitInv, WaitStep, Working
  <2> QED BY <2>4 DEF WaitInv
<1>5. CASE /\ stage[c] \in Working /\ Head(waiting[agent[c]]) = c
           /\ stage'[c] \notin Working /\ agent' = agent /\ Release(c) /\ waiting[a] # <<>>
  <2>1. waiting'[a] = Tail(waiting[a]) /\ \A b \in Agents \ {a} : waiting'[b] = waiting[b]
    BY <1>1, <1>5 DEF Release
  <2>2. /\ IsInjective(waiting'[a]) /\ c \notin In(waiting'[a])
        /\ In(waiting'[a]) \subseteq In(waiting[a])
    BY <1>1, <1>5, <2>1, Pop DEF WaitInv
  <2>3. ASSUME NEW b \in Agents
        PROVE  /\ IsInjective(waiting'[b])
               /\ \A d \in In(waiting'[b]) : stage'[d] \in Working /\ agent'[d] = b
    BY <1>2, <1>5, <2>1, <2>2 DEF WaitInv, WaitStep
  <2> QED BY <2>3 DEF WaitInv
<1>6. CASE waiting[a] = <<>> /\ agent' = agent /\ stage'[c] \notin Working /\ Release(c)
  <2>1. waiting' = waiting
    BY <1>1, <1>6 DEF Release
  <2> QED BY <1>6, <2>1, <1>2, <1>3 DEF WaitInv, WaitStep, In
<1> QED BY <1>3, <1>4, <1>5, <1>6 DEF WaitStep

-----------------------------------------------------------------------------
(* The documents and the native sessions.                                  *)

\* The stages of a turn that has a session.
InSession == {"running", "forgetting", "completing"}

\* What a step does to the documents: nothing, an edit of the holder's, or back.
DocumentStep(c) ==
    \/ UNCHANGED <<state, previous>>
    \/ UNCHANGED previous /\ state' = previous
    \/ /\ previous' = state /\ state' \in Documents
       /\ \/ state'.mapped = state.mapped
          \/ state'.mapped = [state.mapped EXCEPT ![agent[c]] = NoSession]
          \/ /\ stage[c] = "completing"
             /\ state'.mapped = [state.mapped EXCEPT ![agent[c]] = session[c]]

\* Which of these every step is.
LEMMA DocumentSteps ==
  ASSUME ShapeInv, Rest, NEW c \in Agents, Moving(c)
  PROVE  DocumentStep(c)
<1>1. /\ state \in Documents /\ agent[c] \in Agents /\ session[c] \in Sessions /\ NoSession \in Sessions
      /\ [state EXCEPT !.seated = @ \cup {agent[c]}] \in Documents
      /\ [state EXCEPT !.failed = @ \cup {agent[c]}] \in Documents
      /\ [state EXCEPT !.stops = @ + 1] \in Documents
      /\ [state EXCEPT !.seated = @ \cup {agent[c]}].mapped = state.mapped
      /\ [state EXCEPT !.failed = @ \cup {agent[c]}].mapped = state.mapped
      /\ [state EXCEPT !.stops = @ + 1].mapped = state.mapped
      /\ \A n \in Sessions : /\ [state EXCEPT !.mapped[agent[c]] = n] \in Documents
                             /\ [state EXCEPT !.mapped[agent[c]] = n].mapped
                                  = [state.mapped EXCEPT ![agent[c]] = n]
  <2>1. state \in Documents /\ agent[c] \in Agents /\ session[c] \in Sessions /\ NoSession \in Sessions
    BY BoundAssumption DEF ShapeInv, Rest, Sessions, NoSession
  <2>2. /\ [state EXCEPT !.seated = @ \cup {agent[c]}] \in Documents
        /\ [state EXCEPT !.failed = @ \cup {agent[c]}] \in Documents
        /\ [state EXCEPT !.stops = @ + 1] \in Documents
        /\ [state EXCEPT !.seated = @ \cup {agent[c]}].mapped = state.mapped
        /\ [state EXCEPT !.failed = @ \cup {agent[c]}].mapped = state.mapped
        /\ [state EXCEPT !.stops = @ + 1].mapped = state.mapped
    BY <2>1 DEF Documents
  <2>3. ASSUME NEW n \in Sessions
        PROVE  /\ [state EXCEPT !.mapped[agent[c]] = n] \in Documents
               /\ [state EXCEPT !.mapped[agent[c]] = n].mapped
                     = [state.mapped EXCEPT ![agent[c]] = n]
    BY <2>1 DEF Documents
  <2> QED BY <2>1, <2>2, <2>3
<1>2. CASE BeginSeat(c) \/ EndSeat(c)
  BY <1>1, <1>2 DEF BeginSeat, EndSeat, Edit, Skip, Saved, Fails, document, DocumentStep
<1>3. CASE BeginForget(c) \/ EndForget(c)
  BY <1>1, <1>3 DEF BeginForget, EndForget, Edit, Skip, Saved, Fails, document, DocumentStep
<1>4. CASE BeginComplete(c) \/ BeginFailure(c) \/ AlreadyShown(c)
  BY <1>1, <1>4
     DEF BeginComplete, BeginFailure, AlreadyShown, Begins, Holds, Edit, Skip, document,
     DocumentStep
<1>5. CASE EndRecord(c)
  BY <1>5 DEF EndRecord, Saved, Fails, DocumentStep
<1>6. CASE BeginStop(c) \/ EndStop(c)
  BY <1>1, <1>6 DEF BeginStop, EndStop, Edit, Skip, Saved, Fails, document, DocumentStep
<1>7. CASE Turns(c) \/ Missing(c) \/ Abort(c) \/ \E to \in Agents : Handoff(c, to)
  BY <1>7
     DEF Turns, StartTurn, FinishTurn, Continue, Missing, Abort, Handoff, document,
         DocumentStep
<1> QED BY <1>2, <1>3, <1>4, <1>5, <1>6, <1>7 DEF Moving, Locked

\* What a step does to the native sessions.
NumberStep(c) ==
    /\ stage[c] # "none"
    /\ \/ agent' = agent
       \/ stage'[c] = "seating" /\ \E to \in Known : agent' = [agent EXCEPT ![c] = to]
    /\ \/ resumes' = resumes /\ (stage'[c] \in Working => stage[c] \in Working)
       \/ /\ agent' = agent
          /\ \E n \in {NoSession, state.mapped[agent[c]]} : resumes' = [resumes EXCEPT ![c] = n]
    /\ \/ UNCHANGED <<used, session>> /\ (stage'[c] \in InSession => stage[c] \in InSession)
       \/ /\ agent' = agent
          /\ \E n : /\ \/ n = Fresh(agent[c])
                       \/ stage[c] \in Working /\ n = resumes[c] /\ n # NoSession
                    /\ session' = [session EXCEPT ![c] = n]
                    /\ used' = [used EXCEPT ![agent[c]] = @ \cup {n}]

\* Every step is one of these.
LEMMA NumberSteps ==
  ASSUME IInv, NEW c \in Agents, Moving(c)
  PROVE  NumberStep(c)
<1>0. /\ stage \in [Agents -> Stages] /\ agent \in [Agents -> Agents] /\ lock \in Seq(Agents)
      /\ \A to \in Stages, rest \in Seq(Agents) : Moves(c, to, rest) => stage'[c] = to
      /\ lock # <<>> => Tail(lock) \in Seq(Agents)
      /\ {"queued", "running", "continuing", "ended", "broken", "seating", "forgetting",
          "completing", "failing", "interrupting", "stopping"} \subseteq Stages
  <2>1. lock # <<>> => Tail(lock) \in Seq(Agents)
    BY Pop DEF IInv, ShapeInv
  <2>2. \A to \in Stages, rest \in Seq(Agents) : Moves(c, to, rest) => stage'[c] = to
    BY DEF Moves, IInv, ShapeInv
  <2> QED BY <2>1, <2>2, StageNames DEF IInv, ShapeInv
<1>1. CASE BeginSeat(c) \/ EndSeat(c)
  BY <1>0, <1>1
     DEF BeginSeat, EndSeat, Join, Begins, Settles, Holds, Edit, Leaves, NumberStep,
     Working, InSession
<1>2. CASE BeginForget(c) \/ EndForget(c)
  BY <1>0, <1>2
     DEF BeginForget, EndForget, Renew, RunsIn, Leaves, Begins, Settles, Holds, Edit,
     NumberStep, Working, InSession
<1>3. CASE BeginComplete(c) \/ BeginFailure(c) \/ AlreadyShown(c)
  BY <1>0, <1>3
     DEF BeginComplete, BeginFailure, AlreadyShown, Begins, Holds, Edit, Leaves, Records,
     NumberStep, Working, InSession
<1>4. CASE EndRecord(c)
  BY <1>0, <1>4
     DEF EndRecord, Settles, Holds, Leaves, Records, NumberStep, Working, InSession
<1>5. CASE BeginStop(c) \/ EndStop(c)
  BY <1>0, <1>5 DEF BeginStop, EndStop, Begins, Settles, Holds, Edit, Leaves, Records,
     NumberStep, Working, InSession
<1>6. CASE StartTurn(c)
  BY <1>0, <1>6 DEF StartTurn, RunsIn, Goes, NumberStep, Working, InSession
<1>7. CASE FinishTurn(c)
  BY <1>0, <1>7 DEF FinishTurn, Goes, NumberStep, Working, InSession
<1>8. CASE Continue(c)
  <2>1. stage[c] = "continuing" /\ UNCHANGED <<resumes, session, used>>
    BY <1>8 DEF Continue
  <2>2. \/ agent' = agent /\ stage'[c] \in {"ended", "stopping"}
        \/ stage'[c] = "seating" /\ \E to \in Known : agent' = [agent EXCEPT ![c] = to]
    BY <1>0, <1>8, Continuations DEF Take, Goes
  <2> QED BY <2>1, <2>2 DEF NumberStep, Working, InSession
<1>9. CASE Missing(c)
  BY <1>0, <1>9 DEF Missing, Goes, NumberStep, Working, InSession
<1>10. CASE Abort(c) \/ \E to \in Agents : Handoff(c, to)
  BY <1>10 DEF Abort, Handoff, NumberStep, Working, InSession
<1> QED BY <1>1, <1>2, <1>3, <1>4, <1>5, <1>6, <1>7, <1>8, <1>9, <1>10
           DEF Moving, Locked, Turns

\* The next session, or one that is there already, leaves no gap.
LEMMA Grown ==
  ASSUME NumberInv, NEW a \in Agents, NEW n, n = Fresh(a) \/ n \in 1..Number(a)
  PROVE  LET m == IF n = Fresh(a) THEN Number(a) + 1 ELSE Number(a)
         IN  /\ m \in Nat /\ used[a] \cup {n} = 1..m /\ Cardinality(used[a] \cup {n}) = m
             /\ n \in 1..m /\ Number(a) <= m
<1> DEFINE m == IF n = Fresh(a) THEN Number(a) + 1 ELSE Number(a)
<1>1. Number(a) \in Nat /\ used[a] = 1..Number(a) /\ Fresh(a) = Number(a) + 1
  BY DEF NumberInv, Fresh, Number
<1>2. m \in Nat /\ n \in 1..m /\ Number(a) <= m
  BY <1>1
<1>3. used[a] \cup {n} = 1..m
  BY <1>1
<1>4. Cardinality(1..m) = m
  <2>1. 1 \in Int /\ m \in Int /\ (1 > m => m = 0) /\ m - 1 + 1 = m
    BY <1>2
  <2> HIDE DEF m
  <2> QED BY <2>1, FS_Interval
<1> QED BY <1>2, <1>3, <1>4

\* No step leaves a gap in the numbers, and a new session is the turn's that asked for it.
LEMMA NumbersStep ==
  ASSUME ShapeInv, NumberInv, Rest, NEW c \in Agents, NumberStep(c), DocumentStep(c),
         \A d \in Agents \ {c} : stage'[d] = stage[d]
  PROVE  /\ NumberInv' /\ used' \in [Agents -> SUBSET Nat]
         /\ \A a \in Agents : /\ Number(a) <= Number(a)' /\ Number(a)' <= Number(a) + 1
                              /\ used' = used => Number(a)' = Number(a)
         /\ session' = session \/ \E a \in Agents : \E n \in 1..Number(a)' :
                                       session' = [session EXCEPT ![c] = n]
         /\ \A a \in Agents : Number(a)' # Number(a) => a = agent[c] /\ session'[c] = Fresh(a)
<1>0. PICK a \in Agents : a = agent[c]
  BY DEF ShapeInv
<1>1. a \in Agents /\ a = agent[c] /\ used \in [Agents -> SUBSET Nat] /\ agent \in [Agents -> Agents]
  BY <1>0 DEF ShapeInv, Rest
<1>2. /\ session \in [Agents -> Sessions] /\ resumes \in [Agents -> Sessions]
      /\ state.mapped \in [Agents -> Sessions] /\ previous.mapped \in [Agents -> Sessions]
  BY DEF Rest, Documents
<1>3. \A b \in Agents : Number(b) \in Nat /\ used[b] = 1..Number(b)
  BY DEF NumberInv
<1>4. /\ used' \in [Agents -> SUBSET Nat]
      /\ \A b \in Agents : /\ Number(b)' \in Nat /\ used'[b] = 1..Number(b)'
                           /\ Number(b) <= Number(b)' /\ Number(b)' <= Number(b) + 1
                           /\ used' = used => Number(b)' = Number(b)
                           /\ Number(b)' # Number(b) => b = a /\ session'[c] = Fresh(b)
      /\ \/ session' = session /\ (stage'[c] \in InSession => stage[c] \in InSession)
         \/ agent' = agent /\ \E n \in 1..Number(a)' : session' = [session EXCEPT ![c] = n]
  <2>1. CASE UNCHANGED <<used, session>> /\ (stage'[c] \in InSession => stage[c] \in InSession)
    <3>1. \A b \in Agents : Number(b)' = Number(b)
      BY <2>1 DEF Number
    <3> QED BY <1>1, <1>3, <2>1, <3>1
  <2>2. ASSUME NEW n, n = Fresh(a) \/ (stage[c] \in Working /\ n = resumes[c] /\ n # NoSession),
               agent' = agent, session' = [session EXCEPT ![c] = n],
               used' = [used EXCEPT ![a] = @ \cup {n}]
        PROVE  /\ used' \in [Agents -> SUBSET Nat] /\ n \in 1..Number(a)'
               /\ \A b \in Agents : /\ Number(b)' \in Nat /\ used'[b] = 1..Number(b)'
                                    /\ Number(b) <= Number(b)' /\ Number(b)' <= Number(b) + 1
                                    /\ used' = used => Number(b)' = Number(b)
                                    /\ Number(b)' # Number(b) => b = a /\ session'[c] = Fresh(b)
    <3>1. n = Fresh(a) \/ n \in 1..Number(a)
      BY <1>1, <1>2, <1>3, <2>2 DEF NumberInv, NoSession
    <3> DEFINE m == IF n = Fresh(a) THEN Number(a) + 1 ELSE Number(a)
    <3>2. /\ m \in Nat /\ used[a] \cup {n} = 1..m /\ Cardinality(used[a] \cup {n}) = m
          /\ n \in 1..m /\ Number(a) <= m
      BY <1>1, <3>1, Grown
    <3>8. used[a] \cup {n} \in SUBSET Nat
      BY <3>2
    <3>3. used' \in [Agents -> SUBSET Nat] /\ used'[a] = used[a] \cup {n} /\ \A b \in Agents \ {a} : used'[b] = used[b]
      BY <1>1, <2>2, <3>8
    <3>4. Number(a)' = m /\ \A b \in Agents \ {a} : Number(b)' = Number(b)
      BY <3>2, <3>3 DEF Number
    <3>5. m <= Number(a) + 1 /\ (used' = used => m = Number(a))
      <4>1. m <= Number(a) + 1
        BY <1>1, <1>3
      <4>2. used' = used => m = Number(a)
        BY <3>4 DEF Number
      <4> QED BY <4>1, <4>2
    <3>7. m # Number(a) => session'[c] = Fresh(a)
      BY <1>2, <2>2
    <3> HIDE DEF m
    <3>6. ASSUME NEW b \in Agents
          PROVE  /\ Number(b)' \in Nat /\ used'[b] = 1..Number(b)'
                 /\ Number(b) <= Number(b)' /\ Number(b)' <= Number(b) + 1
                 /\ used' = used => Number(b)' = Number(b)
                 /\ Number(b)' # Number(b) => b = a /\ session'[c] = Fresh(b)
      <4>1. CASE b = a
        BY <3>7, <3>2, <3>3, <3>4, <3>5, <4>1
      <4>2. CASE b # a
        BY <1>3, <3>3, <3>4, <4>2
      <4> QED BY <4>1, <4>2
    <3> QED BY <1>1, <3>2, <3>3, <3>4, <3>6
  <2>3. CASE /\ agent' = agent
             /\ \E n : /\ n = Fresh(a) \/ (stage[c] \in Working /\ n = resumes[c] /\ n # NoSession)
                      /\ session' = [session EXCEPT ![c] = n]
                      /\ used' = [used EXCEPT ![a] = @ \cup {n}]
    BY <2>2, <2>3
  <2>4. \/ UNCHANGED <<used, session>> /\ (stage'[c] \in InSession => stage[c] \in InSession)
        \/ /\ agent' = agent
           /\ \E n : /\ n = Fresh(a) \/ (stage[c] \in Working /\ n = resumes[c] /\ n # NoSession)
                    /\ session' = [session EXCEPT ![c] = n]
                    /\ used' = [used EXCEPT ![a] = @ \cup {n}]
    BY <1>1 DEF NumberStep
  <2> QED BY <2>1, <2>3, <2>4
<1>5. ASSUME NEW b \in Agents
      PROVE  state'.mapped[b] \in 0..Number(b)' /\ previous'.mapped[b] \in 0..Number(b)'
  <2>1. state.mapped[b] \in 0..Number(b)' /\ previous.mapped[b] \in 0..Number(b)'
    BY <1>3, <1>4 DEF NumberInv
  <2>2. stage[c] = "completing" => session[c] \in 0..Number(a)'
    BY <1>1, <1>3, <1>4 DEF NumberInv
  <2>3. 0 \in 0..Number(b)'
    BY <1>4
  <2> QED BY <1>1, <1>2, <2>1, <2>2, <2>3 DEF DocumentStep, NoSession
<1>6. ASSUME NEW d \in Agents, stage'[d] \in Working
      PROVE  resumes'[d] \in 0..Number(agent[d])'
  <2>1. CASE d # c
    <3>1. resumes'[d] = resumes[d] /\ agent'[d] = agent[d] /\ stage[d] \in Working /\ agent[d] \in Agents
      BY <1>1, <1>2, <1>6, <2>1 DEF NumberStep
    <3>2. resumes[d] \in 0..Number(agent[d])
      BY <3>1 DEF NumberInv
    <3>3. Number(agent[d])' = Cardinality(used'[agent[d]])
      BY <3>1 DEF Number
    <3>4. Number(agent[d]) <= Cardinality(used'[agent[d]]) /\ Cardinality(used'[agent[d]]) \in Nat
      BY <1>4, <3>1 DEF Number
    <3> QED BY <1>3, <3>1, <3>2, <3>3, <3>4
  <2>2. CASE d = c
    <3>1. agent' = agent
      BY <1>6, <2>2 DEF NumberStep, Working
    <3>2. Number(agent[c])' = Cardinality(used'[a])
      BY <1>1, <3>1 DEF Number
    <3>3. Number(a) <= Cardinality(used'[a]) /\ Cardinality(used'[a]) \in Nat
      BY <1>1, <1>4 DEF Number
    <3>4. state.mapped[a] \in 0..Number(a) /\ (stage[c] \in Working => resumes[c] \in 0..Number(a))
      BY <1>1 DEF NumberInv
    <3>5. resumes'[c] \in 0..Number(a)
      BY <1>2, <1>3, <1>1, <1>6, <2>2, <3>4 DEF NumberStep, NoSession
    <3> QED BY <1>1, <1>3, <2>2, <3>2, <3>3, <3>5
  <2> QED BY <2>1, <2>2
<1>7. ASSUME NEW d \in Agents, stage'[d] \in InSession
      PROVE  session'[d] \in 1..Number(agent[d])'
  <2>1. CASE d # c
    <3>1. session'[d] = session[d] /\ agent'[d] = agent[d] /\ stage[d] \in InSession /\ agent[d] \in Agents
      BY <1>1, <1>2, <1>4, <1>7, <2>1 DEF NumberStep
    <3>2. session[d] \in 1..Number(agent[d])
      BY <3>1 DEF NumberInv, InSession
    <3>3. Number(agent[d])' = Cardinality(used'[agent[d]])
      BY <3>1 DEF Number
    <3>4. Number(agent[d]) <= Cardinality(used'[agent[d]]) /\ Cardinality(used'[agent[d]]) \in Nat
      BY <1>4, <3>1 DEF Number
    <3> QED BY <1>3, <3>1, <3>2, <3>3, <3>4
  <2>2. CASE d = c
    <3>1. agent' = agent
      BY <1>7, <2>2 DEF NumberStep, InSession
    <3>2. Number(agent[c])' = Cardinality(used'[a]) /\ Number(a)' = Cardinality(used'[a])
      BY <1>1, <3>1 DEF Number
    <3>3. Number(a) <= Cardinality(used'[a]) /\ Cardinality(used'[a]) \in Nat
      BY <1>1, <1>4 DEF Number
    <3>4. stage[c] \in InSession => session[c] \in 1..Number(a)
      BY <1>1 DEF NumberInv, InSession
    <3>5. session'[c] \in 1..Cardinality(used'[a])
      BY <1>2, <1>3, <1>1, <1>4, <1>7, <2>2, <3>2, <3>3, <3>4
    <3> QED BY <2>2, <3>2, <3>5
  <2> QED BY <2>1, <2>2
<1>8. NumberInv'
  BY <1>4, <1>5, <1>6, <1>7 DEF NumberInv, InSession
<1> QED BY <1>1, <1>4, <1>8

-----------------------------------------------------------------------------
(* How many sessions there can be.                                         *)

\* The chains that may still get a new session, after a step of one chain.
LEMMA OwingAfter ==
  ASSUME IsFiniteSet(Owing), NEW c \in Agents, \A d \in Agents \ {c} : stage'[d] = stage[d]
  PROVE  /\ IsFiniteSet(Owing') /\ Cardinality(Owing) \in Nat /\ Cardinality(Owing') \in Nat
         /\ c \in Owing <=> c \in Owing' => Cardinality(Owing') = Cardinality(Owing)
         /\ c \in Owing /\ c \notin Owing' => Cardinality(Owing') = Cardinality(Owing) - 1
         /\ c \notin Owing /\ c \in Owing' => Cardinality(Owing') = Cardinality(Owing) + 1
<1>1. Cardinality(Owing) \in Nat
  BY FS_CardinalityType
<1>2. CASE c \in Owing <=> c \in Owing'
  <2>1. Owing' = Owing
    BY <1>2 DEF Owing
  <2> QED BY <1>1, <1>2, <2>1
<1>3. CASE c \in Owing /\ c \notin Owing'
  <2>1. Owing' = Owing \ {c}
    BY <1>3 DEF Owing
  <2>2. IsFiniteSet(Owing') /\ Cardinality(Owing') = Cardinality(Owing) - 1
    BY <1>3, <2>1, FS_RemoveElement
  <2>3. Cardinality(Owing') \in Nat
    BY <2>2, FS_CardinalityType
  <2> QED BY <1>1, <1>3, <2>2, <2>3
<1>4. CASE c \notin Owing /\ c \in Owing'
  <2>1. Owing' = Owing \cup {c}
    BY <1>4 DEF Owing
  <2>2. IsFiniteSet(Owing') /\ Cardinality(Owing') = Cardinality(Owing) + 1
    BY <1>4, <2>1, FS_AddElement
  <2> QED BY <1>1, <1>4, <2>2
<1> QED BY <1>2, <1>3, <1>4

\* A turn or a lost session accounts for every session that is still to come.
CountStep(c) ==
    /\ \/ turns' = turns /\ missing' = missing
       \/ turns' = turns /\ missing < MaxMissing /\ missing' = missing + 1
       \/ stage'[c] = "seating" /\ missing' = missing
          /\ \E to \in Known : turns' = Append(turns, Turn(To(agent[c]), to))
    /\ c \in Owing' /\ c \notin Owing => turns' # turns \/ missing' # missing
    /\ used' = used \/ (c \in Owing /\ c \notin Owing')
    /\ failures' = failures \/ (failures < MaxFailures /\ failures' = failures + 1)
    /\ UNCHANGED plan
    /\ aborted' \subseteq aborted \cup {c}

\* Every step does so.
LEMMA CountSteps ==
  ASSUME IInv, Rest, NEW c \in Agents, Moving(c)
  PROVE  CountStep(c)
<1>0. /\ stage \in [Agents -> Stages] /\ agent \in [Agents -> Agents] /\ lock \in Seq(Agents)
      /\ \A to \in Stages, rest \in Seq(Agents) : Moves(c, to, rest) => stage'[c] = to
      /\ lock # <<>> => Tail(lock) \in Seq(Agents)
      /\ {"queued", "running", "continuing", "ended", "broken", "seating", "forgetting",
          "completing", "failing", "interrupting", "stopping"} \subseteq Stages
      /\ c \in Owing <=> stage[c] \in {"seating", "queued", "forgetting"}
      /\ c \in Owing' <=> stage'[c] \in {"seating", "queued", "forgetting"}
      /\ missing \in Nat
  <2>1. lock # <<>> => Tail(lock) \in Seq(Agents)
    BY Pop DEF IInv, ShapeInv
  <2>2. \A to \in Stages, rest \in Seq(Agents) : Moves(c, to, rest) => stage'[c] = to
    BY DEF Moves, IInv, ShapeInv
  <2>3. missing \in Nat
    BY DEF Rest
  <2>4. /\ c \in Owing <=> stage[c] \in {"seating", "queued", "forgetting"}
        /\ c \in Owing' <=> stage'[c] \in {"seating", "queued", "forgetting"}
    BY DEF Owing
  <2> QED BY <2>1, <2>2, <2>3, <2>4, StageNames DEF IInv, ShapeInv
<1>1. CASE BeginSeat(c) \/ EndSeat(c)
  BY <1>0, <1>1
     DEF BeginSeat, EndSeat, Join, Begins, Settles, Holds, Edit, Saved, Fails, Skip, Leaves,
     bounds, CountStep
<1>2. CASE BeginForget(c) \/ EndForget(c)
  BY <1>0, <1>2
     DEF BeginForget, EndForget, Renew, RunsIn, Leaves, Begins, Settles, Holds, Edit,
     Saved, Fails, Skip, bounds, CountStep
<1>3. CASE BeginComplete(c) \/ BeginFailure(c) \/ AlreadyShown(c)
  BY <1>0, <1>3
     DEF BeginComplete, BeginFailure, AlreadyShown, Begins, Holds, Edit, Leaves, Records,
     Skip, bounds, CountStep
<1>4. CASE EndRecord(c)
  BY <1>0, <1>4
     DEF EndRecord, Settles, Holds, Leaves, Records, Saved, Fails, bounds, CountStep
<1>5. CASE BeginStop(c) \/ EndStop(c)
  BY <1>0, <1>5 DEF BeginStop, EndStop, Begins, Settles, Holds, Edit, Leaves, Records,
     Saved, Fails, Skip, bounds, CountStep
<1>6. CASE StartTurn(c)
  BY <1>0, <1>6 DEF StartTurn, RunsIn, Goes, bounds, CountStep
<1>7. CASE FinishTurn(c)
  BY <1>0, <1>7 DEF FinishTurn, Goes, bounds, CountStep
<1>8. CASE Continue(c)
  <2>1. stage[c] = "continuing" /\ UNCHANGED <<plan, used, missing, failures>> /\ aborted' \subseteq aborted
    BY <1>8
       DEF Continue, Requested, Mentioned, Planned, Exhausted, Reserve, Take, End, bounds
  <2>2. CASE (Goes(c, "ended") \/ Goes(c, "stopping")) /\ turns' = turns
    BY <1>0, <2>1, <2>2 DEF Goes, CountStep
  <2>3. ASSUME NEW to \in Known, Take(c, To(agent[c]), to)
        PROVE  CountStep(c)
    <3>1. stage'[c] = "seating" /\ turns' = Append(turns, Turn(To(agent[c]), to))
      BY <1>0, <2>3 DEF Take, Goes
    <3>2. turns' # turns
      BY <3>1 DEF IInv, ShapeInv
    <3> QED BY <2>1, <3>1, <3>2 DEF CountStep
  <2> QED BY <1>8, <2>2, <2>3, Continuations
<1>9. CASE Missing(c)
  BY <1>0, <1>9 DEF Missing, Goes, CountStep
<1>10. CASE Abort(c) \/ \E to \in Agents : Handoff(c, to)
  BY <1>0, <1>10 DEF Abort, Handoff, bounds, CountStep
<1> QED BY <1>1, <1>2, <1>3, <1>4, <1>5, <1>6, <1>7, <1>8, <1>9, <1>10
           DEF Moving, Locked, Turns

\* No step makes a session that no turn and no lost session accounts for.
LEMMA CountsStep ==
  ASSUME IInv, IInv', Rest, ChainInv, NumberInv, CountInv, NEW c \in Agents, Moving(c)
  PROVE  NumberInv' /\ CountInv' /\ ChainInv' /\ Rest'
<1>1. /\ \A d \in Agents \ {c} : stage'[d] = stage[d]
      /\ NumberStep(c) /\ DocumentStep(c) /\ CountStep(c)
  BY NumberSteps, DocumentSteps, CountSteps, WaitSteps DEF WaitStep, IInv
<1>2. /\ NumberInv' /\ used' \in [Agents -> SUBSET Nat]
      /\ \A a \in Agents : /\ Number(a) <= Number(a)' /\ Number(a)' <= Number(a) + 1
                           /\ used' = used => Number(a)' = Number(a)
      /\ session' = session \/ \E a \in Agents : \E n \in 1..Number(a)' :
                                    session' = [session EXCEPT ![c] = n]
  BY <1>1, NumbersStep DEF IInv
<1>3. \A a \in Agents : Number(a) \in Nat /\ Number(a)' \in Nat
  BY <1>2 DEF NumberInv
<1>4. ChainInv'
  BY <1>1 DEF ChainInv, NumberStep, CountStep, plan, IInv, ShapeInv
<1>5. agent[c] \in Known
  BY <1>1 DEF ChainInv, NumberStep
<1>6. turns' \in Seq([from : {Nobody} \cup {To(a) : a \in Known}, to : Known])
      /\ Len(turns) \in Nat /\ (turns' # turns => Len(turns') = Len(turns) + 1)
  <2> DEFINE E == [from : {Nobody} \cup {To(a) : a \in Known}, to : Known]
  <2>1. \A to \in Known : Turn(To(agent[c]), to) \in E
    BY <1>5 DEF Turn
  <2>2. turns \in Seq(E)
    BY DEF Rest
  <2> HIDE DEF E
  <2>3. \A e \in E : Append(turns, e) \in Seq(E) /\ Len(Append(turns, e)) = Len(turns) + 1
    BY <2>2
  <2>4. CASE turns' = turns
    BY <2>2, <2>4 DEF E
  <2>5. CASE \E to \in Known : turns' = Append(turns, Turn(To(agent[c]), to))
    BY <2>1, <2>2, <2>3, <2>5 DEF E
  <2>6. turns' = turns \/ \E to \in Known : turns' = Append(turns, Turn(To(agent[c]), to))
    BY <1>1 DEF CountStep
  <2> QED BY <2>4, <2>5, <2>6
<1>7. missing' \in 0..MaxMissing /\ failures' \in 0..MaxFailures /\ missing \in Nat
      /\ missing' \in {missing, missing + 1}
  BY <1>1, BoundAssumption DEF CountStep, Rest
<1>8. /\ IsFiniteSet(Owing') /\ Cardinality(Owing) \in Nat /\ Cardinality(Owing') \in Nat
      /\ c \in Owing <=> c \in Owing' => Cardinality(Owing') = Cardinality(Owing)
      /\ c \in Owing /\ c \notin Owing' => Cardinality(Owing') = Cardinality(Owing) - 1
      /\ c \notin Owing /\ c \in Owing' => Cardinality(Owing') = Cardinality(Owing) + 1
  BY <1>1, OwingAfter DEF CountInv
<1>9. CountInv'
  <2> SUFFICES ASSUME NEW a \in Agents
               PROVE  Number(a)' + Cardinality(Owing') <= 1 + Len(turns') + missing'
    BY <1>8 DEF CountInv
  <2>1. Number(a) + Cardinality(Owing) <= 1 + Len(turns) + missing
    BY DEF CountInv
  <2>2. /\ Number(a)' <= Number(a) + 1 /\ (used' = used => Number(a)' = Number(a))
        /\ Number(a) \in Nat /\ Number(a)' \in Nat
    BY <1>2, <1>3
  <2>3. /\ c \in Owing' /\ c \notin Owing => turns' # turns \/ missing' # missing
        /\ used' = used \/ (c \in Owing /\ c \notin Owing')
        /\ turns' # turns => missing' = missing
    BY <1>1 DEF CountStep
  <2>4. Len(turns') >= Len(turns) /\ Len(turns') \in Nat
    BY <1>6
  <2>5. CASE c \in Owing /\ c \notin Owing'
    BY <1>7, <1>8, <2>1, <2>2, <2>4, <2>5
  <2>6. CASE c \in Owing <=> c \in Owing'
    <3>1. Number(a)' = Number(a) /\ Cardinality(Owing') = Cardinality(Owing)
      BY <1>8, <2>2, <2>3, <2>6
    <3> QED BY <1>7, <1>8, <2>1, <2>2, <2>4, <3>1
  <2>7. CASE c \notin Owing /\ c \in Owing'
    <3>1. Number(a)' = Number(a) /\ Cardinality(Owing') = Cardinality(Owing) + 1
      BY <1>8, <2>2, <2>3, <2>7
    <3>2. Len(turns') + missing' = Len(turns) + missing + 1
      BY <1>6, <1>7, <2>3, <2>7
    <3> QED BY <1>6, <1>7, <1>8, <2>1, <2>2, <2>4, <3>1, <3>2
  <2> QED BY <2>5, <2>6, <2>7
<1>10. \A a \in Agents : 0..Number(a)' \subseteq Sessions
  <2>1. Len(turns') <= MaxTurns /\ Len(turns') \in Nat
    <3>1. Len(turns') <= limit' /\ limit' = limit /\ limit \in 1..MaxTurns
      BY <1>1 DEF IInv, TurnsInv, RelayIsBounded, CountStep, plan, Rest
    <3> QED BY <1>6, <3>1, BoundAssumption
  <2>2. \A a \in Agents : Number(a)' <= 1 + MaxTurns + MaxMissing
    <3> SUFFICES ASSUME NEW a \in Agents
                 PROVE  Number(a)' <= 1 + MaxTurns + MaxMissing
      OBVIOUS
    <3>1. Number(a)' + Cardinality(Owing') <= 1 + Len(turns') + missing'
      BY <1>9 DEF CountInv
    <3>2. missing' <= MaxMissing /\ missing' \in Nat /\ MaxMissing \in Nat /\ MaxTurns \in Nat
      BY <1>7, BoundAssumption
    <3> QED BY <1>3, <1>8, <2>1, <3>1, <3>2
  <2> QED BY <1>3, <2>2, BoundAssumption DEF Sessions
<1>11. {state', previous'} \subseteq Documents
  BY <1>1 DEF DocumentStep, Rest
<1>12. resumes' \in [Agents -> Sessions]
  <2>1. \A n \in {NoSession, state.mapped[agent[c]]} : n \in Sessions
    <3>1. state \in Documents /\ agent[c] \in Agents /\ 0 \in Sessions
      BY <1>5, BoundAssumption DEF Rest, Known, Sessions
    <3>2. state.mapped \in [Agents -> Sessions]
      BY <3>1 DEF Documents
    <3> QED BY <3>1, <3>2 DEF NoSession
  <2> QED BY <1>1, <2>1 DEF NumberStep, Rest
<1>13. session' \in [Agents -> Sessions]
  <2>1. \A a \in Agents : \A n \in 1..Number(a)' : n \in Sessions
    BY <1>3, <1>10
  <2> QED BY <1>2, <2>1 DEF Rest
<1> QED BY <1>1, <1>2, <1>4, <1>6, <1>7, <1>9, <1>11, <1>12, <1>13 DEF Rest, CountStep, plan

-----------------------------------------------------------------------------
(* A relay keeps its sessions.                                             *)

\* In a relay a step makes a new session only for an Agent that has none.
LEMMA KeepStep ==
  ASSUME IInv, Rest, ChainInv, NumberInv, KeepInv, relay, NEW c \in Agents, Moving(c)
  PROVE  KeepInv'
<1>0. /\ stage \in [Agents -> Stages] /\ agent \in [Agents -> Agents] /\ lock \in Seq(Agents)
      /\ \A to \in Stages, rest \in Seq(Agents) : Moves(c, to, rest) => stage'[c] = to
      /\ lock # <<>> => Tail(lock) \in Seq(Agents)
      /\ {"queued", "running", "continuing", "ended", "broken", "seating", "forgetting",
          "completing", "failing", "interrupting", "stopping"} \subseteq Stages
  <2>1. lock # <<>> => Tail(lock) \in Seq(Agents)
    BY Pop DEF IInv, ShapeInv
  <2>2. \A to \in Stages, rest \in Seq(Agents) : Moves(c, to, rest) => stage'[c] = to
    BY DEF Moves, IInv, ShapeInv
  <2> QED BY <2>1, <2>2, StageNames DEF IInv, ShapeInv
<1>1. /\ \A d \in Agents \ {c} : stage'[d] = stage[d]
      /\ NumberStep(c) /\ DocumentStep(c) /\ CountStep(c)
  BY NumberSteps, DocumentSteps, CountSteps, WaitSteps DEF WaitStep, IInv
<1>2. c = Root /\ Root' = Root /\ relay'
  BY <1>1, OneChain DEF NumberStep, CountStep, plan, Root
<1>3. \A a \in Agents : /\ Number(a) \in Nat /\ Number(a)' \in Nat
                        /\ Number(a) <= Number(a)' /\ Number(a)' <= Number(a) + 1
                        /\ used' = used => Number(a)' = Number(a)
                        /\ Number(a)' # Number(a) => a = agent[c] /\ session'[c] = Fresh(a)
  BY <1>1, NumbersStep DEF IInv, NumberInv
<1>4. /\ missing \in Nat /\ missing' \in Nat /\ missing <= missing'
  BY <1>1 DEF CountStep, Rest
<1>5. saving => stage[c] \in Locking /\ Head(lock) = c
  <2>1. saving => lock # <<>> /\ Head(lock) \in Agents /\ stage[Head(lock)] \in Locking
    BY Pop DEF IInv, LockInv, ShapeInv
  <2>2. saving => stage[Head(lock)] # "none"
    BY <2>1 DEF Locking
  <2> QED BY <1>2, <2>1, <2>2, OneChain
<1>6. KeepInv => \A a \in Agents : Number(a) <= 1 + missing
  BY DEF KeepInv
\* A chain that is about to end.
<1>7. ASSUME stage'[c] \in {"ended", "broken", "failing", "interrupting", "stopping"}, used' = used
      PROVE  KeepInv'
  <2>1. \A a \in Agents : Number(a)' <= 1 + missing'
    BY <1>3, <1>4, <1>6, <1>7
  <2> QED BY <1>2, <1>7, <2>1 DEF KeepInv, Fresher
<1>8. /\ \A a \in Agents : Number(a) <= 1 + missing
      /\ stage[c] \in Fresher => \A a \in Agents : state.mapped[a] = 0 => Number(a) = 0
      /\ stage[c] \in {"running", "forgetting", "completing"} =>
           \A a \in Agents : state.mapped[a] = 0 => Number(a) = 0 \/ a = agent[c]
      /\ stage[c] = "queued" => resumes[c] = state.mapped[agent[c]]
      /\ stage[c] = "forgetting" => Number(agent[c]) <= missing
      /\ saving /\ stage[c] = "completing" => state.mapped[agent[c]] # 0
  BY <1>2 DEF KeepInv, Fresher, NoSession
<1>9. ASSUME \A a \in Agents : Number(a)' <= 1 + missing',
             stage'[c] \in Fresher => \A a \in Agents : state'.mapped[a] = 0 => Number(a)' = 0,
             stage'[c] \in {"running", "forgetting", "completing"} =>
                \A a \in Agents : state'.mapped[a] = 0 => Number(a)' = 0 \/ a = agent'[c],
             stage'[c] = "queued" => resumes'[c] = state'.mapped[agent'[c]],
             stage'[c] = "forgetting" => Number(agent[c])' <= missing',
             saving' /\ stage'[c] = "completing" => state'.mapped[agent'[c]] # 0
      PROVE  KeepInv'
  BY <1>2, <1>9 DEF KeepInv, Fresher, NoSession
<1>10. \A a \in Agents : used' = used => Number(a)' <= 1 + missing'
  BY <1>3, <1>4, <1>6
<1>11. agent[c] \in Agents /\ (agent' = agent => Number(agent[c])' = Cardinality(used'[agent[c]]))
  BY <1>0 DEF Number
\* A turn gets to its session, waits for it, or goes on in it.
<1>12. CASE BeginSeat(c) \/ EndSeat(c)
  <2>1. stage[c] = "seating" /\ UNCHANGED <<agent, used>>
    BY <1>12 DEF BeginSeat, EndSeat, Begins, Settles, Holds
  <2>2. CASE stage'[c] = "broken"
    BY <1>7, <2>1, <2>2
  <2>3. CASE \/ stage'[c] = "seating" /\ state'.mapped = state.mapped
             \/ stage'[c] = "queued" /\ state' = state /\ resumes'[c] = state.mapped[agent[c]]
    BY <1>3, <1>8, <1>9, <1>10, <2>1, <2>3 DEF Fresher
  <2>4. state \in Documents => [state EXCEPT !.seated = @ \cup {agent[c]}].mapped = state.mapped
    BY DEF Documents
  <2>5. DOMAIN resumes = Agents /\ state \in Documents
    BY DEF Rest
  <2> QED BY <1>0, <1>12, <2>1, <2>2, <2>3, <2>4, <2>5
          DEF BeginSeat, EndSeat, Begins, Settles, Holds, Join, Edit, Skip, Saved, Leaves, document
<1>13. CASE BeginForget(c) \/ EndForget(c)
  <2>1. stage[c] = "forgetting" /\ agent' = agent
    BY <1>13 DEF BeginForget, EndForget, Begins, Settles, Holds
  <2>2. CASE stage'[c] \in {"failing", "interrupting"} /\ used' = used
    BY <1>7, <2>2
  <2>3. CASE /\ stage'[c] = "forgetting" /\ used' = used
             /\ state'.mapped = [state.mapped EXCEPT ![agent[c]] = NoSession]
    <3>1. \A a \in Agents : state'.mapped[a] = 0 => state.mapped[a] = 0 \/ a = agent[c]
      BY <2>3 DEF Rest, Documents
    <3>2. Number(agent[c])' = Number(agent[c])
      BY <2>1, <2>3 DEF Number
    <3> QED BY <1>3, <1>4, <1>8, <1>9, <1>10, <1>11, <2>1, <2>3, <3>1, <3>2 DEF Fresher
  <2>4. CASE stage'[c] = "running" /\ state' = state
    <3>1. Number(agent[c]) <= missing
      BY <1>8, <2>1
    <3>2. \A a \in Agents : Number(a)' <= 1 + missing'
      BY <1>3, <1>4, <1>6, <1>11, <3>1
    <3>3. \A a \in Agents : a # agent[c] => Number(a)' = Number(a)
      BY <1>3
    <3> QED BY <1>8, <1>9, <2>1, <2>4, <3>2, <3>3 DEF Fresher
  <2>5. state \in Documents => [state EXCEPT !.mapped[agent[c]] = NoSession].mapped
                                = [state.mapped EXCEPT ![agent[c]] = NoSession]
    BY DEF Documents
  <2> QED BY <1>0, <1>13, <2>1, <2>2, <2>3, <2>4, <2>5
          DEF BeginForget, EndForget, Begins, Settles, Holds, Renew, RunsIn, Edit, Skip, Saved, Leaves,
              document, Rest
\* Its outcome is recorded.
<1>14. CASE BeginComplete(c) \/ BeginFailure(c) \/ AlreadyShown(c) \/ EndRecord(c)
  <2>1. UNCHANGED <<agent, used>>
    BY <1>14 DEF BeginComplete, BeginFailure, AlreadyShown, EndRecord, Records
  <2>2. CASE stage'[c] \in {"ended", "broken", "failing", "interrupting"}
    BY <1>7, <2>1, <2>2
  <2>3. CASE /\ stage[c] = "completing" /\ stage'[c] = "completing"
             /\ state'.mapped = [state.mapped EXCEPT ![agent[c]] = session[c]]
    <3>1. session[c] # 0
      BY <2>3 DEF NumberInv
    <3>2. \A a \in Agents : state'.mapped[a] = IF a = agent[c] THEN session[c] ELSE state.mapped[a]
      BY <2>3 DEF Rest, Documents
    <3> QED BY <1>3, <1>8, <1>9, <1>10, <1>11, <2>1, <2>3, <3>1, <3>2 DEF Fresher
  <2>4. CASE stage[c] = "completing" /\ saving /\ stage'[c] = "continuing" /\ state' = state
    BY <1>3, <1>8, <1>9, <1>10, <2>1, <2>4 DEF Fresher
  <2>5. state \in Documents => [state EXCEPT !.mapped[agent[c]] = session[c]].mapped
                                = [state.mapped EXCEPT ![agent[c]] = session[c]]
    BY DEF Documents
  <2>6. CASE BeginComplete(c)
    BY <1>0, <2>2, <2>3, <2>5, <2>6 DEF BeginComplete, Begins, Holds, Edit, Leaves, Rest
  <2>7. CASE BeginFailure(c) \/ AlreadyShown(c)
    BY <1>0, <2>2, <2>7 DEF BeginFailure, AlreadyShown, Begins, Holds, Edit, Leaves
  <2>8. CASE EndRecord(c)
    BY <1>0, <2>2, <2>4, <2>8 DEF EndRecord, Settles, Holds, Saved, Leaves
  <2> QED BY <1>14, <2>6, <2>7, <2>8
<1>15. CASE BeginStop(c) \/ EndStop(c)
  BY <1>0, <1>7, <1>15 DEF BeginStop, EndStop, Begins, Settles, Holds, Edit, Leaves, Records
<1>16. CASE StartTurn(c)
  <2>1. stage[c] = "queued" /\ UNCHANGED <<agent, state>> /\ missing' = missing
    BY <1>16 DEF StartTurn, document, bounds
  <2>2. CASE stage'[c] = "interrupting" /\ used' = used
    BY <1>7, <2>2
  <2>3. CASE /\ stage'[c] = "running"
             /\ session'[c] = IF resumes[c] = NoSession THEN Fresh(agent[c]) ELSE resumes[c]
    <3>1. \A a \in Agents : a # agent[c] => Number(a)' = Number(a)
      BY <1>3
    <3>2. ASSUME resumes[c] = NoSession
          PROVE  Number(agent[c]) = 0
      BY <1>8, <1>11, <2>1, <3>2 DEF Fresher, NoSession
    <3>3. ASSUME resumes[c] # NoSession
          PROVE  Cardinality(used'[agent[c]]) = Number(agent[c])
      <4>1. resumes[c] \in 0..Number(agent[c]) /\ Number(agent[c]) \in Nat
        BY <1>11, <2>1 DEF NumberInv, Working
      <4>2. session'[c] # Fresh(agent[c])
        BY <2>3, <3>3, <4>1 DEF Fresh, Number
      <4> QED BY <1>3, <1>11, <2>1, <4>2
    <3>4. \A a \in Agents : Number(a)' <= 1 + missing'
      BY <1>3, <1>4, <1>6, <1>11, <2>1, <3>1, <3>2, <3>3
    <3> QED BY <1>8, <1>9, <2>1, <2>3, <3>1, <3>4 DEF Fresher
  <2> QED BY <1>0, <1>16, <2>2, <2>3 DEF StartTurn, RunsIn, Goes, Rest
<1>17. CASE FinishTurn(c)
  <2>1. /\ stage[c] = "running" /\ UNCHANGED <<agent, used, state>> /\ saving' = saving
        /\ stage'[c] \in {"completing", "failing", "interrupting"}
    BY <1>0, <1>17 DEF FinishTurn, Goes, document
  <2>2. CASE stage'[c] = "completing"
    <3>1. ~saving
      BY <1>5, <2>1, StageNames
    <3> QED BY <1>3, <1>8, <1>9, <1>10, <2>1, <2>2, <3>1 DEF Fresher, FinishTurn
  <2> QED BY <1>7, <2>1, <2>2
<1>18. CASE Continue(c)
  <2>1. stage[c] = "continuing" /\ UNCHANGED <<used, state>>
    BY <1>18 DEF Continue, document
  <2>2. stage'[c] \in {"ended", "stopping", "seating"}
    BY <1>0, <1>18, Continuations DEF Take, Goes
  <2> QED BY <1>3, <1>7, <1>8, <1>9, <1>10, <2>1, <2>2 DEF Fresher
<1>19. CASE Missing(c)
  <2>1. /\ stage[c] = "running" /\ UNCHANGED <<agent, used, state>> /\ missing' = missing + 1
        /\ stage'[c] \in {"forgetting", "interrupting"}
    BY <1>0, <1>19 DEF Missing, Goes, document
  <2>2. CASE stage'[c] = "forgetting"
    <3>1. Number(agent[c])' <= missing'
      BY <1>3, <1>4, <1>6, <1>11, <2>1
    <3> QED BY <1>3, <1>8, <1>9, <1>10, <2>1, <2>2, <3>1 DEF Fresher
  <2> QED BY <1>7, <2>1, <2>2
<1>20. CASE Abort(c) \/ \E to \in Agents : Handoff(c, to)
  <2>1. UNCHANGED <<stage, agent, used, state, saving, resumes>>
    BY <1>20 DEF Abort, Handoff, document
  <2>2. missing' = missing
    BY <1>20 DEF Abort, Handoff, bounds
  <2>3. Number(agent[c])' = Number(agent[c])
    BY <2>1 DEF Number
  <2> QED BY <1>3, <1>8, <1>9, <1>10, <2>1, <2>2, <2>3 DEF Fresher
<1> QED BY <1>12, <1>13, <1>14, <1>15, <1>16, <1>17, <1>18, <1>19, <1>20
           DEF Moving, Locked, Turns

-----------------------------------------------------------------------------

\* A sequence has no more members than places.
LEMMA RootsCounted ==
  ASSUME NEW n \in Nat, NEW q \in Seq(Agents), Len(q) = n
  PROVE  IsFiniteSet(In(q)) /\ Cardinality(In(q)) \in Nat /\ Cardinality(In(q)) <= n
<1>1. q \in Surjection(1..n, In(q))
  BY DEF Surjection, In
<1>2. ExistsSurjection(1..n, In(q))
  BY <1>1 DEF ExistsSurjection
<1>3. IsFiniteSet(In(q))
  BY <1>2, FS_NatSurjection
<1> QED BY <1>2, <1>3, FS_SurjCardinalityBound, FS_CardinalityType

\* The strengthened invariant holds when a delivery starts,
LEMMA DeliveryInit == Init => DeliveryInv
<1> SUFFICES ASSUME Init PROVE DeliveryInv
    OBVIOUS
<1>1. PICK p \in Plans : relay = p.relay /\ assigned = p.assigned /\ limit = p.limit
    BY DEF Init
<1>2. /\ relay \in BOOLEAN /\ limit \in 1..MaxTurns
      /\ assigned \in Seq(Known) /\ assigned # <<>> /\ IsInjective(assigned)
    BY <1>1, PlanAssumption DEF Known
<1>3. Known \subseteq Agents /\ assigned \in Seq(Agents)
    BY <1>2 DEF Known
<1>4. /\ DOMAIN assigned = 1..Len(assigned) /\ Len(assigned) \in Nat /\ 1 \in 1..Len(assigned)
      /\ \A i \in 1..Len(assigned) : assigned[i] \in Known
      /\ Range(assigned) = In(assigned) /\ Root \in In(assigned) /\ In(assigned) \subseteq Known
    BY <1>2 DEF Range, In, Root
<1>5. /\ stage = [c \in Agents |-> IF c \in Roots THEN "seating" ELSE "none"]
      /\ agent = [c \in Agents |-> c] /\ waiting = [a \in Agents |-> <<>>]
      /\ resumes = [c \in Agents |-> 0] /\ session = [c \in Agents |-> 0]
      /\ saving = FALSE /\ failures = 0 /\ missing = 0 /\ aborted = {}
      /\ lock = IF relay THEN <<Root>> ELSE assigned
      /\ turns = [i \in 1..(IF relay THEN 1 ELSE Len(assigned)) |-> Turn(Nobody, assigned[i])]
      /\ previous = state
    BY DEF Init, Root, NoSession
<1>6. Roots \subseteq In(assigned) /\ Roots = IF relay THEN {Root} ELSE In(assigned)
    BY <1>4 DEF Roots, Root
<1>7. QueuedInv
  <2>1. CASE relay
    <3>1. lock = <<Root>> /\ In(lock) = {Root} /\ IsInjective(lock)
        BY <1>5, <2>1 DEF In, IsInjective
    <3> QED BY <1>3, <1>4, <1>5, <1>6, <2>1, <3>1 DEF QueuedInv, Locking
  <2>2. CASE ~relay
    BY <1>2, <1>3, <1>4, <1>5, <1>6, <2>2 DEF QueuedInv, Locking
  <2> QED BY <2>1, <2>2
<1>8. WaitInv
    BY <1>5 DEF WaitInv, In, IsInjective
<1>9. ChainInv
    BY <1>4, <1>5, <1>6 DEF ChainInv
<1>10. PICK mapped \in [Agents -> {0, 1}] :
         /\ state = [mapped |-> mapped, seated |-> Range(assigned), stops |-> 0, failed |-> {}]
         /\ used = [a \in Agents |-> {mapped[a]} \ {0}]
    BY DEF Init, NoSession
<1>11. \A a \in Agents : Number(a) = mapped[a] /\ used[a] = 1..mapped[a] /\ mapped[a] \in {0, 1}
  <2> SUFFICES ASSUME NEW a \in Agents
               PROVE  Number(a) = mapped[a] /\ used[a] = 1..mapped[a] /\ mapped[a] \in {0, 1}
    OBVIOUS
  <2>1. CASE mapped[a] = 0
    BY <1>10, <2>1, FS_EmptySet DEF Number
  <2>2. CASE mapped[a] = 1
    <3>1. used[a] = {1} /\ 1..1 = {1}
        BY <1>10, <2>2
    <3> QED BY <2>2, <3>1, FS_Singleton DEF Number
  <2> QED BY <2>1, <2>2
<1>12. state.mapped = mapped /\ previous.mapped = mapped
    BY <1>5, <1>10
<1>13. NumberInv
  <2>1. \A a \in Agents : /\ Number(a) \in Nat /\ used[a] = 1..Number(a)
                          /\ mapped[a] \in 0..Number(a)
    BY <1>11
  <2>2. \A c \in Agents : stage[c] \notin Working /\ stage[c] \notin {"running", "forgetting", "completing"}
    BY <1>5 DEF Working
  <2> QED BY <1>12, <2>1, <2>2 DEF NumberInv
<1>14. turns \in Seq([from : {Nobody} \cup {To(a) : a \in Known}, to : Known])
       /\ Len(turns) = IF relay THEN 1 ELSE Len(assigned)
  <2> DEFINE E == [from : {Nobody} \cup {To(a) : a \in Known}, to : Known]
             n == IF relay THEN 1 ELSE Len(assigned)
  <2>1. n \in Nat /\ \A i \in 1..n : Turn(Nobody, assigned[i]) \in E
    BY <1>4 DEF Turn
  <2>2. turns = [i \in 1..n |-> Turn(Nobody, assigned[i])]
    BY <1>5
  <2> HIDE DEF n, E
  <2>3. turns \in Seq(E) /\ Len(turns) = n
    BY <2>1, <2>2
  <2> QED BY <2>3 DEF n, E
<1>15. CountInv
  <2>1. Owing = Roots
    BY <1>3, <1>4, <1>5, <1>6 DEF Owing
  <2>2. IsFiniteSet(Roots) /\ Cardinality(Roots) \in Nat /\ Cardinality(Roots) <= Len(turns)
    <3>1. CASE relay
      <4>1. IsFiniteSet({Root}) /\ Cardinality({Root}) = 1
        BY FS_Singleton
      <4> QED BY <1>6, <1>14, <3>1, <4>1
    <3>2. CASE ~relay
        BY <1>3, <1>4, <1>6, <1>14, <3>2, RootsCounted
    <3> QED BY <3>1, <3>2
  <2>3. Len(turns) \in Nat
    BY <1>4, <1>14
  <2> QED BY <1>5, <1>11, <2>1, <2>2, <2>3 DEF CountInv
<1>16. KeepInv
  <2>1. \A a \in Agents : Number(a) <= 1 + missing
    BY <1>5, <1>11
  <2>2. \A a \in Agents : state.mapped[a] = 0 => Number(a) = 0
    BY <1>11, <1>12
  <2>3. relay => stage[Root] = "seating"
    BY <1>3, <1>4, <1>5, <1>6
  <2> QED BY <2>1, <2>2, <2>3 DEF KeepInv, NoSession
<1>17. Rest
  <2>1. 0 \in Sessions /\ 1 \in Sessions /\ 0 \in 0..MaxMissing /\ 0 \in 0..MaxFailures
    BY BoundAssumption DEF Sessions
  <2>2. mapped \in [Agents -> Sessions]
    BY <1>10, <2>1
  <2>3. state \in Documents
    BY <1>3, <1>4, <1>10, <2>2 DEF Documents
  <2> QED BY <1>2, <1>5, <1>10, <1>14, <2>1, <2>3 DEF Rest
<1> QED BY <1>7, <1>8, <1>9, <1>13, <1>15, <1>16, <1>17 DEF DeliveryInv

\* and every step keeps it.
LEMMA DeliveryNext ==
  ASSUME IInv, IInv', DeliveryInv, [Next]_vars
  PROVE  DeliveryInv'
<1>1. CASE UNCHANGED vars
  <2>1. \A a \in Agents : Number(a)' = Number(a)
    BY <1>1 DEF vars, Number
  <2>2. QueuedInv' /\ WaitInv' /\ ChainInv'
    BY <1>1 DEF vars, plan, turn, DeliveryInv, QueuedInv, WaitInv, ChainInv
  <2>3. NumberInv' /\ KeepInv'
    BY <1>1
       DEF vars, plan, turn, document, bounds, DeliveryInv, Number, NumberInv, KeepInv, Root
  <2>4. Owing' = Owing
    BY <1>1 DEF vars, turn, Owing
  <2>5. CountInv'
    BY <1>1, <2>1, <2>4 DEF vars, bounds, DeliveryInv, CountInv
  <2>6. Rest'
    BY <1>1 DEF vars, plan, turn, document, bounds, DeliveryInv, Rest
  <2> QED BY <2>2, <2>3, <2>5, <2>6 DEF DeliveryInv
<1>2. ASSUME NEW c \in Agents, Moving(c)
      PROVE  DeliveryInv'
  <2>1. QueuedInv' /\ WaitInv'
    BY <1>2, LockSteps, QueuedStep, WaitSteps, WaitsStep DEF DeliveryInv, IInv
  <2>2. NumberInv' /\ CountInv' /\ ChainInv' /\ Rest'
    BY <1>2, CountsStep DEF DeliveryInv
  <2>3. KeepInv'
    <3>1. CASE relay
      BY <1>2, <3>1, KeepStep DEF DeliveryInv
    <3>2. CASE ~relay
      <4>1. relay' = relay
        BY <1>2, CountSteps DEF DeliveryInv, CountStep, plan
      <4> QED BY <3>2, <4>1 DEF KeepInv
    <3> QED BY <3>1, <3>2
  <2> QED BY <2>1, <2>2, <2>3 DEF DeliveryInv
<1> QED BY <1>1, <1>2 DEF Next, Moving

\* A delivery stays well typed and within its bounds, its edges and its turns are used
\* once, and an Agent of a relay keeps its session unless that is gone.
THEOREM DeliveryTheorem == Spec => []DeliveryConsistent
<1>1. IInv /\ DeliveryInv => TypeOK
  <2> SUFFICES ASSUME IInv, DeliveryInv PROVE TypeOK
    OBVIOUS
  <2>1. \A a \in Agents : used[a] \in SUBSET Sessions
    <3> SUFFICES ASSUME NEW a \in Agents PROVE used[a] \subseteq Sessions
      OBVIOUS
    <3>1. used[a] = 1..Number(a) /\ Number(a) \in Nat
      BY DEF DeliveryInv, NumberInv
    <3>2. Number(a) + Cardinality(Owing) <= 1 + Len(turns) + missing /\ Cardinality(Owing) \in Nat
      BY FS_CardinalityType DEF DeliveryInv, CountInv
    <3>3. Len(turns) <= limit /\ limit \in 1..MaxTurns /\ Len(turns) \in Nat
      BY DEF IInv, TurnsInv, RelayIsBounded, DeliveryInv, Rest
    <3>4. missing \in 0..MaxMissing
      BY DEF DeliveryInv, Rest
    <3> QED BY <3>1, <3>2, <3>3, <3>4, BoundAssumption DEF Sessions
  <2>2. used \in [Agents -> SUBSET Sessions]
    BY <2>1 DEF DeliveryInv, Rest
  <2>3. /\ lock \in Seq(Agents) /\ IsInjective(lock)
        /\ \A a \in Agents : waiting[a] \in Seq(Agents) /\ IsInjective(waiting[a])
    BY DEF IInv, ShapeInv, DeliveryInv, QueuedInv, WaitInv
  <2> QED BY <2>2, <2>3 DEF TypeOK, IInv, ShapeInv, DeliveryInv, Rest
<1>2. IInv /\ DeliveryInv => RelayKeepsSessions
  BY DEF DeliveryInv, KeepInv, RelayKeepsSessions, Number
<1>3. IInv /\ DeliveryInv /\ [Next]_vars => IInv' /\ DeliveryInv'
  BY NextPreserves, DeliveryNext
<1>4. Init => IInv /\ DeliveryInv
  BY InitInv, DeliveryInit
<1>5. Spec => []TypeOK /\ []RelayKeepsSessions
  BY <1>1, <1>2, <1>3, <1>4, PTL DEF Spec
<1> QED BY <1>5, BoundedTheorem, PTL DEF DeliveryConsistent

-----------------------------------------------------------------------------
(* The memory of the thread (ContextMemory): what its invariant says.      *)

\* The messages of a document, and what a memory and a document are made of.
Messages(d) == {d.msgs[i] : i \in DOMAIN d.msgs}

\* A memory: only an inferred one has a text of messages, only a person's an edit.
IsMemory(m) ==
    /\ DOMAIN m = {"origin", "status", "through", "count", "covers", "edit"}
    /\ m.origin \in {"automatic", "inference", "user"}
    /\ m.status \in {"empty", "current", "stale", "compacting", "failed"}
    /\ m.covers \in SUBSET Nat /\ (m.origin # "inference" => m.covers = {})
    /\ m.edit \in Nat /\ (m.edit # 0 => m.origin = "user")

\* A memory without a text.
IsProjection(m) == IsMemory(m) /\ m.origin = "automatic" /\ m.status # "compacting"

\* A document whose messages are numbered below the next.
IsDocument(d, next) ==
    /\ DOMAIN d = {"msgs", "deleted", "evidence", "mem", "tag"}
    /\ d.msgs \in Seq(Nat) /\ d.deleted \subseteq Messages(d)
    /\ IsMemory(d.mem) /\ d.tag \in Tags
    /\ \A n \in Messages(d) \cup d.mem.covers : n < next

\* A refresh or a compaction, with what it has read.
IsUpdate(u, next) ==
    /\ DOMAIN u = DOMAIN Idle
    /\ u.before \in Tags
    /\ IsProjection(u.projection) /\ IsMemory(u.memory)
    /\ u.covers \in SUBSET Nat /\ u.edit \in Nat
    /\ \A n \in u.covers \cup u.memory.covers : n < next

\* The values of the variables.
MemoryTyped ==
    /\ scope \in Scopes /\ fresh \in Nat /\ runs \in Nat /\ dirty \in BOOLEAN
    /\ left \in [Events -> Nat]
    /\ told \in [{"overtaken", "missed", "unsaved", "stuck", "behind", "restarted"} -> BOOLEAN]
    /\ memoryLock \in {"nobody", "auto", "man"}
    /\ IsDocument(doc, fresh) /\ IsDocument(saved, fresh)
    /\ IsUpdate(auto, fresh) /\ IsUpdate(man, fresh)

\* A section adds messages and deletions; a memory with the same tag is the same.
SectionAdds ==
    /\ previousState = saved
    /\ Free => doc = saved
    /\ Messages(saved) \subseteq Messages(doc) /\ saved.deleted \subseteq doc.deleted
    /\ doc.tag = saved.tag => doc.mem = saved.mem

\* Who holds the lock of the memory and the FIFO lock, and a run whose reply is saved.
StagesHold ==
    /\ memoryLock = "auto" <=> auto.stage \notin {"none", "wait", "ending"}
    /\ memoryLock = "man" <=> man.stage \notin {"none", "wait"}
    /\ section = "mark" <=> auto.stage = "marking"
    /\ section = "save" <=> auto.stage = "saving"
    /\ section = "begin" <=> man.stage = "beginning"
    /\ section = "complete" <=> man.stage = "completing"
    /\ section = "fail" <=> man.stage = "recording"
    /\ section = "reply" => runs > 0
    /\ auto.stage \in {"none", "wait", "mark", "marking", "marked", "asking", "save",
                       "saving", "refresh", "next", "ending"}
    /\ man.stage \in {"none", "wait", "begin", "beginning", "begun", "asking", "answered",
                      "completing", "failing", "recording"}

\* Nothing of a text was deleted.
Clean(memory, d) == memory.covers \cap d.deleted = {}

\* What inference reads is not deleted without the update noticing it.
Noticed(u) == \A n \in u.covers : n \in u.source.live \/ n \notin Messages(doc)

\* What was deleted is in no text, in memory, on disk or on its way, unless the message
\* went after the last look of an update at its sources.
TextInv ==
    ~told.overtaken =>
      /\ Clean(doc.mem, doc) /\ Clean(saved.mem, saved)
      /\ auto.stage \in {"mark", "save"} => Clean(auto.memory, doc)
      /\ auto.stage = "asking" => Noticed(auto)
      /\ man.stage \in {"asking", "answered"} => Noticed(man) 
      /\ man.stage = "answered" =>
           IF scope = "channel" THEN Clean(man.memory, doc) ELSE man.memory.covers \subseteq man.covers

\* A memory that says inference is producing another.
Compacting(m) == m.status = "compacting"
NoneCompacting == ~Compacting(doc.mem) /\ ~Compacting(saved.mem)

\* Whoever leaves the memory's lock leaves no memory compacting, but for a result that
\* could not be saved or a text that kept its status under a deletion.
StatusInv ==
    ~told.stuck /\ ~told.unsaved =>
      /\ memoryLock = "nobody" => NoneCompacting
      /\ auto.stage \in {"mark", "refresh", "next"} => NoneCompacting
      /\ auto.stage = "marking" => ~Compacting(saved.mem)
      /\ scope = "thread" /\ auto.stage = "asking" => NoneCompacting
      /\ auto.stage = "save" => ~Compacting(auto.memory)
      /\ auto.stage = "saving" => ~Compacting(doc.mem)
      /\ memoryLock = "auto" =>
           \A d \in {doc, saved} : d.mem.origin = "user" => ~Compacting(d.mem)
      /\ man.stage = "begin" => NoneCompacting
      /\ man.stage = "beginning" => ~Compacting(saved.mem)
      /\ man.stage \in {"completing", "recording"} => ~Compacting(doc.mem)

\* A refresh marks only a Channel's memory, and never a person's; a compaction's result
\* is not a person's.
MarkInv ==
    /\ auto.stage \in {"mark", "marking", "marked"} => scope = "channel"
    /\ auto.stage = "mark" => auto.memory.origin # "user"
    /\ auto.stage = "refresh" => scope = "thread"
    /\ man.memory.origin # "user"

\* Edits are numbered downwards.  An edit on disk is in memory too, or a later one, or a
\* compaction that was asked for after it; and an update that finds the memory it read
\* has not missed an edit.
HumanInv ==
    /\ \A m \in {doc.mem, saved.mem, auto.memory} : m.origin = "user"
         => m.edit > left["edit"]
    /\ saved.mem.origin = "user" =>
         \/ doc.mem.origin = "user" /\ doc.mem.edit <= saved.mem.edit
         \/ section = "complete" /\ man.edit = saved.mem.edit
    /\ \A d \in {doc, saved} :
         /\ auto.stage \in {"mark", "marking", "marked", "asking"} /\ d.tag = auto.before
              => d.mem.origin # "user"
         /\ auto.stage = "save" /\ d.tag = auto.before /\ d.mem.origin = "user"
              /\ auto.memory.origin = "user" => auto.memory.edit <= d.mem.edit
         /\ man.stage \in {"beginning", "begun", "asking", "answered"} /\ d.tag = man.before
              => d.mem.edit = man.edit

\* The inductive invariant of the memory.
MemoryInv == MemoryTyped /\ SectionAdds /\ StagesHold /\ TextInv /\ StatusInv /\ MarkInv
  /\ HumanInv

-----------------------------------------------------------------------------
(* The memory of the thread: what the helpers return.                      *)

\* projectThreadMemory and its counterpart give a memory without a text.
LEMMA MemoryProjection == \A d : IsProjection(Projection(d))
BY DEF IsProjection, IsMemory, Projection

\* A memory that is still the other, with at most its text.
KeepsMemory(m, n) ==
    /\ IsMemory(n) /\ n.origin = m.origin /\ n.edit = m.edit
    /\ n.covers \subseteq m.covers
    /\ Compacting(n) => Compacting(m)

\* mergeThreadMemoryProjection changes counts and status, never the text.
LEMMA MemoryMerged ==
    ASSUME NEW m, NEW p, IsMemory(m), IsProjection(p)
    PROVE  KeepsMemory(m, Merged(m, p))
<1>1. CASE m.origin = "automatic"
      BY <1>1 DEF Merged, KeepsMemory, IsProjection, IsMemory, Compacting
<1>2. CASE m.origin # "automatic"
  <2>1. Merged(m, p) = [m EXCEPT !.count = p.count,
            !.status = CASE m.status = "failed" -> "failed"
                         [] m.through = p.through -> m.status
                         [] OTHER -> "stale"]
        BY <1>2 DEF Merged
  <2>2. QED
        BY <1>2, <2>1 DEF KeepsMemory, IsMemory, Compacting
<1>3. QED
      BY <1>1, <1>2

\* The memory of an inference is of the messages it was given.
LEMMA MemoryInferred ==
    ASSUME NEW p, IsProjection(p), NEW c \in SUBSET Nat
    PROVE  /\ IsMemory(Inferred(p, c)) /\ Inferred(p, c).origin = "inference"
           /\ Inferred(p, c).covers = c /\ ~Compacting(Inferred(p, c))
BY DEF Inferred, IsProjection, IsMemory, Compacting

\* The result of an inference has at most the text of what it read, and of a Channel
\* none when a source is gone.
LEMMA MemoryResult ==
    ASSUME NEW u, NEW d, NEW next, IsUpdate(u, next)
    PROVE  LET r == Result(u, d) IN
           /\ IsMemory(r) /\ r.origin # "user" /\ ~Compacting(r)
                /\ r.covers \subseteq u.covers
           /\ scope = "channel" => r.covers = {} \/ ~Invalidated(u.source, d)
<1>1. CASE scope = "channel" /\ u.projection.count # 0 /\ Invalidated(u.source, d)
  <2>1. Result(u, d) = Projection(d)
        BY <1>1 DEF Result
  <2>2. QED
        BY <2>1, MemoryProjection DEF IsProjection, IsMemory, Compacting
<1>2. CASE scope = "channel" /\ u.projection.count = 0
  <2>1. Result(u, d) = Inferred(u.projection, {})
        BY <1>2 DEF Result
  <2>2. {} \in SUBSET Nat
        OBVIOUS
  <2>3. QED
        BY <2>1, <2>2, MemoryInferred DEF IsUpdate
<1>3. CASE scope # "channel" \/ (u.projection.count # 0 /\ ~Invalidated(u.source, d))
  <2>1. Result(u, d) = Inferred(u.projection, u.covers)
        BY <1>3 DEF Result
  <2>2. QED
        BY <1>3, <2>1, MemoryInferred DEF IsUpdate
<1>4. QED
      BY <1>1, <1>2, <1>3

\* A result brought up to the last message keeps its text.
LEMMA MemoryWithLatest ==
    ASSUME NEW u, NEW m, NEW d, IsMemory(m)
    PROVE  KeepsMemory(m, WithLatest(u, m, d))
BY MemoryProjection, MemoryMerged DEF WithLatest, KeepsMemory

\* Reconciling gives the memory of the document, when a person wrote it meanwhile, or the
\* result.
LEMMA MemoryReconcile ==
    ASSUME NEW u, NEW m, NEW d, IsMemory(m), IsMemory(d.mem), scope \in Scopes
    PROVE  LET r == Reconcile(u, m, d) IN
           \/ KeepsMemory(d.mem, r)
              /\ (scope = "channel" => d.tag # u.before /\ d.mem.origin = "user")
           \/ KeepsMemory(m, r) /\ ~(d.tag # u.before /\ d.mem.origin = "user")
              /\ (scope = "thread" => ~ThreadConflict(u, d))
<1>1. KeepsMemory(m, WithLatest(u, m, d))
      BY MemoryWithLatest
<1>2. KeepsMemory(d.mem, Merged(d.mem, Projection(d)))
      BY MemoryProjection, MemoryMerged
<1>3. QED
      BY <1>1, <1>2 DEF Reconcile, ThreadConflict, Scopes

\* An update that failed keeps the memory there is.
LEMMA MemoryUnmade ==
    ASSUME NEW d, IsMemory(d.mem)
    PROVE  /\ KeepsMemory(d.mem, Unmade(d))
           /\ Compacting(Unmade(d)) => scope = "thread" \/ d.mem.origin = "user"
<1>1. KeepsMemory(d.mem, Merged(d.mem, Projection(d)))
      BY MemoryProjection, MemoryMerged
<1>2. QED
      BY <1>1 DEF Unmade, KeepsMemory, IsMemory, Compacting

\* A new memory can be told from those that are still compared.
LEMMA MemoryFreshTag ==
    /\ FreshTag \in Tags
    /\ FreshTag \notin {doc.tag, previousState.tag, auto.before, man.before}
<1>1. \E t \in Tags : t \notin {doc.tag, previousState.tag, auto.before, man.before}
  <2>1. \A a, b, c, d : \E t \in {0, 1, 2, 3, 4} : t # a /\ t # b /\ t # c /\ t # d
        OBVIOUS
  <2>2. Tags = {0, 1, 2, 3, 4}
        BY DEF Tags
  <2>3. QED
        BY <2>1, <2>2
<1>2. QED
      BY <1>1 DEF FreshTag

\* Loading keeps a memory, and ends a compaction that a process death cut short.
LEMMA MemoryLoaded ==
    ASSUME NEW d, NEW next, IsDocument(d, next)
    PROVE  LET e == Loaded(d) IN
           /\ IsDocument(e, next) /\ KeepsMemory(d.mem, e.mem) /\ ~Compacting(e.mem)
           /\ e.msgs = d.msgs /\ e.deleted = d.deleted
<1> DEFINE m == [d.mem EXCEPT !.status = IF @ = "compacting" THEN "failed" ELSE @]
           n == IF scope = "channel" THEN Merged(m, Projection(d)) ELSE m
<1>1. KeepsMemory(d.mem, m) /\ ~Compacting(m)
      BY DEF IsDocument, KeepsMemory, IsMemory, Compacting
<1> HIDE DEF m
<1>2. KeepsMemory(m, Merged(m, Projection(d)))
      BY <1>1, MemoryProjection, MemoryMerged DEF KeepsMemory
<1>3. KeepsMemory(d.mem, n) /\ ~Compacting(n)
      BY <1>1, <1>2 DEF KeepsMemory
<1>4. Loaded(d) = [d EXCEPT !.mem = n]
      BY DEF Loaded, m
<1> HIDE DEF n
<1>5. QED
      BY <1>3, <1>4 DEF IsDocument, Messages, KeepsMemory

-----------------------------------------------------------------------------
(* The memory of the thread: people and replies change the document.       *)

\* The type of what the properties except.
ToldTyped == told \in [{"overtaken", "missed", "unsaved", "stuck", "behind", "restarted"} -> BOOLEAN]

\* A document of before with a new memory, or with one that was kept.
Retagged(d) ==
    \/ d.tag = doc.tag /\ d.mem = doc.mem
    \/ d.tag \in Tags /\ d.tag \notin {doc.tag, auto.before, man.before}

\* What a section of a person, or of a reply, does.
PersonSection ==
    /\ Free /\ section' \notin {"free", "mark", "save", "begin", "complete", "fail"}
    /\ previousState' = doc
         /\ UNCHANGED <<scope, saved, memoryLock, auto, dirty, man, runs>>
    /\ section' = "reply" => runs > 0
    /\ fresh' \in Nat /\ fresh' >= fresh
    /\ left' \in [Events -> Nat] /\ left'["edit"] <= left["edit"]
    /\ ToldTyped' /\ told'.stuck = told.stuck /\ told'.unsaved = told.unsaved
    /\ IsDocument(doc', fresh') /\ Retagged(doc')
    /\ Messages(doc) \subseteq Messages(doc')
    /\ \A n \in Messages(doc') : n \in Messages(doc) \/ n >= fresh
    /\ doc.deleted \subseteq doc'.deleted
    /\ ~told'.overtaken => ~told.overtaken /\ (doc'.deleted = doc.deleted \/ ~Checked)
    /\ Clean(doc.mem, doc) => Clean(doc'.mem, doc')
    /\ \/ KeepsMemory(doc.mem, doc'.mem)
       \/ IsProjection(doc'.mem) /\ doc.mem.origin # "user"
       \/ /\ doc'.mem.origin = "user" /\ ~Compacting(doc'.mem)
          /\ doc'.mem.edit = left["edit"] /\ left'["edit"] < left["edit"]

\* An event is one of those left; no other uses up an edit.
LEMMA MemorySpend ==
    ASSUME NEW e \in Events, left \in [Events -> Nat], Spend(e)
    PROVE  /\ left' \in [Events -> Nat] /\ left[e] > 0
           /\ left["edit"] \in Nat /\ left'["edit"] <= left["edit"]
           /\ e = "edit" => left'["edit"] < left["edit"]
BY DEF Spend, Events

\* A message that comes is new.
LEMMA MemoryAppended ==
    ASSUME NEW d, IsDocument(d, fresh), fresh \in Nat
    PROVE  LET e == [d EXCEPT !.msgs = Append(@, fresh)] IN
           /\ e.msgs \in Seq(Nat) /\ Messages(e) = Messages(d) \cup {fresh}
           /\ DOMAIN e = DOMAIN d /\ e.deleted = d.deleted /\ e.mem = d.mem /\ e.tag = d.tag
<1> DEFINE e == [d EXCEPT !.msgs = Append(@, fresh)]
<1>1. /\ DOMAIN e = DOMAIN d /\ e.deleted = d.deleted /\ e.mem = d.mem /\ e.tag = d.tag
      /\ e.msgs = Append(d.msgs, fresh)
      BY DEF IsDocument
<1>2. d.msgs \in Seq(Nat)
      BY DEF IsDocument
<1> HIDE DEF e
<1>3. e.msgs \in Seq(Nat) /\ DOMAIN e.msgs = 1..(Len(d.msgs) + 1)
        /\ DOMAIN d.msgs = 1..Len(d.msgs)
      /\ Len(d.msgs) \in Nat
      /\ \A i \in DOMAIN e.msgs : e.msgs[i] = IF i = Len(d.msgs) + 1 THEN fresh ELSE d.msgs[i]
      BY <1>1, <1>2
<1>4. Messages(e) \subseteq Messages(d) \cup {fresh}
      BY <1>3 DEF Messages
<1>5. Messages(d) \subseteq Messages(e)
      BY <1>3 DEF Messages
<1>6. fresh \in Messages(e)
      BY <1>3 DEF Messages
<1>7. QED
      BY <1>1, <1>3, <1>4, <1>5, <1>6 DEF e

\* A section that puts a memory into a document gives it a tag of its own.
LEMMA MemoryEnter ==
    ASSUME NEW name, NEW d, NEW next, NEW m, IsDocument(d, next), IsMemory(m),
           \A n \in m.covers : n < next,
           Enter(name, [d EXCEPT !.mem = m, !.tag = FreshTag])
    PROVE  /\ Free /\ section' = name /\ previousState' = doc
           /\ IsDocument(doc', next) /\ Messages(doc') = Messages(d)
           /\ doc'.deleted = d.deleted /\ doc'.mem = m /\ doc'.tag = FreshTag
           /\ Retagged(doc')
<1> DEFINE e == [d EXCEPT !.mem = m, !.tag = FreshTag]
<1>1. /\ IsDocument(e, next) /\ Messages(e) = Messages(d)
      /\ e.deleted = d.deleted /\ e.mem = m /\ e.tag = FreshTag
      BY MemoryFreshTag DEF IsDocument, Messages
<1>2. Free /\ section' = name /\ previousState' = doc /\ doc' = e
      BY DEF Enter
<1> HIDE DEF e
<1>3. Retagged(e)
      BY <1>1, MemoryFreshTag DEF Retagged
<1>4. QED
      BY <1>1, <1>2, <1>3

\* A memory that was not inferred has no text.
LEMMA MemoryNoText ==
    ASSUME NEW m, IsMemory(m), m.origin # "inference"
    PROVE  m.covers = {}
BY DEF IsMemory

\* A later message number bounds what an earlier one did.
LEMMA MemoryGrows ==
    ASSUME NEW a \in Nat, NEW b \in Nat, a <= b
    PROVE  /\ \A d : IsDocument(d, a) => IsDocument(d, b)
           /\ \A u : IsUpdate(u, a) => IsUpdate(u, b)
<1>1. ASSUME NEW d, IsDocument(d, a) PROVE IsDocument(d, b)
  <2>1. \A n \in Messages(d) \cup d.mem.covers : n < b
    <3>1. d.mem.covers \subseteq Nat /\ Messages(d) \subseteq Nat
          BY <1>1 DEF IsDocument, IsMemory, Messages
    <3>2. QED
          BY <1>1, <3>1 DEF IsDocument
  <2>2. QED
        BY <1>1, <2>1 DEF IsDocument
<1>2. ASSUME NEW u, IsUpdate(u, a) PROVE IsUpdate(u, b)
  <2>1. \A n \in u.covers \cup u.memory.covers : n < b
    <3>1. u.covers \subseteq Nat /\ u.memory.covers \subseteq Nat
          BY <1>2 DEF IsUpdate, IsMemory
    <3>2. QED
          BY <1>2, <3>1 DEF IsUpdate
  <2>2. QED
        BY <1>2, <2>1 DEF IsUpdate
<1>3. QED
      BY <1>1, <1>2

\* A message is accepted: its section only adds.
LEMMA MemoryAccept == MemoryInv /\ Accept => PersonSection
<1> SUFFICES ASSUME MemoryInv, Accept PROVE PersonSection
    OBVIOUS
<1> USE DEF MemoryInv, MemoryTyped
<1> DEFINE d == [doc EXCEPT !.msgs = Append(@, fresh)]
           m == Merged(d.mem, Projection(d))
<1>1. /\ Spend("accept") /\ Enter("accept", [d EXCEPT !.mem = m, !.tag = FreshTag])
      /\ fresh' = fresh + 1 /\ UNCHANGED <<scope, saved, updates, runs, told>>
  <2>1. [d EXCEPT !.mem = Merged(@, Projection(d)), !.tag = FreshTag]
          = [d EXCEPT !.mem = m, !.tag = FreshTag]
        OBVIOUS
  <2>2. QED
        BY <2>1 DEF Accept
<1>2. /\ d.msgs \in Seq(Nat) /\ Messages(d) = Messages(doc) \cup {fresh}
      /\ DOMAIN d = DOMAIN doc /\ d.deleted = doc.deleted /\ d.mem = doc.mem
           /\ d.tag = doc.tag
      BY MemoryAppended
<1> HIDE DEF d
<1>3. KeepsMemory(doc.mem, m)
      BY <1>2, MemoryProjection, MemoryMerged DEF IsDocument
<1> HIDE DEF m
<1>4. IsDocument(d, fresh + 1)
  <2>1. IsDocument(doc, fresh + 1)
        BY MemoryGrows
  <2>2. QED
        BY <1>2, <2>1 DEF IsDocument
<1>5. IsMemory(m) /\ \A n \in m.covers : n < fresh + 1
      BY <1>2, <1>3, <1>4 DEF KeepsMemory, IsDocument
<1>6. /\ Free /\ section' = "accept" /\ previousState' = doc
      /\ IsDocument(doc', fresh + 1) /\ Messages(doc') = Messages(d)
      /\ doc'.deleted = d.deleted /\ doc'.mem = m /\ Retagged(doc')
      BY <1>1, <1>4, <1>5, MemoryEnter
<1>7. left' \in [Events -> Nat] /\ left'["edit"] <= left["edit"]
      BY <1>1, MemorySpend DEF Events
<1>8. Clean(doc.mem, doc) => Clean(m, doc')
      BY <1>2, <1>3, <1>6 DEF Clean, KeepsMemory
<1>9. IsDocument(doc', fresh') /\ fresh' \in Nat /\ fresh' >= fresh
      BY <1>1, <1>6
<1>10. QED
       BY <1>1, <1>2, <1>3, <1>6, <1>7, <1>8, <1>9 DEF PersonSection, updates, ToldTyped

\* A reply is recorded: its section only adds.
LEMMA MemoryReply == MemoryInv /\ Reply => PersonSection
<1> SUFFICES ASSUME MemoryInv, Reply PROVE PersonSection
    OBVIOUS
<1> USE DEF MemoryInv, MemoryTyped
<1> DEFINE d == [doc EXCEPT !.msgs = Append(@, fresh)]
           m == Merged(d.mem, Projection(d))
           e == IF scope = "channel" THEN d ELSE [d EXCEPT !.mem = m, !.tag = FreshTag]
<1>1. /\ Spend("reply") /\ Enter("reply", e) /\ runs > 0
      /\ fresh' = fresh + 1 /\ UNCHANGED <<scope, saved, updates, runs, told>>
  <2>1. [d EXCEPT !.mem = Merged(@, Projection(d)), !.tag = FreshTag]
          = [d EXCEPT !.mem = m, !.tag = FreshTag]
        OBVIOUS
  <2>2. QED
        BY <2>1 DEF Reply
<1>2. /\ d.msgs \in Seq(Nat) /\ Messages(d) = Messages(doc) \cup {fresh}
      /\ DOMAIN d = DOMAIN doc /\ d.deleted = doc.deleted /\ d.mem = doc.mem
           /\ d.tag = doc.tag
      BY MemoryAppended
<1> HIDE DEF d
<1>3. KeepsMemory(doc.mem, m)
      BY <1>2, MemoryProjection, MemoryMerged DEF IsDocument
<1> HIDE DEF m
<1>4. IsDocument(d, fresh + 1)
  <2>1. IsDocument(doc, fresh + 1)
        BY MemoryGrows
  <2>2. QED
        BY <1>2, <2>1 DEF IsDocument
<1>5. IsMemory(m) /\ \A n \in m.covers : n < fresh + 1
      BY <1>2, <1>3, <1>4 DEF KeepsMemory, IsDocument
<1>6. /\ Free /\ section' = "reply" /\ previousState' = doc
      /\ IsDocument(doc', fresh + 1) /\ Messages(doc') = Messages(d)
      /\ doc'.deleted = d.deleted /\ Retagged(doc') /\ doc'.mem \in {m, doc.mem}
  <2>1. CASE scope = "channel"
    <3>1. Free /\ section' = "reply" /\ previousState' = doc /\ doc' = d
          BY <1>1, <2>1 DEF Enter
    <3>2. Retagged(d)
          BY <1>2 DEF Retagged
    <3>3. QED
          BY <1>2, <1>4, <3>1, <3>2
  <2>2. CASE scope # "channel"
    <3>1. Enter("reply", [d EXCEPT !.mem = m, !.tag = FreshTag])
          BY <1>1, <2>2
    <3> HIDE DEF e
    <3>2. /\ Free /\ section' = "reply" /\ previousState' = doc
          /\ IsDocument(doc', fresh + 1) /\ Messages(doc') = Messages(d)
          /\ doc'.deleted = d.deleted /\ doc'.mem = m /\ Retagged(doc')
          BY <1>4, <1>5, <3>1, MemoryEnter
    <3>3. QED
          BY <3>2
  <2>3. QED
        BY <2>1, <2>2
<1> HIDE DEF e
<1>7. left' \in [Events -> Nat] /\ left'["edit"] <= left["edit"]
      BY <1>1, MemorySpend DEF Events
<1>8. KeepsMemory(doc.mem, doc'.mem)
      BY <1>3, <1>6 DEF KeepsMemory, IsDocument
<1>9. Clean(doc.mem, doc) => Clean(doc'.mem, doc')
      BY <1>2, <1>6, <1>8 DEF Clean, KeepsMemory
<1>10. IsDocument(doc', fresh') /\ fresh' \in Nat /\ fresh' >= fresh
       BY <1>1, <1>6
<1>11. QED
       BY <1>1, <1>2, <1>6, <1>7, <1>8, <1>9, <1>10 DEF PersonSection, updates, ToldTyped

\* A message is deleted: a text that was inferred from it goes in the same section.
LEMMA MemoryDelete == MemoryInv /\ Delete => PersonSection
<1> SUFFICES ASSUME MemoryInv, Delete PROVE PersonSection
    OBVIOUS
<1> USE DEF MemoryInv, MemoryTyped
<1>1. PICK x \in LiveSet(doc) : Enter("delete", Deleted(x))
      BY DEF Delete
<1>2. /\ Spend("delete") /\ told' = [told EXCEPT !.overtaken = @ \/ Checked]
      /\ UNCHANGED <<scope, saved, updates, runs, fresh>>
      BY DEF Delete
<1> DEFINE d == [doc EXCEPT !.deleted = @ \cup {x}]
           m == IF d.mem.origin = "user" THEN Merged(d.mem, Projection(d)) ELSE Projection(d)
<1>3. doc' = [d EXCEPT !.mem = m, !.tag = FreshTag]
      BY <1>1 DEF Deleted, Enter
<1>4. /\ DOMAIN d = DOMAIN doc /\ d.msgs = doc.msgs /\ d.deleted = doc.deleted \cup {x}
      /\ d.mem = doc.mem /\ d.tag = doc.tag
      BY DEF IsDocument
<1>5. x \in Messages(doc)
      BY DEF LiveSet, Messages
<1> HIDE DEF d
<1>6. IsDocument(d, fresh)
      BY <1>4, <1>5 DEF IsDocument, Messages
<1>7. /\ doc.mem.origin = "user" => KeepsMemory(doc.mem, m)
      /\ doc.mem.origin # "user" => IsProjection(m)
      BY <1>4, <1>6, MemoryProjection, MemoryMerged DEF IsDocument
<1> HIDE DEF m
<1>8. IsMemory(m) /\ m.covers = {}
      BY <1>7, MemoryNoText DEF KeepsMemory, IsProjection
<1>9. /\ Free /\ section' = "delete" /\ previousState' = doc
      /\ IsDocument(doc', fresh) /\ Messages(doc') = Messages(d)
      /\ doc'.deleted = d.deleted /\ doc'.mem = m /\ Retagged(doc')
  <2>1. Enter("delete", [d EXCEPT !.mem = m, !.tag = FreshTag])
        BY <1>1, <1>3 DEF Enter
  <2>2. QED
        BY <1>6, <1>8, <2>1, MemoryEnter
<1>10. left' \in [Events -> Nat] /\ left'["edit"] <= left["edit"]
       BY <1>2, MemorySpend DEF Events
<1>11. Clean(m, doc')
       BY <1>8 DEF Clean
<1>12. ToldTyped' /\ told'.stuck = told.stuck /\ told'.unsaved = told.unsaved
       /\ (~told'.overtaken => ~told.overtaken /\ ~Checked)
  <2>1. Checked \in BOOLEAN
        BY DEF Checked
  <2>2. QED
        BY <1>2, <2>1 DEF ToldTyped
<1>13. UNCHANGED <<scope, saved, memoryLock, auto, dirty, man, runs, fresh>>
       BY <1>2 DEF updates
<1>14. Messages(doc') = Messages(doc)
       BY <1>4, <1>9 DEF Messages
<1>15. \/ KeepsMemory(doc.mem, doc'.mem)
       \/ IsProjection(doc'.mem) /\ doc.mem.origin # "user"
       BY <1>7, <1>9
<1>16. IsDocument(doc', fresh') /\ fresh' \in Nat /\ fresh' >= fresh
       BY <1>9, <1>13
<1>17. QED
       BY <1>4, <1>9, <1>10, <1>11, <1>12, <1>13, <1>14, <1>15, <1>16 DEF PersonSection

\* A person writes the memory: the edit has a number below all others.
LEMMA MemoryEdit == MemoryInv /\ EditMemory => PersonSection
<1> SUFFICES ASSUME MemoryInv, EditMemory PROVE PersonSection
    OBVIOUS
<1> USE DEF MemoryInv, MemoryTyped
<1> DEFINE m == [Projection(doc) EXCEPT !.origin = "user", !.status = "current",
                                         !.edit = left["edit"]]
<1>1. /\ Spend("edit") /\ Enter("edit", [doc EXCEPT !.mem = m, !.tag = FreshTag])
      /\ UNCHANGED <<scope, saved, memoryLock, auto, dirty, man, runs, fresh, told>>
      BY DEF EditMemory, With, updates
<1>2. /\ left' \in [Events -> Nat] /\ left["edit"] \in Nat /\ left["edit"] > 0
      /\ left'["edit"] < left["edit"] /\ left'["edit"] <= left["edit"]
      BY <1>1, MemorySpend DEF Events
<1>3. /\ IsMemory(m) /\ m.covers = {} /\ m.origin = "user" /\ ~Compacting(m)
      /\ m.edit = left["edit"]
  <2>1. IsProjection(Projection(doc)) /\ Projection(doc).covers = {}
        BY MemoryProjection, MemoryNoText DEF IsProjection
  <2>2. QED
        BY <1>2, <2>1 DEF IsMemory, IsProjection, Compacting
<1> HIDE DEF m
<1>4. IsDocument(doc, fresh) /\ \A n \in m.covers : n < fresh
      BY <1>3
<1>5. Enter("edit", [doc EXCEPT !.mem = m, !.tag = FreshTag])
      BY <1>1
<1>6. /\ Free /\ section' = "edit" /\ previousState' = doc
      /\ IsDocument(doc', fresh) /\ Messages(doc') = Messages(doc)
      /\ doc'.deleted = doc.deleted /\ doc'.mem = m /\ Retagged(doc')
  <2> HIDE DEF MemoryInv, MemoryTyped
  <2>1. QED
        BY <1>3, <1>4, <1>5, MemoryEnter
<1>7. Clean(m, doc')
      BY <1>3 DEF Clean
<1>8. IsDocument(doc', fresh') /\ fresh' \in Nat /\ fresh' >= fresh
      BY <1>1, <1>6
<1>9. QED
      BY <1>1, <1>2, <1>3, <1>6, <1>7, <1>8 DEF PersonSection, ToldTyped

\* Evidence is changed: a text that was inferred goes.
LEMMA MemoryEvidence == MemoryInv /\ ChangeEvidence => PersonSection
<1> SUFFICES ASSUME MemoryInv, ChangeEvidence PROVE PersonSection
    OBVIOUS
<1> USE DEF MemoryInv, MemoryTyped
<1> DEFINE d == [doc EXCEPT !.evidence = @ + 1]
           m == IF d.mem.origin = "user" THEN [d.mem EXCEPT !.status = "stale"]
                ELSE Projection(d)
<1>1. /\ Spend("evidence") /\ Enter("evidence", [d EXCEPT !.mem = m, !.tag = FreshTag])
      /\ UNCHANGED <<scope, saved, memoryLock, auto, dirty, man, runs, fresh, told>>
      BY DEF ChangeEvidence, updates
<1>2. /\ DOMAIN d = DOMAIN doc /\ d.msgs = doc.msgs /\ d.deleted = doc.deleted
      /\ d.mem = doc.mem /\ d.tag = doc.tag
      BY DEF IsDocument
<1> HIDE DEF d
<1>3. IsDocument(d, fresh) /\ Messages(d) = Messages(doc)
      BY <1>2 DEF IsDocument, Messages
<1>4. /\ doc.mem.origin = "user" => KeepsMemory(doc.mem, m)
      /\ doc.mem.origin # "user" => IsProjection(m)
      BY <1>2, <1>3, MemoryProjection DEF IsDocument, KeepsMemory, IsMemory, Compacting
<1> HIDE DEF m
<1>5. IsMemory(m) /\ m.covers = {}
      BY <1>4, MemoryNoText DEF KeepsMemory, IsProjection
<1>6. /\ Free /\ section' = "evidence" /\ previousState' = doc
      /\ IsDocument(doc', fresh) /\ Messages(doc') = Messages(d)
      /\ doc'.deleted = d.deleted /\ doc'.mem = m /\ Retagged(doc')
      BY <1>1, <1>3, <1>5, MemoryEnter
<1>7. left' \in [Events -> Nat] /\ left'["edit"] <= left["edit"]
      BY <1>1, MemorySpend DEF Events
<1>8. Clean(m, doc')
      BY <1>5 DEF Clean
<1>9. IsDocument(doc', fresh') /\ fresh' \in Nat /\ fresh' >= fresh
      BY <1>1, <1>6
<1>10. \/ KeepsMemory(doc.mem, doc'.mem)
       \/ IsProjection(doc'.mem) /\ doc.mem.origin # "user"
       BY <1>4, <1>6
<1>11. QED
       BY <1>1, <1>2, <1>3, <1>6, <1>7, <1>8, <1>9, <1>10 DEF PersonSection, ToldTyped

\* A message that comes after an inference has read is none of its sources.
LEMMA MemoryUnread ==
    ASSUME NEW u, IsUpdate(u, fresh), Noticed(u), fresh \in Nat,
           Messages(doc) \subseteq Messages(doc'),
           \A n \in Messages(doc') : n \in Messages(doc) \/ n >= fresh
    PROVE  \A n \in u.covers : n \in u.source.live \/ n \notin Messages(doc')
<1>1. \A n \in u.covers : n \in Nat /\ n < fresh
      BY DEF IsUpdate
<1>2. QED
      BY <1>1 DEF Noticed

\* A section of a person or of a reply keeps the invariant, whatever the two updates are
\* in the middle of.
LEMMA PersonKeeps == MemoryInv /\ PersonSection => MemoryInv'
<1> SUFFICES ASSUME MemoryInv, PersonSection PROVE MemoryInv'
    OBVIOUS
<1> USE DEF MemoryInv
<1>1. UNCHANGED <<scope, saved, memoryLock, auto, dirty, man, runs>>
      BY DEF PersonSection
<1>2. fresh \in Nat /\ fresh' \in Nat /\ fresh' >= fresh
      BY DEF PersonSection, MemoryTyped
<1>3. MemoryTyped'
  <2>1. IsDocument(saved, fresh') /\ IsUpdate(auto, fresh') /\ IsUpdate(man, fresh')
        BY <1>2, MemoryGrows DEF MemoryTyped
  <2>2. QED
        BY <1>1, <1>2, <2>1 DEF MemoryTyped, PersonSection, ToldTyped
<1>4. SectionAdds'
  <2>1. doc = saved /\ section' # "free" /\ previousState' = doc
        BY DEF PersonSection, SectionAdds
  <2>2. doc'.tag = doc.tag => doc'.mem = doc.mem
        BY DEF PersonSection, Retagged
  <2>3. QED
        BY <1>1, <2>1, <2>2 DEF SectionAdds, PersonSection, Free, Messages
<1>5. StagesHold'
      BY <1>1 DEF StagesHold, PersonSection, Free
<1>6. TextInv'
  <2> SUFFICES ASSUME ~told'.overtaken
               PROVE  TextInv'
      BY DEF TextInv
  <2>1. ~told.overtaken /\ (doc'.deleted = doc.deleted \/ ~Checked)
        BY DEF PersonSection
  <2>2. Clean(doc'.mem, doc') /\ Clean(saved.mem, saved)
        BY <2>1 DEF TextInv, PersonSection
  <2>3. auto.stage \in {"mark", "save"} => Clean(auto.memory, doc')
        BY <2>1 DEF TextInv, Checked, Clean
  <2>4. auto.stage = "asking" => \A n \in auto.covers : n \in auto.source.live
          \/ n \notin Messages(doc')
        BY <1>2, <2>1, MemoryUnread DEF TextInv, PersonSection, MemoryTyped
  <2>5. man.stage \in {"asking", "answered"} =>
           \A n \in man.covers : n \in man.source.live \/ n \notin Messages(doc')
        BY <1>2, <2>1, MemoryUnread DEF TextInv, PersonSection, MemoryTyped
  <2>6. man.stage = "answered" /\ scope = "channel" => Clean(man.memory, doc')
        BY <2>1 DEF TextInv, Checked, Clean
  <2>7. man.stage = "answered"
          /\ scope # "channel" => man.memory.covers \subseteq man.covers
        BY <2>1 DEF TextInv
  <2>8. QED
        BY <1>1, <2>2, <2>3, <2>4, <2>5, <2>6, <2>7 DEF TextInv, Clean, Noticed, Messages
<1>7. Compacting(doc'.mem) => Compacting(doc.mem)
        /\ (doc'.mem.origin = "user" => doc.mem.origin = "user")
      BY DEF PersonSection, KeepsMemory, IsProjection, Compacting
<1>8. StatusInv'
      BY <1>1, <1>7 DEF StatusInv, NoneCompacting, PersonSection, Compacting, SectionAdds
<1>9. MarkInv'
      BY <1>1 DEF MarkInv
<1>10. HumanInv'
  <2>1. doc = saved
        BY DEF PersonSection, SectionAdds
  <2>2. \A m \in {doc.mem, saved.mem, auto.memory} : m.origin = "user"
          => m.edit > left'["edit"]
        /\ m.edit \in Nat /\ left["edit"] \in Nat /\ left'["edit"] \in Nat
    <3>1. left["edit"] \in Nat /\ left'["edit"] \in Nat /\ left'["edit"] <= left["edit"]
          BY DEF PersonSection, MemoryTyped, Events
    <3>2. \A m \in {doc.mem, saved.mem, auto.memory} : m.edit \in Nat
          BY DEF MemoryTyped, IsDocument, IsUpdate, IsMemory
    <3>3. \A m \in {doc.mem, saved.mem, auto.memory} : m.origin = "user"
            => m.edit > left["edit"]
          BY DEF HumanInv
    <3>4. QED
          BY <3>1, <3>2, <3>3
  <2>3. doc'.mem.origin = "user" => doc'.mem.edit > left'["edit"]
        BY <2>2 DEF PersonSection, KeepsMemory, IsProjection
  <2>4. saved.mem.origin = "user" => doc'.mem.origin = "user"
          /\ doc'.mem.edit <= saved.mem.edit
    <3>1. saved.mem.origin = "user" => saved.mem.edit > left["edit"]
            /\ saved.mem.edit \in Nat
          BY <2>2 DEF HumanInv
    <3>2. QED
          BY <2>1, <2>2, <3>1 DEF PersonSection, KeepsMemory
  <2>5. ASSUME NEW t \in {auto.before, man.before}, doc'.tag = t
        PROVE  doc'.mem = doc.mem /\ doc.tag = t
        BY <2>5 DEF PersonSection, Retagged
  <2>6. QED
        BY <1>1, <2>1, <2>2, <2>3, <2>4, <2>5 DEF HumanInv
<1>11. QED
       BY <1>3, <1>4, <1>5, <1>6, <1>8, <1>9, <1>10

-----------------------------------------------------------------------------
(* The memory of the thread: steps that change no document.                *)

\* What inference reads is of messages that are known.
LEMMA MemoryPrompt ==
    ASSUME IsDocument(doc, fresh), fresh \in Nat
    PROVE  /\ Prompt(doc) \in SUBSET Nat /\ \A n \in Prompt(doc) : n < fresh
           /\ Source(doc).live = LiveSet(doc)
           /\ Clean(doc.mem, doc) =>
                \A n \in Prompt(doc) : n \in LiveSet(doc) \/ n \notin Messages(doc)
<1>1. doc.mem.covers \subseteq Nat /\ Messages(doc) \subseteq Nat
      BY DEF IsDocument, IsMemory, Messages
<1>2. LiveSet(doc) = Messages(doc) \ doc.deleted
      BY DEF LiveSet, Messages
<1>3. QED
      BY <1>1, <1>2 DEF Prompt, Source, IsDocument, Clean

\* An update that has not begun.
LEMMA MemoryIdle ==
    ASSUME NEW next
    PROVE  IsUpdate(Idle, next) /\ Idle.stage = "none" /\ Idle.memory.origin = "automatic"
BY DEF IsUpdate, IsProjection, IsMemory, Idle, NoMemory, Tags

\* Whether something is left behind is true or false.
LEMMA MemoryLeaves == \A d : LeavesBehind(d) \in BOOLEAN
BY DEF LeavesBehind, Behind

\* RunEnds and RunEndsUnasked keep the invariant.
LEMMA RunEndsKeeps == MemoryInv /\ (RunEnds \/ RunEndsUnasked) => MemoryInv'
<1> SUFFICES ASSUME MemoryInv, RunEnds \/ RunEndsUnasked PROVE MemoryInv'
    OBVIOUS
<1> USE DEF MemoryInv
<1>1. /\ UNCHANGED <<scope, doc, saved, previousState, section, memoryLock, man, fresh, left>>
      /\ runs > (IF section = "reply" THEN 1 ELSE 0) /\ runs' = runs - 1
           /\ dirty' \in BOOLEAN
      /\ \E missed, behind \in BOOLEAN : told' = [told EXCEPT !.missed = missed,
                                                            !.behind = behind]
      /\ auto' = auto \/ (auto.stage = "none" /\ auto' = [Idle EXCEPT !.stage = "wait"])
  <2>1. CASE RunEnds
    <3>1. /\ (told.missed \/ auto.stage = "ending") \in BOOLEAN
          /\ (told.behind /\ auto.stage = "ending") \in BOOLEAN
          OBVIOUS
    <3>2. QED
          BY <2>1, <3>1 DEF RunEnds, OneRunLess, MemoryTyped
  <2>2. CASE RunEndsUnasked
    <3>1. /\ told.missed \in BOOLEAN
          /\ (told.behind \/ LeavesBehind(doc) \/ LeavesBehind(previousState)) \in BOOLEAN
          BY MemoryLeaves DEF MemoryTyped
    <3>2. told' = [told EXCEPT !.missed = told.missed,
                               !.behind = told.behind \/ LeavesBehind(doc)
                                                      \/ LeavesBehind(previousState)]
          BY <2>2 DEF RunEndsUnasked, MemoryTyped
    <3>3. QED
          BY <2>2, <3>1, <3>2 DEF RunEndsUnasked, OneRunLess, updates, MemoryTyped
  <2>3. QED
        BY <2>1, <2>2
<1>2. /\ left' \in [Events -> Nat] /\ left["edit"] \in Nat /\ left'["edit"] \in Nat
      /\ left'["edit"] <= left["edit"]
      BY <1>1 DEF Events, MemoryTyped
<1>3. auto' = auto
        \/ (/\ auto'.stage \in {"wait", "ending", "none"} /\ IsUpdate(auto', fresh)
                      /\ auto'.memory.origin = "automatic")
      BY <1>1 DEF IsUpdate, IsProjection, IsMemory, Idle, NoMemory, Tags
<1>4. \A m \in {doc.mem, saved.mem, auto.memory} : m.origin = "user"
        => m.edit > left'["edit"]
      BY <1>2 DEF HumanInv, MemoryTyped, IsDocument, IsUpdate, IsMemory
<1>5. told' \in [{"overtaken", "missed", "unsaved", "stuck", "behind", "restarted"} -> BOOLEAN]
      BY <1>1 DEF MemoryTyped
<1>6. MemoryTyped'
      BY <1>1, <1>3, <1>5 DEF MemoryTyped
<1>7. SectionAdds'
      BY <1>1 DEF SectionAdds, Free
<1>8. StagesHold'
      BY <1>1 DEF StagesHold, MemoryTyped, Idle
<1>9. TextInv'
      BY <1>1 DEF TextInv, Noticed, Idle
<1>10. StatusInv'
       BY <1>1 DEF StatusInv, NoneCompacting, Idle
<1>11. MarkInv'
       BY <1>1 DEF MarkInv, Idle
<1>12. HumanInv'
       BY <1>1, <1>3, <1>4 DEF HumanInv, StagesHold, MemoryTyped, IsUpdate, IsDocument,
              IsMemory
<1>13. QED
       BY <1>6, <1>7, <1>8, <1>9, <1>10, <1>11, <1>12

\* Compact keeps the invariant.
LEMMA CompactKeeps == MemoryInv /\ Compact => MemoryInv'
<1> SUFFICES ASSUME MemoryInv, Compact PROVE MemoryInv'
    OBVIOUS
<1> USE DEF MemoryInv
<1>1. /\ UNCHANGED <<scope, doc, saved, previousState, section, memoryLock, auto, dirty, runs,
                      fresh, told>>
      /\ man.stage = "none" /\ Spend("compact") /\ man' = [Idle EXCEPT !.stage = "wait"]
      BY DEF Compact
<1>2. /\ left' \in [Events -> Nat] /\ left["edit"] \in Nat /\ left'["edit"] \in Nat
      /\ left'["edit"] <= left["edit"]
      BY <1>1, MemorySpend DEF Events, MemoryTyped
<1>3. man' = man \/ (/\ man'.stage \in {"wait", "ending", "none"} /\ IsUpdate(man', fresh)
                      /\ man'.memory.origin = "automatic")
      BY <1>1 DEF IsUpdate, IsProjection, IsMemory, Idle, NoMemory, Tags
<1>4. \A m \in {doc.mem, saved.mem, auto.memory} : m.origin = "user"
        => m.edit > left'["edit"]
      BY <1>2 DEF HumanInv, MemoryTyped, IsDocument, IsUpdate, IsMemory
<1>5. told' \in [{"overtaken", "missed", "unsaved", "stuck", "behind", "restarted"} -> BOOLEAN]
      BY <1>1 DEF MemoryTyped
<1>6. MemoryTyped'
      BY <1>1, <1>2, <1>3, <1>5, MemoryPrompt DEF MemoryTyped, StagesHold, IsUpdate, Events
<1>7. SectionAdds'
      BY <1>1 DEF SectionAdds, Free
<1>8. StagesHold'
      BY <1>1 DEF StagesHold
<1>9. TextInv'
      BY <1>1 DEF TextInv, Noticed
<1>10. StatusInv'
       BY <1>1 DEF StatusInv, NoneCompacting
<1>11. MarkInv'
       BY <1>1 DEF MarkInv, Idle, NoMemory
<1>12. HumanInv'
       BY <1>1, <1>4 DEF HumanInv, StagesHold
<1>13. QED
       BY <1>6, <1>7, <1>8, <1>9, <1>10, <1>11, <1>12

\* ManLocks keeps the invariant.
LEMMA ManLocksKeeps == MemoryInv /\ ManLocks => MemoryInv'
<1> SUFFICES ASSUME MemoryInv, ManLocks PROVE MemoryInv'
    OBVIOUS
<1> USE DEF MemoryInv
<1>1. /\ UNCHANGED <<scope, doc, saved, previousState, section, runs, fresh, told, left, auto,
                      dirty>>
      /\ man.stage = "wait" /\ memoryLock = "nobody" /\ memoryLock' = "man"
      /\ man' = [man EXCEPT !.stage = "begin"]
      BY DEF ManLocks, host
<1>2. MemoryTyped'
      BY <1>1 DEF MemoryTyped, IsUpdate
<1>3. SectionAdds'
      BY <1>1 DEF SectionAdds, Free
<1>4. StagesHold'
      BY <1>1 DEF StagesHold
<1>5. TextInv'
      BY <1>1 DEF TextInv, StagesHold
<1>6. StatusInv'
      BY <1>1 DEF StatusInv, NoneCompacting
<1>7. MarkInv'
      BY <1>1 DEF MarkInv
<1>8. HumanInv'
      BY <1>1 DEF HumanInv
<1>9. QED
      BY <1>2, <1>3, <1>4, <1>5, <1>6, <1>7, <1>8

\* AutoAsks keeps the invariant: the prompt holds no deleted message.
LEMMA AutoAsksKeeps == MemoryInv /\ AutoAsks => MemoryInv'
<1> SUFFICES ASSUME MemoryInv, AutoAsks PROVE MemoryInv'
    OBVIOUS
<1> USE DEF MemoryInv
<1>1. /\ UNCHANGED <<scope, doc, saved, previousState, section, runs, fresh, told, left, man,
                      memoryLock, dirty>>
      /\ auto.stage = "marked"
      /\ auto' = [auto EXCEPT !.stage = "asking", !.source = Source(doc), !.covers = Prompt(doc)]
      BY DEF AutoAsks, host
<1>2. MemoryTyped'
      BY <1>1, MemoryPrompt DEF MemoryTyped, IsUpdate
<1>3. SectionAdds'
      BY <1>1 DEF SectionAdds, Free
<1>4. StagesHold'
      BY <1>1 DEF StagesHold
<1>5. TextInv'
      BY <1>1, MemoryPrompt DEF TextInv, Noticed, MemoryTyped
<1>6. StatusInv'
      BY <1>1 DEF StatusInv, MarkInv, StagesHold
<1>7. MarkInv'
      BY <1>1 DEF MarkInv
<1>8. HumanInv'
      BY <1>1 DEF HumanInv
<1>9. QED
      BY <1>2, <1>3, <1>4, <1>5, <1>6, <1>7, <1>8

\* ManAsks keeps the invariant: the prompt holds no deleted message.
LEMMA ManAsksKeeps == MemoryInv /\ ManAsks => MemoryInv'
<1> SUFFICES ASSUME MemoryInv, ManAsks PROVE MemoryInv'
    OBVIOUS
<1> USE DEF MemoryInv
<1>1. /\ UNCHANGED <<scope, doc, saved, previousState, section, runs, fresh, told, left, auto,
                      memoryLock, dirty>>
      /\ man.stage = "begun"
      /\ man' = [man EXCEPT !.stage = "asking", !.source = Source(doc), !.covers = Prompt(doc)]
      BY DEF ManAsks, host
<1>2. MemoryTyped'
      BY <1>1, MemoryPrompt DEF MemoryTyped, IsUpdate
<1>3. SectionAdds'
      BY <1>1 DEF SectionAdds, Free
<1>4. StagesHold'
      BY <1>1 DEF StagesHold
<1>5. TextInv'
      BY <1>1, MemoryPrompt DEF TextInv, Noticed, MemoryTyped
<1>6. StatusInv'
      BY <1>1 DEF StatusInv, StagesHold
<1>7. MarkInv'
      BY <1>1 DEF MarkInv
<1>8. HumanInv'
      BY <1>1 DEF HumanInv
<1>9. QED
      BY <1>2, <1>3, <1>4, <1>5, <1>6, <1>7, <1>8

\* ManFails keeps the invariant.
LEMMA ManFailsKeeps == MemoryInv /\ ManFails => MemoryInv'
<1> SUFFICES ASSUME MemoryInv, ManFails PROVE MemoryInv'
    OBVIOUS
<1> USE DEF MemoryInv
<1>1. /\ UNCHANGED <<scope, doc, saved, previousState, section, memoryLock, auto, dirty, runs,
                      fresh, told>>
      /\ man.stage = "asking" /\ Spend("fails") /\ man' = [man EXCEPT !.stage = "failing"]
      BY DEF ManFails
<1>2. /\ left' \in [Events -> Nat] /\ left["edit"] \in Nat /\ left'["edit"] \in Nat
      /\ left'["edit"] <= left["edit"]
      BY <1>1, MemorySpend DEF Events, MemoryTyped
<1>3. \A m \in {doc.mem, saved.mem, auto.memory} : m.origin = "user"
        => m.edit > left'["edit"]
      BY <1>2 DEF HumanInv, MemoryTyped, IsDocument, IsUpdate, IsMemory
<1>4. MemoryTyped'
      BY <1>1, <1>2 DEF MemoryTyped, IsUpdate
<1>5. SectionAdds'
      BY <1>1 DEF SectionAdds, Free
<1>6. StagesHold'
      BY <1>1 DEF StagesHold
<1>7. TextInv'
      BY <1>1 DEF TextInv, StagesHold
<1>8. StatusInv'
      BY <1>1 DEF StatusInv, StagesHold
<1>9. MarkInv'
      BY <1>1 DEF MarkInv
<1>10. HumanInv'
       BY <1>1, <1>3 DEF HumanInv
<1>11. QED
       BY <1>4, <1>5, <1>6, <1>7, <1>8, <1>9, <1>10

\* AutoNext keeps the invariant.
LEMMA AutoNextKeeps == MemoryInv /\ AutoNext => MemoryInv'
<1> SUFFICES ASSUME MemoryInv, AutoNext PROVE MemoryInv'
    OBVIOUS
<1> USE DEF MemoryInv
<1>1. /\ UNCHANGED <<scope, doc, saved, previousState, section, runs, fresh, told, left, man>>
      /\ auto.stage = "next" /\ memoryLock' = "nobody" /\ dirty' = FALSE
      /\ auto' \in {[Idle EXCEPT !.stage = "wait"], [Idle EXCEPT !.stage = "ending"]}
      BY DEF AutoNext, host
<1>2. /\ left' \in [Events -> Nat] /\ left["edit"] \in Nat /\ left'["edit"] \in Nat
      /\ left'["edit"] <= left["edit"]
      BY <1>1 DEF Events, MemoryTyped
<1>3. auto' = auto
        \/ (/\ auto'.stage \in {"wait", "ending", "none"} /\ IsUpdate(auto', fresh)
                      /\ auto'.memory.origin = "automatic")
      BY <1>1 DEF IsUpdate, IsProjection, IsMemory, Idle, NoMemory, Tags
<1>4. \A m \in {doc.mem, saved.mem, auto.memory} : m.origin = "user"
        => m.edit > left'["edit"]
      BY <1>2 DEF HumanInv, MemoryTyped, IsDocument, IsUpdate, IsMemory
<1>5. told' \in [{"overtaken", "missed", "unsaved", "stuck", "behind", "restarted"} -> BOOLEAN]
      BY <1>1 DEF MemoryTyped
<1>6. MemoryTyped'
      BY <1>1, <1>2, <1>3, <1>5, MemoryPrompt DEF MemoryTyped, StagesHold, IsUpdate, Events
<1>7. SectionAdds'
      BY <1>1 DEF SectionAdds, Free
<1>8. StagesHold'
      BY <1>1 DEF StagesHold, Idle
<1>9. TextInv'
      BY <1>1 DEF TextInv, StagesHold, Idle
<1>10. StatusInv'
       BY <1>1 DEF StatusInv, NoneCompacting, Idle
<1>11. MarkInv'
       BY <1>1 DEF MarkInv, Idle
<1>12. HumanInv'
       BY <1>1, <1>3, <1>4 DEF HumanInv, StagesHold, MemoryTyped, IsUpdate, IsDocument,
              IsMemory
<1>13. QED
       BY <1>6, <1>7, <1>8, <1>9, <1>10, <1>11, <1>12

\* AutoEnds keeps the invariant.
LEMMA AutoEndsKeeps == MemoryInv /\ AutoEnds => MemoryInv'
<1> SUFFICES ASSUME MemoryInv, AutoEnds PROVE MemoryInv'
    OBVIOUS
<1> USE DEF MemoryInv
<1>1. /\ UNCHANGED <<scope, doc, saved, previousState, section, runs, fresh, told, left, man,
                      memoryLock>>
      /\ auto.stage = "ending" /\ auto' = Idle /\ dirty' = FALSE
      BY DEF AutoEnds, host
<1>2. /\ left' \in [Events -> Nat] /\ left["edit"] \in Nat /\ left'["edit"] \in Nat
      /\ left'["edit"] <= left["edit"]
      BY <1>1 DEF Events, MemoryTyped
<1>3. auto' = auto
        \/ (/\ auto'.stage \in {"wait", "ending", "none"} /\ IsUpdate(auto', fresh)
                      /\ auto'.memory.origin = "automatic")
      BY <1>1 DEF IsUpdate, IsProjection, IsMemory, Idle, NoMemory, Tags
<1>4. told' \in [{"overtaken", "missed", "unsaved", "stuck", "behind", "restarted"} -> BOOLEAN]
      BY <1>1 DEF MemoryTyped
<1>5. MemoryTyped'
      BY <1>1, <1>2, <1>3, <1>4, MemoryPrompt DEF MemoryTyped, StagesHold, IsUpdate, Events
<1>6. SectionAdds'
      BY <1>1 DEF SectionAdds, Free
<1>7. StagesHold'
      BY <1>1, MemoryIdle DEF StagesHold
<1>8. TextInv'
      BY <1>1 DEF TextInv, Noticed, Idle
<1>9. StatusInv'
      BY <1>1 DEF StatusInv, NoneCompacting, Idle
<1>10. MarkInv'
       BY <1>1 DEF MarkInv, Idle
<1>11. HumanInv'
       BY <1>1, <1>3 DEF HumanInv
<1>12. QED
       BY <1>5, <1>6, <1>7, <1>8, <1>9, <1>10, <1>11

-----------------------------------------------------------------------------
(* The memory of the thread: the refresh after a run.                      *)

\* What an inference read, and what was not invalidated meanwhile, is not deleted.
LEMMA MemoryUntouched ==
    ASSUME NEW u, IsDocument(doc, fresh), Noticed(u), ~Invalidated(u.source, doc)
    PROVE  u.covers \cap doc.deleted = {}
BY DEF IsDocument, Noticed, Invalidated

\* AutoReads keeps the invariant, also when it reads a document that is not saved.
LEMMA AutoReadsKeeps == MemoryInv /\ AutoReads => MemoryInv'
<1> SUFFICES ASSUME MemoryInv, AutoReads PROVE MemoryInv'
    OBVIOUS
<1> USE DEF MemoryInv
<1> DEFINE p == Projection(doc)
           m == Merged(doc.mem, p)
           read == [auto EXCEPT !.before = doc.tag, !.projection = p, !.memory = m]
<1>1. /\ UNCHANGED <<scope, doc, saved, previousState, section, runs, fresh, told, left, dirty, man>>
      /\ auto.stage = "wait" /\ memoryLock = "nobody" /\ memoryLock' = "auto"
      BY DEF AutoReads, host
<1>2. \/ /\ auto' = [read EXCEPT !.stage = "asking", !.source = Source(doc), !.covers = Prompt(doc)]
         /\ scope = "thread" /\ m.origin # "user"
      \/ auto' = [read EXCEPT !.stage = "mark"] /\ scope = "channel" /\ m.origin # "user"
      \/ auto' = [read EXCEPT !.stage = "refresh"] /\ scope = "thread"
      \/ auto' = [read EXCEPT !.stage = "save"] /\ scope = "channel"
  <2>1. CASE NeedsInference(p, m) /\ scope = "thread"
        BY <2>1 DEF AutoReads, NeedsInference
  <2>2. CASE NeedsInference(p, m) /\ scope = "channel"
        BY <2>2 DEF AutoReads, NeedsInference
  <2>3. CASE ~NeedsInference(p, m)
    <3>1. auto' = [read EXCEPT !.stage = IF scope = "thread" THEN "refresh" ELSE "save"]
          BY <2>3 DEF AutoReads
    <3>2. QED
          BY <3>1 DEF MemoryTyped, Scopes
  <2>4. QED
        BY <2>1, <2>2, <2>3 DEF MemoryTyped, Scopes
<1>3. IsProjection(p) /\ KeepsMemory(doc.mem, m)
      BY MemoryProjection, MemoryMerged DEF MemoryTyped, IsDocument
<1> HIDE DEF p, m
<1>4. /\ DOMAIN read = DOMAIN Idle /\ read.stage = "wait" /\ read.before = doc.tag
      /\ read.projection = p /\ read.memory = m /\ read.source = auto.source
      /\ read.covers = auto.covers /\ read.edit = auto.edit
      BY <1>1 DEF MemoryTyped, IsUpdate, Idle
<1> HIDE DEF read
<1>5. /\ DOMAIN auto' = DOMAIN Idle /\ auto'.before = doc.tag
      /\ auto'.projection = p /\ auto'.memory = m /\ auto'.edit = auto.edit
      /\ auto'.stage \in {"asking", "mark", "refresh", "save"}
      /\ auto'.stage \in {"asking", "mark"} => m.origin # "user"
      /\ scope = "thread" <=> auto'.stage \in {"asking", "refresh"}
      /\ auto'.stage = "asking" => auto'.source = Source(doc) /\ auto'.covers = Prompt(doc)
      /\ auto'.stage # "asking" => auto'.covers = auto.covers
      BY <1>2, <1>4 DEF Idle
<1>6. /\ Prompt(doc) \in SUBSET Nat /\ \A n \in Prompt(doc) : n < fresh
      /\ Source(doc).live = LiveSet(doc)
      /\ Clean(doc.mem, doc) =>
           \A n \in Prompt(doc) : n \in LiveSet(doc) \/ n \notin Messages(doc)
      BY MemoryPrompt DEF MemoryTyped
<1>7. MemoryTyped'
  <2>1. \A n \in auto'.covers \cup m.covers : n < fresh
        BY <1>3, <1>5, <1>6 DEF MemoryTyped, IsUpdate, IsDocument, KeepsMemory
  <2>2. IsUpdate(auto', fresh)
        BY <1>3, <1>5, <1>6, <2>1 DEF MemoryTyped, IsUpdate, IsDocument, KeepsMemory
  <2>3. QED
        BY <1>1, <2>2 DEF MemoryTyped
<1>8. SectionAdds'
      BY <1>1 DEF SectionAdds, Free, Messages
<1>9. StagesHold'
      BY <1>1, <1>5 DEF StagesHold
<1>10. TextInv'
       BY <1>1, <1>3, <1>5, <1>6 DEF TextInv, Clean, Noticed, Messages, KeepsMemory
<1>11. StatusInv'
       BY <1>1, <1>3, <1>5 DEF StatusInv, NoneCompacting, Compacting, KeepsMemory
<1>12. MarkInv'
       BY <1>1, <1>5 DEF MarkInv, MemoryTyped, Scopes
<1>13. HumanInv'
  <2>1. \A d \in {doc, saved} : d.tag = doc.tag => d.mem = doc.mem
        BY DEF SectionAdds
  <2>2. m.origin = doc.mem.origin /\ m.edit = doc.mem.edit /\ doc.mem.edit \in Nat
        BY <1>3 DEF KeepsMemory, MemoryTyped, IsDocument, IsMemory
  <2>3. QED
        BY <1>1, <1>5, <2>1, <2>2 DEF HumanInv
<1>14. QED
       BY <1>7, <1>8, <1>9, <1>10, <1>11, <1>12, <1>13

\* A refresh gives its result up.
LEMMA AutoDrops ==
    ASSUME MemoryInv, auto.stage \in {"mark", "asking", "save"},
           auto' = [auto EXCEPT !.stage = "next"],
           UNCHANGED <<scope, doc, saved, previousState, section, runs, fresh, told, left, man,
                       memoryLock, dirty>>,
           ~told.stuck /\ ~told.unsaved => NoneCompacting
    PROVE  MemoryInv'
<1> USE DEF MemoryInv
<1>1. /\ DOMAIN auto' = DOMAIN Idle /\ auto'.before = auto.before
      /\ auto'.projection = auto.projection /\ auto'.memory = auto.memory
      /\ auto'.edit = auto.edit /\ auto'.stage = "next" /\ auto'.covers = auto.covers
      BY DEF MemoryTyped, IsUpdate, Idle
<1>2. MemoryTyped'
      BY <1>1 DEF MemoryTyped, IsUpdate
<1>3. SectionAdds'
      BY DEF SectionAdds, Free, Messages
<1>4. StagesHold'
      BY <1>1 DEF StagesHold
<1>5. TextInv'
      BY <1>1 DEF TextInv, Clean, Noticed, Messages
<1>6. StatusInv'
      BY <1>1 DEF StatusInv, NoneCompacting, Compacting
<1>7. MarkInv'
      BY <1>1 DEF MarkInv
<1>8. HumanInv'
      BY <1>1 DEF HumanInv
<1>9. QED
      BY <1>2, <1>3, <1>4, <1>5, <1>6, <1>7, <1>8

\* An inference leaves a memory to be saved.
LEMMA MemoryAnswer ==
    ASSUME MemoryInv, auto.stage = "asking", NEW m, IsMemory(m),
           \A n \in m.covers : n < fresh,
           auto' = [auto EXCEPT !.stage = "save", !.memory = m],
           ~told.overtaken => Clean(m, doc),
           ~told.stuck /\ ~told.unsaved => ~Compacting(m),
           m.origin = "user" => m.edit > left["edit"],
           UNCHANGED <<scope, doc, saved, previousState, section, runs, fresh, told, man,
                       memoryLock, dirty>>,
           left' \in [Events -> Nat], left["edit"] \in Nat, left'["edit"] <= left["edit"]
    PROVE  MemoryInv'
<1> USE DEF MemoryInv
<1>1. /\ DOMAIN auto' = DOMAIN Idle /\ auto'.before = auto.before
      /\ auto'.projection = auto.projection /\ auto'.memory = m /\ auto'.edit = auto.edit
      /\ auto'.stage = "save" /\ auto'.covers = auto.covers
      BY DEF MemoryTyped, IsUpdate, Idle
<1>2. MemoryTyped'
      BY <1>1 DEF MemoryTyped, IsUpdate
<1>3. SectionAdds'
      BY DEF SectionAdds, Free, Messages
<1>4. StagesHold'
      BY <1>1 DEF StagesHold
<1>5. TextInv'
      BY <1>1 DEF TextInv, Clean, Noticed, Messages
<1>6. StatusInv'
      BY <1>1 DEF StatusInv, NoneCompacting, Compacting
<1>7. MarkInv'
      BY <1>1 DEF MarkInv
<1>8. HumanInv'
  <2>1. \A n \in {doc.mem, saved.mem, m} : n.origin = "user" => n.edit > left'["edit"]
    <3>1. \A n \in {doc.mem, saved.mem, m} : n.edit \in Nat
            /\ (n.origin = "user" => n.edit > left["edit"])
          BY DEF HumanInv, MemoryTyped, IsDocument, IsMemory
    <3>2. left'["edit"] \in Nat
          BY DEF Events
    <3>3. QED
          BY <3>1, <3>2
  <2>2. QED
        BY <1>1, <2>1 DEF HumanInv
<1>9. QED
      BY <1>2, <1>3, <1>4, <1>5, <1>6, <1>7, <1>8

\* AutoAnswered keeps the invariant: a result that was overtaken is dropped or reconciled.
LEMMA AutoAnsweredKeeps == MemoryInv /\ AutoAnswered => MemoryInv'
<1> SUFFICES ASSUME MemoryInv, AutoAnswered PROVE MemoryInv'
    OBVIOUS
<1>1. /\ auto.stage = "asking"
      /\ UNCHANGED <<scope, doc, saved, previousState, section, runs, fresh, told, left, man,
                     memoryLock, dirty>>
      BY DEF AutoAnswered, host
<1>2. CASE scope = "thread" /\ ThreadConflict(auto, doc)
  <2>1. auto' = [auto EXCEPT !.stage = "next"]
        BY <1>2 DEF AutoAnswered
  <2>2. ~told.stuck /\ ~told.unsaved => NoneCompacting
        BY <1>1, <1>2 DEF MemoryInv, StatusInv
  <2>3. QED
        BY <1>1, <2>1, <2>2, AutoDrops
<1>3. CASE ~(scope = "thread" /\ ThreadConflict(auto, doc))
  <2> DEFINE r == Result(auto, doc)
             m == Reconcile(auto, r, doc)
  <2>1. auto' = [auto EXCEPT !.stage = "save", !.memory = m]
        BY <1>3 DEF AutoAnswered
  <2>2. /\ IsDocument(doc, fresh) /\ IsUpdate(auto, fresh) /\ IsMemory(doc.mem)
        /\ scope \in Scopes
        BY DEF MemoryInv, MemoryTyped, IsDocument
  <2>3. /\ IsMemory(r) /\ r.origin # "user" /\ ~Compacting(r)
             /\ r.covers \subseteq auto.covers
        /\ scope = "channel" => r.covers = {} \/ ~Invalidated(auto.source, doc)
        BY <2>2, MemoryResult
  <2> HIDE DEF r
  <2>4. \/ KeepsMemory(doc.mem, m)
           /\ (scope = "channel" => doc.tag # auto.before /\ doc.mem.origin = "user")
        \/ KeepsMemory(r, m) /\ (scope = "thread" => ~ThreadConflict(auto, doc))
        BY <2>2, <2>3, MemoryReconcile
  <2> HIDE DEF m
  <2>5. IsMemory(m)
        BY <2>4 DEF KeepsMemory
  <2>6. \A n \in m.covers : n < fresh
        BY <2>2, <2>3, <2>4 DEF KeepsMemory, IsUpdate, IsDocument
  <2>7. ASSUME ~told.overtaken PROVE Clean(m, doc)
    <3>1. Clean(doc.mem, doc) /\ Noticed(auto)
          BY <1>1, <2>7 DEF MemoryInv, TextInv
    <3>2. CASE KeepsMemory(doc.mem, m)
          BY <3>1, <3>2 DEF KeepsMemory, Clean
    <3>3. CASE KeepsMemory(r, m)
      <4>1. r.covers = {} \/ ~Invalidated(auto.source, doc)
            BY <1>3, <2>2, <2>3 DEF ThreadConflict, Scopes
      <4>2. r.covers = {} \/ auto.covers \cap doc.deleted = {}
            BY <2>2, <3>1, <4>1, MemoryUntouched
      <4>3. QED
            BY <2>3, <3>3, <4>2 DEF KeepsMemory, Clean
    <3>4. QED
          BY <2>4, <3>2, <3>3
  <2>8. ASSUME ~told.stuck, ~told.unsaved PROVE ~Compacting(m)
    <3>1. CASE KeepsMemory(r, m)
          BY <2>3, <3>1 DEF KeepsMemory
    <3>2. CASE KeepsMemory(doc.mem, m) /\ scope = "thread"
          BY <1>1, <2>8, <3>2 DEF KeepsMemory, MemoryInv, StatusInv, NoneCompacting
    <3>3. CASE KeepsMemory(doc.mem, m) /\ doc.mem.origin = "user"
      <4>1. memoryLock = "auto"
            BY <1>1 DEF MemoryInv, StagesHold
      <4>2. QED
            BY <2>8, <3>3, <4>1 DEF KeepsMemory, MemoryInv, StatusInv
    <3>4. QED
          BY <2>2, <2>4, <3>1, <3>2, <3>3 DEF Scopes
  <2>9. m.origin = "user" => m.edit > left["edit"]
    <3>1. doc.mem.origin = "user" => doc.mem.edit > left["edit"]
          BY DEF MemoryInv, HumanInv
    <3>2. QED
          BY <2>3, <2>4, <3>1 DEF KeepsMemory
  <2>10. left' \in [Events -> Nat] /\ left["edit"] \in Nat /\ left'["edit"] <= left["edit"]
         BY <1>1 DEF MemoryInv, MemoryTyped, Events
  <2>11. QED
         BY <1>1, <2>1, <2>5, <2>6, <2>7, <2>8, <2>9, <2>10, MemoryAnswer
<1>4. QED
      BY <1>2, <1>3

\* AutoFails keeps the invariant.
LEMMA AutoFailsKeeps == MemoryInv /\ AutoFails => MemoryInv'
<1> SUFFICES ASSUME MemoryInv, AutoFails PROVE MemoryInv'
    OBVIOUS
<1> DEFINE m == Unmade(doc)
<1>1. /\ auto.stage = "asking" /\ Spend("fails")
      /\ auto' = [auto EXCEPT !.stage = "save", !.memory = m]
      /\ UNCHANGED <<scope, doc, saved, previousState, section, runs, fresh, told, man,
                     memoryLock, dirty>>
      BY DEF AutoFails
<1>2. IsDocument(doc, fresh) /\ IsMemory(doc.mem) /\ left \in [Events -> Nat]
        /\ memoryLock = "auto"
      BY <1>1 DEF MemoryInv, MemoryTyped, IsDocument, StagesHold
<1>3. /\ KeepsMemory(doc.mem, m)
      /\ Compacting(m) => scope = "thread" \/ doc.mem.origin = "user"
      BY <1>2, MemoryUnmade
<1> HIDE DEF m
<1>4. IsMemory(m) /\ \A n \in m.covers : n < fresh
      BY <1>2, <1>3 DEF KeepsMemory, IsDocument
<1>5. ~told.overtaken => Clean(m, doc)
      BY <1>3 DEF KeepsMemory, Clean, MemoryInv, TextInv
<1>6. ~told.stuck /\ ~told.unsaved => ~Compacting(m)
      BY <1>1, <1>2, <1>3 DEF KeepsMemory, MemoryInv, StatusInv, NoneCompacting
<1>7. m.origin = "user" => m.edit > left["edit"]
      BY <1>3 DEF KeepsMemory, MemoryInv, HumanInv
<1>8. left' \in [Events -> Nat] /\ left["edit"] \in Nat /\ left'["edit"] <= left["edit"]
      BY <1>1, <1>2, MemorySpend DEF Events
<1>9. QED
      BY <1>1, <1>4, <1>5, <1>6, <1>7, <1>8, MemoryAnswer

\* ManAnswered keeps the invariant.
LEMMA ManAnsweredKeeps == MemoryInv /\ ManAnswered => MemoryInv'
<1> SUFFICES ASSUME MemoryInv, ManAnswered PROVE MemoryInv'
    OBVIOUS
<1> USE DEF MemoryInv
<1> DEFINE r == Result(man, doc)
<1>1. /\ man.stage = "asking" /\ man' = [man EXCEPT !.stage = "answered", !.memory = r]
      /\ UNCHANGED <<scope, doc, saved, previousState, section, runs, fresh, told, left, auto,
                     memoryLock, dirty>>
      BY DEF ManAnswered, host
<1>2. /\ IsDocument(doc, fresh) /\ IsUpdate(man, fresh) /\ scope \in Scopes
      BY DEF MemoryTyped
<1>3. /\ IsMemory(r) /\ r.origin # "user" /\ ~Compacting(r) /\ r.covers \subseteq man.covers
      /\ scope = "channel" => r.covers = {} \/ ~Invalidated(man.source, doc)
      BY <1>2, MemoryResult
<1> HIDE DEF r
<1>4. /\ DOMAIN man' = DOMAIN Idle /\ man'.before = man.before
           /\ man'.projection = man.projection
      /\ man'.memory = r /\ man'.edit = man.edit /\ man'.stage = "answered"
      /\ man'.covers = man.covers /\ man'.source = man.source
      BY <1>1, <1>2 DEF IsUpdate, Idle
<1>5. MemoryTyped'
      BY <1>1, <1>2, <1>3, <1>4 DEF MemoryTyped, IsUpdate
<1>6. SectionAdds'
      BY <1>1 DEF SectionAdds, Free, Messages
<1>7. StagesHold'
      BY <1>1, <1>4 DEF StagesHold
<1>8. TextInv'
  <2> SUFFICES ASSUME ~told.overtaken PROVE TextInv'
      BY <1>1 DEF TextInv
  <2>1. Noticed(man)
        BY <1>1 DEF TextInv
  <2>2. scope = "channel" => Clean(r, doc)
    <3>1. r.covers = {} => Clean(r, doc)
          BY DEF Clean
    <3>2. ~Invalidated(man.source, doc) => Clean(r, doc)
          BY <1>2, <1>3, <2>1, MemoryUntouched DEF Clean
    <3>3. QED
          BY <1>3, <3>1, <3>2
  <2>3. QED
        BY <1>1, <1>3, <1>4, <2>1, <2>2 DEF TextInv, Clean, Noticed, Messages
<1>9. StatusInv'
      BY <1>1, <1>4 DEF StatusInv, NoneCompacting, Compacting
<1>10. MarkInv'
       BY <1>1, <1>3, <1>4 DEF MarkInv
<1>11. HumanInv'
       BY <1>1, <1>4 DEF HumanInv, StagesHold
<1>12. QED
       BY <1>5, <1>6, <1>7, <1>8, <1>9, <1>10, <1>11

\* A refresh puts a memory into the document.
LEMMA AutoPuts ==
    ASSUME MemoryInv, NEW name \in {"mark", "save"}, NEW m, IsMemory(m),
           \A n \in m.covers : n < fresh,
           Enter(name, With(m)),
           auto.stage \in {"mark", "save", "refresh"}, name = "mark" => auto.stage = "mark",
           auto' = [auto EXCEPT !.stage = IF name = "mark" THEN "marking" ELSE "saving"],
           UNCHANGED <<scope, saved, memoryLock, dirty, man, runs, fresh, told, left>>,
           ~told.overtaken => Clean(m, doc),
           name = "mark" => m.origin # "user",
           ~told.stuck /\ ~told.unsaved /\ name = "save" => ~Compacting(m),
           saved.mem.origin = "user" => m.origin = "user" /\ m.edit <= saved.mem.edit,
           m.origin = "user" => m.edit > left["edit"]
    PROVE  MemoryInv'
<1> USE DEF MemoryInv
<1>1. /\ DOMAIN auto' = DOMAIN Idle /\ auto'.before = auto.before
      /\ auto'.projection = auto.projection /\ auto'.memory = auto.memory
      /\ auto'.edit = auto.edit /\ auto'.covers = auto.covers
      /\ name = "mark" => auto'.stage = "marking"
      /\ name = "save" => auto'.stage = "saving"
      BY DEF MemoryTyped, IsUpdate, Idle
<1>2. IsDocument(doc, fresh)
      BY DEF MemoryTyped
<1>3. /\ Free /\ section' = name /\ previousState' = doc
      /\ IsDocument(doc', fresh) /\ Messages(doc') = Messages(doc)
      /\ doc'.deleted = doc.deleted /\ doc'.mem = m /\ Retagged(doc')
  <2>1. Enter(name, [doc EXCEPT !.mem = m, !.tag = FreshTag])
        BY DEF With
  <2>2. QED
        BY <1>2, <2>1, MemoryEnter
<1>4. doc = saved /\ memoryLock = "auto" /\ man.stage \in {"none", "wait"}
      BY <1>3 DEF SectionAdds, StagesHold, Free
<1>5. MemoryTyped'
      BY <1>1, <1>3 DEF MemoryTyped, IsUpdate
<1>6. SectionAdds'
  <2>1. doc'.tag = doc.tag => doc'.mem = doc.mem
        BY <1>3 DEF Retagged
  <2>2. QED
        BY <1>3, <1>4, <2>1 DEF SectionAdds, Free, Messages
<1>7. StagesHold'
      BY <1>1, <1>3, <1>4 DEF StagesHold, Free
<1>8. TextInv'
      BY <1>1, <1>3, <1>4 DEF TextInv, Clean, Noticed, Messages
<1>9. StatusInv'
      BY <1>1, <1>3, <1>4 DEF StatusInv, NoneCompacting, Compacting
<1>10. MarkInv'
       BY <1>1, <1>3 DEF MarkInv
<1>11. HumanInv'
  <2>1. doc'.tag = auto.before => m = doc.mem /\ doc.tag = auto.before
        BY <1>3 DEF Retagged
  <2>2. QED
        BY <1>1, <1>3, <1>4, <2>1 DEF HumanInv
<1>12. QED
       BY <1>5, <1>6, <1>7, <1>8, <1>9, <1>10, <1>11

\* AutoMarks keeps the invariant: no person's memory is marked.
LEMMA AutoMarksKeeps == MemoryInv /\ AutoMarks => MemoryInv'
<1> SUFFICES ASSUME MemoryInv, AutoMarks PROVE MemoryInv'
    OBVIOUS
<1> DEFINE m == [auto.memory EXCEPT !.status = "compacting"]
<1>1. /\ auto.stage = "mark" /\ Free
      /\ UNCHANGED <<scope, saved, memoryLock, dirty, man, runs, fresh, told, left>>
      BY DEF AutoMarks
<1>2. CASE doc.mem.origin = "user"
  <2>1. auto' = [auto EXCEPT !.stage = "next"] /\ UNCHANGED <<section, previousState, doc>>
        BY <1>2 DEF AutoMarks
  <2>2. ~told.stuck /\ ~told.unsaved => NoneCompacting
        BY <1>1 DEF MemoryInv, StatusInv
  <2>3. QED
        BY <1>1, <2>1, <2>2, AutoDrops
<1>3. CASE doc.mem.origin # "user"
  <2>1. Enter("mark", With(m)) /\ auto' = [auto EXCEPT !.stage = "marking"]
        BY <1>3 DEF AutoMarks
  <2>2. IsMemory(auto.memory) /\ auto.memory.origin # "user"
        BY <1>1 DEF MemoryInv, MemoryTyped, IsUpdate, MarkInv
  <2>3. IsMemory(m) /\ m.origin # "user" /\ m.covers = auto.memory.covers
        BY <2>2 DEF IsMemory
  <2>4. saved.mem.origin # "user"
        BY <1>1, <1>3 DEF MemoryInv, SectionAdds
  <2>5. ~told.overtaken => Clean(m, doc)
        BY <1>1, <2>3 DEF Clean, MemoryInv, TextInv
  <2>6. \A n \in m.covers : n < fresh
        BY <2>3 DEF MemoryInv, MemoryTyped, IsUpdate
  <2> HIDE DEF m
  <2>7. auto' = [auto EXCEPT !.stage = IF "mark" = "mark" THEN "marking" ELSE "saving"]
        BY <2>1
  <2>8. QED
        BY <1>1, <2>1, <2>3, <2>4, <2>5, <2>6, <2>7, AutoPuts
<1>4. QED
      BY <1>2, <1>3

\* AutoSaves keeps the invariant: nothing is written over an edit.
LEMMA AutoSavesKeeps == MemoryInv /\ AutoSaves => MemoryInv'
<1> SUFFICES ASSUME MemoryInv, AutoSaves PROVE MemoryInv'
    OBVIOUS
<1>1. /\ auto.stage = "save" /\ Free /\ doc = saved /\ memoryLock = "auto"
      /\ UNCHANGED <<scope, saved, memoryLock, dirty, man, runs, fresh, told, left>>
      BY DEF AutoSaves, MemoryInv, SectionAdds, StagesHold
<1>2. CASE Superseded
  <2>1. auto' = [auto EXCEPT !.stage = "next"] /\ UNCHANGED <<section, previousState, doc>>
        BY <1>2 DEF AutoSaves
  <2>2. ~told.stuck /\ ~told.unsaved => NoneCompacting
        BY <1>1, <1>2 DEF MemoryInv, StatusInv, Superseded, NoneCompacting
  <2>3. QED
        BY <1>1, <2>1, <2>2, AutoDrops
<1>3. CASE ~Superseded
  <2>1. Enter("save", With(auto.memory)) /\ auto' = [auto EXCEPT !.stage = "saving"]
        BY <1>3 DEF AutoSaves
  <2>2. IsMemory(auto.memory) /\ \A n \in auto.memory.covers : n < fresh
        BY DEF MemoryInv, MemoryTyped, IsUpdate
  <2>3. saved.mem.origin = "user" =>
           auto.memory.origin = "user" /\ auto.memory.edit <= saved.mem.edit
        BY <1>1, <1>3 DEF Superseded, MemoryInv, HumanInv
  <2>4. /\ ~told.overtaken => Clean(auto.memory, doc)
        /\ ~told.stuck /\ ~told.unsaved => ~Compacting(auto.memory)
        /\ auto.memory.origin = "user" => auto.memory.edit > left["edit"]
        BY <1>1 DEF MemoryInv, TextInv, StatusInv, HumanInv
  <2>5. auto' = [auto EXCEPT !.stage = IF "save" = "mark" THEN "marking" ELSE "saving"]
        BY <2>1
  <2>6. QED
        BY <1>1, <2>1, <2>2, <2>3, <2>4, <2>5, AutoPuts
<1>4. QED
      BY <1>2, <1>3

\* AutoRefreshes keeps the invariant.
LEMMA AutoRefreshesKeeps == MemoryInv /\ AutoRefreshes => MemoryInv'
<1> SUFFICES ASSUME MemoryInv, AutoRefreshes PROVE MemoryInv'
    OBVIOUS
<1> DEFINE m == Merged(doc.mem, Projection(doc))
<1>1. /\ auto.stage = "refresh" /\ Enter("save", With(m)) /\ Free /\ doc = saved
      /\ auto' = [auto EXCEPT !.stage = "saving"]
      /\ UNCHANGED <<scope, saved, memoryLock, dirty, man, runs, fresh, told, left>>
      BY DEF AutoRefreshes, Enter, MemoryInv, SectionAdds
<1>2. IsMemory(doc.mem) /\ \A n \in doc.mem.covers : n < fresh
      BY DEF MemoryInv, MemoryTyped, IsDocument
<1>3. KeepsMemory(doc.mem, m)
      BY <1>2, MemoryProjection, MemoryMerged
<1> HIDE DEF m
<1>4. IsMemory(m) /\ \A n \in m.covers : n < fresh
      BY <1>2, <1>3 DEF KeepsMemory
<1>5. saved.mem.origin = "user" => m.origin = "user" /\ m.edit <= saved.mem.edit
      BY <1>1, <1>2, <1>3 DEF KeepsMemory, IsMemory
<1>6. /\ ~told.overtaken => Clean(m, doc)
      /\ ~told.stuck /\ ~told.unsaved => ~Compacting(m)
      /\ m.origin = "user" => m.edit > left["edit"]
      BY <1>1, <1>3 DEF MemoryInv, TextInv, StatusInv, HumanInv, KeepsMemory, Clean,
             NoneCompacting
<1>7. auto' = [auto EXCEPT !.stage = IF "save" = "mark" THEN "marking" ELSE "saving"]
      BY <1>1
<1>8. QED
      BY <1>1, <1>4, <1>5, <1>6, <1>7, AutoPuts

-----------------------------------------------------------------------------
(* The memory of the thread: a compaction that was asked for.              *)

\* ManBegins keeps the invariant: the compaction knows the edit it is asked to replace.
LEMMA ManBeginsKeeps == MemoryInv /\ ManBegins => MemoryInv'
<1> SUFFICES ASSUME MemoryInv, ManBegins PROVE MemoryInv'
    OBVIOUS
<1> USE DEF MemoryInv
<1> DEFINE m == [doc.mem EXCEPT !.status = "compacting"]
           p == Projection(doc)
<1>1. /\ man.stage = "begin" /\ Enter("begin", [doc EXCEPT !.mem = m, !.tag = FreshTag])
      /\ man' = [man EXCEPT !.stage = "beginning", !.before = FreshTag,
                            !.projection = p, !.edit = doc.mem.edit]
      /\ UNCHANGED <<scope, saved, memoryLock, auto, dirty, runs, fresh, told, left>>
      BY DEF ManBegins, With
<1>2. IsDocument(doc, fresh) /\ IsMemory(doc.mem) /\ \A n \in doc.mem.covers : n < fresh
      BY DEF MemoryTyped, IsDocument
<1>3. /\ IsMemory(m) /\ m.origin = doc.mem.origin /\ m.edit = doc.mem.edit
      /\ m.covers = doc.mem.covers
      BY <1>2 DEF IsMemory
<1> HIDE DEF m
<1>4. /\ Free /\ section' = "begin" /\ previousState' = doc
      /\ IsDocument(doc', fresh) /\ Messages(doc') = Messages(doc)
      /\ doc'.deleted = doc.deleted /\ doc'.mem = m /\ doc'.tag = FreshTag /\ Retagged(doc')
      BY <1>1, <1>2, <1>3, MemoryEnter
<1>5. IsProjection(p)
      BY MemoryProjection
<1> HIDE DEF p
<1>6. /\ DOMAIN man' = DOMAIN Idle /\ man'.before = FreshTag /\ man'.projection = p
      /\ man'.memory = man.memory /\ man'.edit = doc.mem.edit /\ man'.stage = "beginning"
      /\ man'.covers = man.covers
      BY <1>1 DEF MemoryTyped, IsUpdate, Idle
<1>7. /\ doc = saved /\ previousState = saved /\ memoryLock = "man"
      /\ auto.stage \in {"none", "wait", "ending"}
      BY <1>1, <1>4 DEF SectionAdds, StagesHold
<1>8. MemoryTyped'
  <2>1. IsUpdate(man', fresh)
        BY <1>2, <1>5, <1>6, MemoryFreshTag DEF MemoryTyped, IsUpdate, IsMemory
  <2>2. QED
        BY <1>1, <1>4, <2>1 DEF MemoryTyped
<1>9. SectionAdds'
      BY <1>1, <1>4, <1>7, MemoryFreshTag DEF SectionAdds, Free, Messages
<1>10. StagesHold'
       BY <1>1, <1>4, <1>6, <1>7 DEF StagesHold, Free
<1>11. TextInv'
       BY <1>1, <1>3, <1>4, <1>6, <1>7 DEF TextInv, Clean, Noticed, Messages
<1>12. StatusInv'
       BY <1>1, <1>4, <1>6, <1>7 DEF StatusInv, NoneCompacting, Compacting
<1>13. MarkInv'
       BY <1>1, <1>6 DEF MarkInv
<1>14. HumanInv'
  <2>1. saved.tag # FreshTag /\ doc.mem.edit \in Nat
        BY <1>2, <1>7, MemoryFreshTag DEF IsMemory
  <2>2. QED
        BY <1>1, <1>3, <1>4, <1>6, <1>7, <2>1 DEF HumanInv
<1>15. QED
       BY <1>8, <1>9, <1>10, <1>11, <1>12, <1>13, <1>14

\* ManCompletes keeps the invariant: it replaces the edit it began with, and no later one.
LEMMA ManCompletesKeeps == MemoryInv /\ ManCompletes => MemoryInv'
<1> SUFFICES ASSUME MemoryInv, ManCompletes PROVE MemoryInv'
    OBVIOUS
<1> USE DEF MemoryInv
<1> DEFINE m == Reconcile(man, man.memory, doc)
<1>1. /\ man.stage = "answered"
           /\ Enter("complete", [doc EXCEPT !.mem = m, !.tag = FreshTag])
      /\ told' = [told EXCEPT !.stuck = m.status = "compacting"]
      /\ man' = [man EXCEPT !.stage = "completing"]
      /\ UNCHANGED <<scope, saved, memoryLock, auto, dirty, runs, fresh, left>>
      BY DEF ManCompletes, With
<1>2. /\ IsDocument(doc, fresh) /\ IsMemory(doc.mem) /\ IsUpdate(man, fresh)
      /\ IsMemory(man.memory) /\ scope \in Scopes /\ man.memory.origin # "user"
      BY DEF MemoryTyped, IsDocument, IsUpdate, MarkInv
<1>3. \/ KeepsMemory(doc.mem, m)
      \/ KeepsMemory(man.memory, m) /\ ~(doc.tag # man.before /\ doc.mem.origin = "user")
         /\ (scope = "thread" => ~ThreadConflict(man, doc))
      BY <1>2, MemoryReconcile
<1> HIDE DEF m
<1>4. IsMemory(m) /\ \A n \in m.covers : n < fresh
      BY <1>2, <1>3 DEF KeepsMemory, IsDocument, IsUpdate
<1>5. /\ Free /\ section' = "complete" /\ previousState' = doc
      /\ IsDocument(doc', fresh) /\ Messages(doc') = Messages(doc)
      /\ doc'.deleted = doc.deleted /\ doc'.mem = m /\ doc'.tag = FreshTag /\ Retagged(doc')
      BY <1>1, <1>2, <1>4, MemoryEnter
<1>6. /\ DOMAIN man' = DOMAIN Idle /\ man'.before = man.before
      /\ man'.projection = man.projection /\ man'.memory = man.memory
      /\ man'.edit = man.edit /\ man'.stage = "completing" /\ man'.covers = man.covers
      BY <1>1, <1>2 DEF IsUpdate, Idle
<1>7. /\ doc = saved /\ previousState = saved /\ memoryLock = "man"
      /\ auto.stage \in {"none", "wait", "ending"}
      BY <1>1, <1>5 DEF SectionAdds, StagesHold
<1>8. /\ told' \in [{"overtaken", "missed", "unsaved", "stuck", "behind", "restarted"} -> BOOLEAN]
      /\ told'.overtaken = told.overtaken /\ told'.unsaved = told.unsaved
      /\ Compacting(m) => told'.stuck
  <2>1. (m.status = "compacting") \in BOOLEAN
        OBVIOUS
  <2>2. QED
        BY <1>1, <2>1 DEF MemoryTyped, Compacting
<1>9. MemoryTyped'
      BY <1>1, <1>2, <1>5, <1>6, <1>8 DEF MemoryTyped, IsUpdate
<1>10. SectionAdds'
       BY <1>1, <1>5, <1>7, MemoryFreshTag DEF SectionAdds, Free, Messages
<1>11. StagesHold'
       BY <1>1, <1>5, <1>6, <1>7 DEF StagesHold, Free
<1>12. TextInv'
  <2> SUFFICES ASSUME ~told.overtaken PROVE TextInv'
      BY <1>8 DEF TextInv
  <2>1. Clean(doc.mem, doc) /\ Noticed(man)
        /\ (IF scope = "channel" THEN Clean(man.memory, doc) ELSE man.memory.covers \subseteq man.covers)
        BY <1>1 DEF TextInv
  <2>2. Clean(m, doc)
    <3>1. CASE KeepsMemory(doc.mem, m)
          BY <2>1, <3>1 DEF KeepsMemory, Clean
    <3>2. CASE KeepsMemory(man.memory, m) /\ scope = "channel"
          BY <2>1, <3>2 DEF KeepsMemory, Clean
    <3>3. CASE KeepsMemory(man.memory, m) /\ scope = "thread" /\ ~ThreadConflict(man, doc)
      <4>1. man.covers \cap doc.deleted = {}
            BY <1>2, <2>1, <3>3, MemoryUntouched DEF ThreadConflict
      <4>2. QED
            BY <2>1, <3>3, <4>1 DEF KeepsMemory, Clean
    <3>4. QED
          BY <1>2, <1>3, <3>1, <3>2, <3>3 DEF Scopes
  <2>3. QED
        BY <1>1, <1>5, <1>6, <1>7, <2>1, <2>2 DEF TextInv, Clean, Messages, StagesHold
<1>13. StatusInv'
       BY <1>1, <1>5, <1>6, <1>7, <1>8 DEF StatusInv, NoneCompacting, Compacting
<1>14. MarkInv'
       BY <1>1, <1>6 DEF MarkInv
<1>15. HumanInv'
  <2>1. m.origin = "user" => m.edit > left["edit"]
        BY <1>2, <1>3 DEF KeepsMemory, HumanInv
  <2>2. saved.mem.origin = "user" =>
          \/ m.origin = "user" /\ m.edit <= saved.mem.edit
          \/ man.edit = saved.mem.edit
    <3>1. CASE KeepsMemory(doc.mem, m)
          BY <1>2, <1>7, <3>1 DEF KeepsMemory, IsMemory
    <3>2. CASE ~(doc.tag # man.before /\ doc.mem.origin = "user")
          BY <1>1, <1>7, <3>2 DEF HumanInv
    <3>3. QED
          BY <1>3, <3>1, <3>2
  <2>3. QED
        BY <1>1, <1>5, <1>6, <1>7, <2>1, <2>2 DEF HumanInv
<1>16. QED
       BY <1>9, <1>10, <1>11, <1>12, <1>13, <1>14, <1>15

\* ManRecordsFailure keeps the invariant.
LEMMA ManRecordsFailureKeeps == MemoryInv /\ ManRecordsFailure => MemoryInv'
<1> SUFFICES ASSUME MemoryInv, ManRecordsFailure PROVE MemoryInv'
    OBVIOUS
<1> USE DEF MemoryInv
<1> DEFINE m == [doc.mem EXCEPT !.status = "failed"]
<1>1. /\ man.stage = "failing" /\ Enter("fail", [doc EXCEPT !.mem = m, !.tag = FreshTag])
      /\ man' = [man EXCEPT !.stage = "recording"]
      /\ UNCHANGED <<scope, saved, memoryLock, auto, dirty, runs, fresh, told, left>>
      BY DEF ManRecordsFailure, With
<1>2. IsDocument(doc, fresh) /\ IsMemory(doc.mem) /\ \A n \in doc.mem.covers : n < fresh
      BY DEF MemoryTyped, IsDocument
<1>3. KeepsMemory(doc.mem, m) /\ ~Compacting(m)
      BY <1>2 DEF IsMemory, KeepsMemory, Compacting
<1> HIDE DEF m
<1>4. /\ Free /\ section' = "fail" /\ previousState' = doc
      /\ IsDocument(doc', fresh) /\ Messages(doc') = Messages(doc)
      /\ doc'.deleted = doc.deleted /\ doc'.mem = m /\ doc'.tag = FreshTag /\ Retagged(doc')
      BY <1>1, <1>2, <1>3, MemoryEnter DEF KeepsMemory
<1>5. /\ DOMAIN man' = DOMAIN Idle /\ man'.before = man.before
      /\ man'.projection = man.projection /\ man'.memory = man.memory
      /\ man'.edit = man.edit /\ man'.stage = "recording" /\ man'.covers = man.covers
      BY <1>1 DEF MemoryTyped, IsUpdate, Idle
<1>6. /\ doc = saved /\ previousState = saved /\ memoryLock = "man"
      /\ auto.stage \in {"none", "wait", "ending"}
      BY <1>1, <1>4 DEF SectionAdds, StagesHold
<1>7. MemoryTyped'
      BY <1>1, <1>4, <1>5 DEF MemoryTyped, IsUpdate
<1>8. SectionAdds'
      BY <1>1, <1>4, <1>6, MemoryFreshTag DEF SectionAdds, Free, Messages
<1>9. StagesHold'
      BY <1>1, <1>4, <1>5, <1>6 DEF StagesHold, Free
<1>10. TextInv'
       BY <1>1, <1>3, <1>4, <1>5, <1>6 DEF TextInv, Clean, KeepsMemory
<1>11. StatusInv'
       BY <1>1, <1>3, <1>4, <1>5, <1>6 DEF StatusInv, NoneCompacting
<1>12. MarkInv'
       BY <1>1, <1>5 DEF MarkInv
<1>13. HumanInv'
       BY <1>1, <1>2, <1>3, <1>4, <1>5, <1>6 DEF HumanInv, KeepsMemory, IsMemory
<1>14. QED
       BY <1>7, <1>8, <1>9, <1>10, <1>11, <1>12, <1>13

-----------------------------------------------------------------------------
(* The memory of the thread: persists and restarts.                        *)

\* SectionSaved keeps the invariant.
LEMMA SavedKeeps == MemoryInv /\ SectionSaved => MemoryInv'
<1> SUFFICES ASSUME MemoryInv, SectionSaved PROVE MemoryInv'
    OBVIOUS
<1> USE DEF MemoryInv
<1>1. /\ ~Free /\ saved' = doc /\ section' = "free" /\ previousState' = doc
      /\ runs' = IF section = "accept" THEN runs + 1 ELSE runs
      /\ UNCHANGED <<scope, doc, dirty, fresh, told, left>>
      BY DEF SectionSaved
<1>2. /\ IsUpdate(auto', fresh) /\ auto'.before = auto.before /\ auto'.memory = auto.memory
      /\ auto'.covers = auto.covers /\ auto'.source = auto.source
      /\ auto'.stage = IF section = "mark" THEN "marked"
                       ELSE IF section = "save" THEN "next" ELSE auto.stage
  <2>1. auto' = IF section = "mark" THEN [auto EXCEPT !.stage = "marked"]
                ELSE IF section = "save" THEN [auto EXCEPT !.stage = "next"] ELSE auto
        BY DEF SectionSaved
  <2>2. QED
        BY <2>1 DEF MemoryTyped, IsUpdate, Idle
<1>3. CASE section \in {"complete", "fail"}
  <2>1. /\ man' = Idle /\ memoryLock' = "nobody"
             /\ man.stage \in {"completing", "recording"}
        /\ auto.stage \in {"none", "wait", "ending"}
        BY <1>3 DEF SectionSaved, Leave, StagesHold
  <2>2. IsUpdate(man', fresh) /\ man'.stage = "none" /\ man'.memory.origin = "automatic"
        BY <2>1, MemoryIdle
  <2>3. MemoryTyped'
        BY <1>1, <1>2, <2>1, <2>2 DEF MemoryTyped
  <2>4. SectionAdds'
        BY <1>1 DEF SectionAdds
  <2>5. StagesHold'
        BY <1>1, <1>2, <1>3, <2>1, <2>2 DEF StagesHold
  <2>6. TextInv'
        BY <1>1, <1>2, <2>1, <2>2 DEF TextInv, Clean, Noticed, Messages
  <2>7. StatusInv'
        BY <1>1, <1>2, <1>3, <2>1, <2>2 DEF StatusInv, NoneCompacting
  <2>8. MarkInv'
        BY <1>1, <1>2, <1>3, <2>1, <2>2 DEF MarkInv
  <2>9. HumanInv'
        BY <1>1, <1>2, <1>3, <2>1, <2>2 DEF HumanInv, MemoryTyped, IsDocument, IsMemory
  <2>10. QED
         BY <2>3, <2>4, <2>5, <2>6, <2>7, <2>8, <2>9
<1>4. CASE section \notin {"complete", "fail"}
  <2>1. /\ memoryLock' = memoryLock
        /\ man' = IF section = "begin" THEN [man EXCEPT !.stage = "begun"] ELSE man
        BY <1>4 DEF SectionSaved
  <2>2. /\ IsUpdate(man', fresh) /\ man'.before = man.before /\ man'.memory = man.memory
        /\ man'.covers = man.covers /\ man'.source = man.source /\ man'.edit = man.edit
        /\ man'.stage = IF section = "begin" THEN "begun" ELSE man.stage
        BY <2>1 DEF MemoryTyped, IsUpdate, Idle
  <2>3. MemoryTyped'
        BY <1>1, <1>2, <2>1, <2>2 DEF MemoryTyped
  <2>4. SectionAdds'
        BY <1>1 DEF SectionAdds
  <2>5. StagesHold'
        BY <1>1, <1>2, <1>4, <2>1, <2>2 DEF StagesHold
  <2>6. TextInv'
        BY <1>1, <1>2, <2>1, <2>2 DEF TextInv, Clean, Noticed, Messages, StagesHold
  <2>7. StatusInv'
        BY <1>1, <1>2, <1>4, <2>1, <2>2 DEF StatusInv, NoneCompacting, StagesHold
  <2>8. MarkInv'
        BY <1>1, <1>2, <1>4, <2>1, <2>2 DEF MarkInv, StagesHold
  <2>9. HumanInv'
        BY <1>1, <1>2, <1>4, <2>1, <2>2 DEF HumanInv, MemoryTyped, IsDocument, IsMemory,
               StagesHold
  <2>10. QED
         BY <2>3, <2>4, <2>5, <2>6, <2>7, <2>8, <2>9
<1>5. QED
      BY <1>3, <1>4

\* Rejected keeps the invariant: the document is the saved one again.
LEMMA RejectedKeeps == MemoryInv /\ Rejected => MemoryInv'
<1> SUFFICES ASSUME MemoryInv, Rejected PROVE MemoryInv'
    OBVIOUS
<1> USE DEF MemoryInv
<1>1. /\ ~Free /\ doc' = saved /\ section' = "free" /\ saved' = saved
           /\ previousState' = saved
      /\ runs' = IF section = "reply" THEN runs - 1 ELSE runs
      /\ dirty' = (dirty /\ section # "save")
      /\ Spend("reject") /\ UNCHANGED <<scope, fresh>>
      BY DEF Rejected, SectionAdds
<1>2. /\ left' \in [Events -> Nat] /\ left["edit"] \in Nat /\ left'["edit"] \in Nat
      /\ left'["edit"] <= left["edit"]
      BY <1>1, MemorySpend DEF MemoryTyped, Events
<1>3. /\ told' \in [{"overtaken", "missed", "unsaved", "stuck", "behind", "restarted"} -> BOOLEAN]
      /\ told'.overtaken = told.overtaken
      /\ ~told'.unsaved => ~told.unsaved /\ section \notin {"save", "fail"}
      /\ section # "complete" /\ ~told'.stuck => ~told.stuck
  <2>1. /\ (section \in {"save", "fail"}) \in BOOLEAN
        /\ (section # "complete") \in BOOLEAN
        /\ (section = "edit" /\ memoryLock = "auto" /\ auto.before = doc.tag) \in BOOLEAN
        /\ LeavesBehind(previousState) \in BOOLEAN
        BY MemoryLeaves
  <2>2. told' = [told EXCEPT !.unsaved = @ \/ section \in {"save", "fail"},
                             !.behind = @ \/ LeavesBehind(previousState),
                             !.missed = @ \/ (section = "edit" /\ memoryLock = "auto"
                                                /\ auto.before = doc.tag),
                             !.stuck = @ /\ section # "complete"]
        BY DEF Rejected
  <2>3. QED
        BY <2>1, <2>2 DEF MemoryTyped
<1>4. \A m \in {doc.mem, saved.mem, auto.memory} : m.origin = "user"
        => m.edit > left'["edit"]
      BY <1>2 DEF HumanInv, MemoryTyped, IsDocument, IsUpdate, IsMemory
<1>5. SectionAdds'
      BY <1>1 DEF SectionAdds, Messages
<1>6. runs' \in Nat /\ dirty' \in BOOLEAN
      BY <1>1 DEF MemoryTyped, StagesHold
<1>7. CASE section = "mark"
  <2> DEFINE m == Unmade(saved)
  <2>1. /\ auto' = [auto EXCEPT !.stage = "save", !.memory = m]
        /\ man' = man /\ memoryLock' = memoryLock
        BY <1>7 DEF Rejected, SectionAdds
  <2>2. /\ auto.stage = "marking" /\ memoryLock = "auto" /\ man.stage \in {"none", "wait"}
        /\ scope = "channel"
        BY <1>7 DEF StagesHold, MarkInv
  <2>3. KeepsMemory(saved.mem, m)
        BY MemoryUnmade DEF MemoryTyped, IsDocument
  <2> HIDE DEF m
  <2>4. /\ DOMAIN auto' = DOMAIN Idle /\ auto'.before = auto.before
        /\ auto'.projection = auto.projection /\ auto'.memory = m
        /\ auto'.edit = auto.edit /\ auto'.stage = "save" /\ auto'.covers = auto.covers
        BY <2>1 DEF MemoryTyped, IsUpdate, Idle
  <2>5. MemoryTyped'
    <3>1. \A n \in m.covers : n < fresh
          BY <2>3 DEF KeepsMemory, MemoryTyped, IsDocument
    <3>2. IsUpdate(auto', fresh)
          BY <2>3, <2>4, <3>1 DEF MemoryTyped, IsUpdate, KeepsMemory
    <3>3. QED
          BY <1>1, <1>2, <1>3, <1>6, <2>1, <3>2 DEF MemoryTyped
  <2>6. StagesHold'
        BY <1>1, <1>7, <2>1, <2>2, <2>4 DEF StagesHold
  <2>7. TextInv'
        BY <1>1, <1>3, <2>1, <2>2, <2>3, <2>4 DEF TextInv, Clean, KeepsMemory
  <2>8. StatusInv'
        BY <1>1, <1>3, <1>7, <2>1, <2>2, <2>3, <2>4 DEF StatusInv, NoneCompacting,
               KeepsMemory
  <2>9. MarkInv'
        BY <1>1, <2>1, <2>4 DEF MarkInv
  <2>10. HumanInv'
         BY <1>1, <1>4, <2>1, <2>2, <2>3, <2>4 DEF HumanInv, KeepsMemory, MemoryTyped,
                IsDocument, IsMemory
  <2>11. QED
         BY <1>5, <2>5, <2>6, <2>7, <2>8, <2>9, <2>10
<1>8. CASE section = "save"
  <2>1. auto' = Idle /\ man' = man /\ memoryLock' = Leave("auto")
        BY <1>8 DEF Rejected
  <2>2. auto.stage = "saving" /\ memoryLock' = "nobody" /\ man.stage \in {"none", "wait"}
        BY <1>8, <2>1 DEF StagesHold, Leave
  <2>3. IsUpdate(auto', fresh) /\ auto'.stage = "none" /\ auto'.memory.origin = "automatic"
        BY <2>1, MemoryIdle
  <2>4. MemoryTyped'
        BY <1>1, <1>2, <1>3, <1>6, <2>1, <2>2, <2>3 DEF MemoryTyped
  <2>5. StagesHold'
        BY <1>1, <1>8, <2>1, <2>2, <2>3 DEF StagesHold
  <2>6. TextInv'
        BY <1>1, <1>3, <2>1, <2>2, <2>3 DEF TextInv, Clean
  <2>7. StatusInv'
        BY <1>3, <1>8 DEF StatusInv
  <2>8. MarkInv'
        BY <1>1, <2>1, <2>3 DEF MarkInv
  <2>9. HumanInv'
        BY <1>1, <1>4, <2>1, <2>2, <2>3 DEF HumanInv, MemoryTyped, IsDocument, IsMemory
  <2>10. QED
         BY <1>5, <2>4, <2>5, <2>6, <2>7, <2>8, <2>9
<1>9. CASE section \in {"begin", "fail"}
  <2>1. auto' = auto /\ man' = Idle /\ memoryLock' = Leave("man")
        BY <1>9 DEF Rejected
  <2>2. /\ man.stage \in {"beginning", "recording"} /\ memoryLock' = "nobody"
        /\ auto.stage \in {"none", "wait", "ending"}
        /\ section = "begin" => man.stage = "beginning"
        BY <1>9, <2>1 DEF StagesHold, Leave
  <2>3. IsUpdate(man', fresh) /\ man'.stage = "none" /\ man'.memory.origin = "automatic"
        BY <2>1, MemoryIdle
  <2>4. MemoryTyped'
        BY <1>1, <1>2, <1>3, <1>6, <2>1, <2>2, <2>3 DEF MemoryTyped
  <2>5. StagesHold'
        BY <1>1, <1>9, <2>1, <2>2, <2>3 DEF StagesHold
  <2>6. TextInv'
        BY <1>1, <1>3, <2>1, <2>2, <2>3 DEF TextInv, Clean
  <2>7. StatusInv'
        BY <1>1, <1>3, <1>9, <2>1, <2>2, <2>3 DEF StatusInv, NoneCompacting
  <2>8. MarkInv'
        BY <1>1, <2>1, <2>3 DEF MarkInv
  <2>9. HumanInv'
        BY <1>1, <1>4, <2>1, <2>2, <2>3 DEF HumanInv, MemoryTyped, IsDocument, IsMemory
  <2>10. QED
         BY <1>5, <2>4, <2>5, <2>6, <2>7, <2>8, <2>9
<1>10. CASE section = "complete"
  <2>1. auto' = auto /\ man' = [man EXCEPT !.stage = "failing"] /\ memoryLock' = memoryLock
        BY <1>10 DEF Rejected
  <2>2. /\ man.stage = "completing" /\ memoryLock = "man"
        /\ auto.stage \in {"none", "wait", "ending"}
        BY <1>10 DEF StagesHold
  <2>3. IsUpdate(man', fresh) /\ man'.stage = "failing" /\ man'.memory = man.memory
        BY <2>1 DEF MemoryTyped, IsUpdate, Idle
  <2>4. MemoryTyped'
        BY <1>1, <1>2, <1>3, <1>6, <2>1, <2>2, <2>3 DEF MemoryTyped
  <2>5. StagesHold'
        BY <1>1, <1>10, <2>1, <2>2, <2>3 DEF StagesHold
  <2>6. TextInv'
        BY <1>1, <1>3, <2>1, <2>2, <2>3 DEF TextInv, Clean
  <2>7. StatusInv'
        BY <1>1, <1>3, <2>1, <2>2, <2>3 DEF StatusInv
  <2>8. MarkInv'
        BY <1>1, <2>1, <2>3 DEF MarkInv
  <2>9. HumanInv'
        BY <1>1, <1>4, <2>1, <2>2, <2>3 DEF HumanInv, MemoryTyped, IsDocument, IsMemory
  <2>10. QED
         BY <1>5, <2>4, <2>5, <2>6, <2>7, <2>8, <2>9
<1>11. CASE section \notin {"mark", "save", "begin", "fail", "complete"}
  <2>1. auto' = auto /\ man' = man /\ memoryLock' = memoryLock
        BY <1>11 DEF Rejected
  <2>2. MemoryTyped'
        BY <1>1, <1>2, <1>3, <1>6, <2>1 DEF MemoryTyped
  <2>3. StagesHold'
        BY <1>1, <1>11, <2>1 DEF StagesHold
  <2>4. TextInv'
    <3>1. Messages(saved) \subseteq Messages(doc) /\ saved.deleted \subseteq doc.deleted
          BY DEF SectionAdds
    <3>2. QED
          BY <1>1, <1>3, <2>1, <3>1 DEF TextInv, Clean, Noticed, Messages
  <2>5. StatusInv'
        BY <1>1, <1>3, <1>11, <2>1 DEF StatusInv, NoneCompacting, StagesHold
  <2>6. MarkInv'
        BY <1>1, <2>1 DEF MarkInv
  <2>7. HumanInv'
        BY <1>1, <1>4, <1>11, <2>1 DEF HumanInv, MemoryTyped, IsDocument, IsMemory
  <2>8. QED
        BY <1>5, <2>2, <2>3, <2>4, <2>5, <2>6, <2>7
<1>12. QED
       BY <1>7, <1>8, <1>9, <1>10, <1>11

\* Crash keeps the invariant: what was not saved is gone, the updates with it.
LEMMA CrashKeeps == MemoryInv /\ Crash => MemoryInv'
<1> SUFFICES ASSUME MemoryInv, Crash PROVE MemoryInv'
    OBVIOUS
<1> USE DEF MemoryInv
<1> DEFINE d == Loaded(saved)
<1>1. /\ doc' = d /\ saved' = d /\ previousState' = d
      /\ section' = "free" /\ memoryLock' = "nobody"
      /\ auto' = Idle /\ dirty' = FALSE /\ man' = Idle /\ runs' = 0
      /\ told' = [told EXCEPT !.stuck = FALSE, !.behind = FALSE, !.restarted = TRUE]
      /\ UNCHANGED <<scope, fresh>> /\ Spend("crash")
      BY DEF Crash
<1>2. /\ IsDocument(d, fresh) /\ KeepsMemory(saved.mem, d.mem) /\ ~Compacting(d.mem)
      /\ d.msgs = saved.msgs /\ d.deleted = saved.deleted
      BY MemoryLoaded DEF MemoryTyped
<1> HIDE DEF d
<1>3. /\ left' \in [Events -> Nat] /\ left["edit"] \in Nat /\ left'["edit"] \in Nat
      /\ left'["edit"] <= left["edit"]
      BY <1>1, MemorySpend DEF MemoryTyped, Events
<1>4. IsUpdate(Idle, fresh) /\ Idle.stage = "none" /\ Idle.memory.origin = "automatic"
      BY MemoryIdle
<1>5. MemoryTyped'
      BY <1>1, <1>2, <1>3, <1>4 DEF MemoryTyped
<1>6. SectionAdds'
      BY <1>1 DEF SectionAdds
<1>7. StagesHold'
      BY <1>1, <1>4 DEF StagesHold
<1>8. TextInv'
      BY <1>1, <1>2, <1>4 DEF TextInv, Clean, KeepsMemory, MemoryTyped
<1>9. StatusInv'
      BY <1>1, <1>2, <1>4 DEF StatusInv, NoneCompacting
<1>10. MarkInv'
       BY <1>1, <1>4 DEF MarkInv
<1>11. HumanInv'
  <2>1. d.mem.origin = "user" => d.mem.edit > left'["edit"] /\ d.mem.edit \in Nat
    <3>1. saved.mem.origin = "user" => saved.mem.edit > left["edit"]
          BY DEF HumanInv
    <3>2. d.mem.edit = saved.mem.edit /\ d.mem.origin = saved.mem.origin
            /\ d.mem.edit \in Nat
          BY <1>2 DEF KeepsMemory, IsMemory
    <3>3. QED
          BY <1>3, <3>1, <3>2
  <2>2. QED
        BY <1>1, <1>4, <2>1 DEF HumanInv
<1>12. QED
       BY <1>5, <1>6, <1>7, <1>8, <1>9, <1>10, <1>11

-----------------------------------------------------------------------------
(* The memory of the thread: theorems.                                     *)

\* At first nothing is excepted.
LEMMA NothingIsTold ==
    NothingTold \in [{"overtaken", "missed", "unsaved", "stuck", "behind", "restarted"} -> BOOLEAN]
BY DEF NothingTold

\* The first document satisfies the invariant.
LEMMA MemoryStarts == MemoryInit => MemoryInv
<1> SUFFICES ASSUME MemoryInit PROVE MemoryInv
    OBVIOUS
<1>1. PICK s \in Starts :
        LET empty == [msgs |-> [i \in 1 .. s.messages |-> i], deleted |-> {}, evidence |-> 0,
                      mem |-> NoMemory, tag |-> 1]
            first == [empty EXCEPT !.mem = Projection(empty)]
        IN  /\ scope = s.scope /\ left = s.left
            /\ doc = first /\ saved = first /\ previousState = first
            /\ section = "free" /\ memoryLock = "nobody"
            /\ auto = Idle /\ dirty = FALSE /\ man = Idle
            /\ runs = 0 /\ fresh = s.messages + 1
            /\ told = NothingTold
      BY DEF MemoryInit
<1> DEFINE empty == [msgs |-> [i \in 1 .. s.messages |-> i], deleted |-> {}, evidence |-> 0,
                     mem |-> NoMemory, tag |-> 1]
           p == Projection(empty)
           first == [empty EXCEPT !.mem = p]
<1>2. s.scope \in Scopes /\ s.messages \in Nat /\ s.left \in [Events -> Nat]
      BY ContextAssumption
<1>3. IsProjection(p) /\ p.covers = {}
      BY MemoryProjection, MemoryNoText DEF IsProjection
<1> HIDE DEF p
<1>4. /\ DOMAIN first = {"msgs", "deleted", "evidence", "mem", "tag"}
      /\ first.msgs = [i \in 1 .. s.messages |-> i] /\ first.deleted = {}
      /\ first.mem = p /\ first.tag = 1
      OBVIOUS
<1>5. doc = first /\ saved = first /\ previousState = first
      BY <1>1 DEF p
<1> HIDE DEF first
<1>6. IsDocument(first, fresh)
  <2>1. first.msgs \in Seq(Nat) /\ \A n \in Messages(first) : n < fresh
        BY <1>1, <1>2, <1>4 DEF Messages
  <2>2. QED
        BY <1>3, <1>4, <2>1 DEF IsDocument, IsProjection, Tags
<1>7. IsUpdate(Idle, fresh) /\ Idle.stage = "none" /\ Idle.memory.origin = "automatic"
      BY MemoryIdle
<1>8. MemoryTyped
  <2>1. /\ scope = s.scope /\ left = s.left /\ memoryLock = "nobody" /\ told = NothingTold
        /\ dirty = FALSE /\ runs = 0 /\ fresh = s.messages + 1
        BY <1>1, Zenon
  <2>2. scope \in Scopes /\ left \in [Events -> Nat]
        BY <2>1, <1>2
  <2>3. runs \in Nat /\ fresh \in Nat
        BY <2>1, <1>2
  <2>4. dirty \in BOOLEAN /\ memoryLock \in {"nobody", "auto", "man"}
        BY <2>1, Zenon
  <2>5. told \in [{"overtaken", "missed", "unsaved", "stuck", "behind", "restarted"} -> BOOLEAN]
        BY <2>1, NothingIsTold, Zenon
  <2>6. IsDocument(doc, fresh) /\ IsDocument(saved, fresh)
        BY <1>5, <1>6
  <2>7. IsUpdate(auto, fresh) /\ IsUpdate(man, fresh)
        BY <1>1, <1>7
  <2>8. QED
        BY <2>2, <2>3, <2>4, <2>5, <2>6, <2>7, Zenon DEF MemoryTyped
<1>9. SectionAdds
      BY <1>5 DEF SectionAdds
<1>10. StagesHold
       BY <1>1, <1>7 DEF StagesHold
<1>11. TextInv
       BY <1>3, <1>4, <1>5, <1>1, <1>7 DEF TextInv, Clean
<1>12. StatusInv
       BY <1>3, <1>4, <1>5, <1>1, <1>7 DEF StatusInv, NoneCompacting, Compacting,
              IsProjection
<1>13. MarkInv
       BY <1>1, <1>7 DEF MarkInv
<1>14. HumanInv
       BY <1>1, <1>3, <1>4, <1>5, <1>7 DEF HumanInv, IsProjection
<1>15. QED
       BY <1>8, <1>9, <1>10, <1>11, <1>12, <1>13, <1>14 DEF MemoryInv

\* A stuttering step keeps the invariant.
LEMMA MemoryStands == MemoryInv /\ UNCHANGED memoryVars => MemoryInv'
<1> SUFFICES ASSUME MemoryInv, UNCHANGED memoryVars PROVE MemoryInv'
    OBVIOUS
<1> USE DEF MemoryInv
<1>1. UNCHANGED <<scope, doc, saved, previousState, section, memoryLock, auto, dirty, man,
                  runs, fresh, told, left>>
      BY DEF memoryVars
<1>2. MemoryTyped' /\ SectionAdds' /\ StagesHold'
      BY <1>1 DEF MemoryTyped, SectionAdds, StagesHold, Free, Messages
<1>3. TextInv' /\ StatusInv' /\ MarkInv' /\ HumanInv'
      BY <1>1 DEF TextInv, Clean, Noticed, Messages, StatusInv, NoneCompacting, MarkInv,
             HumanInv
<1>4. QED
      BY <1>2, <1>3

\* Every step keeps the invariant.
LEMMA MemoryStep == MemoryInv /\ [MemoryNext]_memoryVars => MemoryInv'
<1> SUFFICES ASSUME MemoryInv, [MemoryNext]_memoryVars PROVE MemoryInv'
    OBVIOUS
<1>1. CASE User \/ Reply
      BY <1>1, MemoryAccept, MemoryReply, MemoryDelete, MemoryEdit, MemoryEvidence,
         PersonKeeps DEF User
<1>2. CASE AutoStep
      BY <1>2, AutoReadsKeeps, AutoMarksKeeps, AutoAsksKeeps, AutoAnsweredKeeps,
         AutoSavesKeeps, AutoRefreshesKeeps, AutoNextKeeps, AutoEndsKeeps DEF AutoStep
<1>3. CASE ManStep
      BY <1>3, ManLocksKeeps, ManBeginsKeeps, ManAsksKeeps, ManAnsweredKeeps,
         ManCompletesKeeps, ManRecordsFailureKeeps DEF ManStep
<1>4. CASE \/ Compact \/ RunEnds \/ RunEndsUnasked \/ SectionSaved
           \/ AutoFails \/ ManFails \/ Rejected \/ Crash
      BY <1>4, CompactKeeps, RunEndsKeeps, SavedKeeps, AutoFailsKeeps, ManFailsKeeps,
         RejectedKeeps, CrashKeeps
<1>5. CASE UNCHANGED memoryVars
      BY <1>5, MemoryStands
<1>6. QED
      BY <1>1, <1>2, <1>3, <1>4, <1>5 DEF MemoryNext

\* The invariant holds in every state.
LEMMA MemoryInvariance == MemorySpec => []MemoryInv
<1>1. MemoryInit => MemoryInv
      BY MemoryStarts
<1>2. MemoryInv /\ [MemoryNext]_memoryVars => MemoryInv'
      BY MemoryStep
<1>3. QED
      BY <1>1, <1>2, PTL DEF MemorySpec

\* docs/guides/architecture.md: for any starts, no saved text was inferred from a deleted
\* message, however a deletion meets a refresh or a compaction; and a memory that says
\* it is being compacted has an update that ends it.  The exceptions are the property's.
THEOREM MemoryTheorem == MemorySpec => []MemoryConsistent
<1>1. MemoryInv => MemoryTypeOK
  <2> SUFFICES ASSUME MemoryInv PROVE MemoryTypeOK
      OBVIOUS
  <2>1. previousState = saved
        BY DEF MemoryInv, SectionAdds
  <2>2. \A d \in {doc, saved} :
          /\ d.deleted \subseteq {d.msgs[i] : i \in DOMAIN d.msgs}
          /\ d.mem.origin \in {"automatic", "inference", "user"}
          /\ d.mem.status \in {"empty", "current", "stale", "compacting", "failed"}
          /\ d.mem.edit # 0 => d.mem.origin = "user"
          /\ d.tag \in Tags
        BY DEF MemoryInv, MemoryTyped, IsDocument, IsMemory, Messages
  <2>3. QED
        BY <2>1, <2>2 DEF MemoryTypeOK, MemoryInv, MemoryTyped, SectionAdds, StagesHold
<1>2. MemoryInv => DeletedContentGoes
      BY DEF MemoryInv, TextInv, Clean, DeletedContentGoes
<1>3. MemoryInv => CompactingHasAnOwner
  <2> SUFFICES ASSUME MemoryInv, doc.mem.status = "compacting", ~told.stuck, ~told.unsaved
               PROVE  memoryLock # "nobody"
      BY DEF CompactingHasAnOwner
  <2>1. QED
        BY DEF MemoryInv, StatusInv, NoneCompacting, Compacting
<1>4. MemoryInv => MemoryConsistent
      BY <1>1, <1>2, <1>3 DEF MemoryConsistent
<1>5. QED
      BY <1>4, MemoryInvariance, PTL

\* What HumanEditStands says of a step.
EditStands ==
    saved.mem.origin = "user" =>
      \/ saved'.mem.origin = "user" /\ saved'.mem.edit <= saved.mem.edit
      \/ section = "complete" /\ man.edit = saved.mem.edit

\* Only a section that saves, and a restart, change what is on disk, and neither takes an
\* edit away.
LEMMA MemorySaves == MemoryInv /\ [MemoryNext]_memoryVars => EditStands
<1> SUFFICES ASSUME MemoryInv, [MemoryNext]_memoryVars, saved.mem.origin = "user"
             PROVE  EditStands
    BY DEF EditStands
<1>1. IsDocument(saved, fresh) /\ saved.mem.edit \in Nat
      BY DEF MemoryInv, MemoryTyped, IsDocument, IsMemory
<1>2. CASE SectionSaved
      BY <1>2 DEF SectionSaved, EditStands, MemoryInv, HumanInv
<1>3. CASE Crash
  <2>1. saved' = Loaded(saved)
        BY <1>3 DEF Crash
  <2>2. KeepsMemory(saved.mem, Loaded(saved).mem)
        BY <1>1, MemoryLoaded
  <2>3. QED
        BY <1>1, <2>1, <2>2 DEF EditStands, KeepsMemory
<1>4. CASE UNCHANGED saved
      BY <1>1, <1>4 DEF EditStands
<1>5. SectionSaved \/ Crash \/ UNCHANGED saved
  <2>1. User \/ Reply \/ Compact \/ RunEnds \/ RunEndsUnasked \/ AutoFails \/ ManFails
          \/ Rejected => UNCHANGED saved
        BY DEF User, Accept, Delete, EditMemory, ChangeEvidence, Reply, Compact, RunEnds,
               RunEndsUnasked, AutoFails, ManFails, Rejected
  <2>2. AutoStep => UNCHANGED saved
        BY DEF AutoStep, AutoReads, AutoMarks, AutoAsks, AutoAnswered, AutoSaves,
               AutoRefreshes, AutoNext, AutoEnds, host
  <2>3. ManStep => UNCHANGED saved
        BY DEF ManStep, ManLocks, ManBegins, ManAsks, ManAnswered, ManCompletes,
               ManRecordsFailure, host
  <2>4. QED
        BY <2>1, <2>2, <2>3 DEF MemoryNext, memoryVars
<1>6. QED
      BY <1>2, <1>3, <1>4, <1>5

\* docs/specs/product-spec.md, CTX-08: what a person saved is replaced only by a later edit
\* or by the compaction that was asked for after it, for any interleaving of edits,
\* refreshes, compactions, rejected persists and restarts.
THEOREM HumanEditTheorem == MemorySpec => HumanEditStands
<1>1. MemoryInv /\ [MemoryNext]_memoryVars => [EditStands]_memoryVars
      BY MemorySaves
<1>2. MemorySpec => [][EditStands]_memoryVars
      BY <1>1, MemoryInvariance, PTL DEF MemorySpec
<1>3. QED
      BY <1>2 DEF HumanEditStands, EditStands

=============================================================================
