------------------------- MODULE HostLifecycleProofs -------------------------
(***************************************************************************)
(* The host stops as it promises for any number of operations, imports,    *)
(* permissions and rejected persists.  The second half is about Routing,   *)
(* which shares nothing with HostLifecycle but this module: a message is   *)
(* routed as it promises for any number of messages, Agents, corrections,  *)
(* rejected persists and restarts.                                         *)
(***************************************************************************)
EXTENDS HostLifecycle, Routing, FiniteSetTheorems, WellFoundedInduction, TLAPS

Operations == Sends \cup Imports

-----------------------------------------------------------------------------
(* The inductive invariant.                                                *)

\* The values the variables take; the bound of activeAdmissions comes of CountInv.
ShapeInv ==
    /\ op \in [Operations -> {"idle", "active", "done", "failed"}]
    /\ activeAdmissions \in Nat
    /\ exclusiveAdmission \in BOOLEAN
    /\ document \subseteq Operations
    /\ reply \in [Sends -> {"none", "open", "waiting", "settled"}]
    /\ run \in [Sends -> {"none", "dropped", "running", "asking", "aborted", "done"}]
    /\ permission \in [Sends -> {"none", "pending", "resolved", "interrupted"}]
    /\ answer \in [Sends -> {"none", "active"}]
    /\ questions \in [Sends -> 0..MaxQuestions]
    /\ draining \in BOOLEAN
    /\ drain \in {"off", "runs", "quiet", "admissions", "runs again", "closing"}
    /\ closeState \in {"open", "closing", "closed"}
    /\ close \in {"off", "permissions", "admissions", "runs", "interrupt", "done"}
    /\ closedBy \in {"nobody", "drain", "signal"}
    /\ failures \in 0..MaxFailures

\* What is inside withAdmission.
Inside    == {o \in Operations : op[o] = "active"}
Answering == {s \in Sends : answer[s] = "active"}

\* The counter counts it.
CountInv == activeAdmissions = Cardinality(Inside) + Cardinality(Answering)

\* An import is inside alone, with an empty document.
GateInv ==
    \A i \in Imports : op[i] = "active" =>
        /\ exclusiveAdmission /\ document = {}
        /\ Inside = {i} /\ Answering = {}

\* The gate is exclusive only for an import.
ExclusiveInv == exclusiveAdmission => \E i \in Imports : op[i] = "active"

\* The program counters of close and drain against the flags they set.
ControlInv ==
    /\ closeState = "open" <=> close = "off"
    /\ closeState = "closed" <=> close = "done"
    /\ closeState = "open" <=> closedBy = "nobody"
    /\ draining <=> drain \in {"admissions", "runs again", "closing"}
    /\ closedBy = "drain" => drain = "closing"

\* What close has waited for does not come back.
QuietInv ==
    /\ close \in {"runs", "interrupt", "done"} => activeAdmissions = 0
    /\ close \in {"interrupt", "done"} => Live = {}
    /\ close \notin {"off", "permissions"} =>
         \A s \in Sends : permission[s] # "pending" /\ run[s] \notin {"running", "asking"}

\* Nor what a drain has waited for, before it closes.
DrainInv ==
    /\ drain \in {"runs again", "closing"} => activeAdmissions = 0
    /\ closedBy = "drain" => Live = {}
    /\ closedBy \in {"nobody", "drain"} =>
         \A s \in Sends : run[s] \notin {"aborted", "dropped"}

IInv ==
    /\ ShapeInv
    /\ CountInv
    /\ GateInv
    /\ ExclusiveInv
    /\ ControlInv
    /\ QuietInv
    /\ DrainInv
    /\ ImportOverwritesNothing
    /\ ClosedSettlesReplies

-----------------------------------------------------------------------------
(* Numbers, and who is inside.                                             *)

\* The counters and their bounds.
LEMMA Numbers ==
  ASSUME IInv
  PROVE  /\ activeAdmissions \in Nat
         /\ failures \in 0..MaxFailures
         /\ questions \in [Sends -> 0..MaxQuestions]
BY DEF IInv, ShapeInv

\* Both sets are finite, so their cardinalities are numbers.
LEMMA InsideFinite ==
  /\ IsFiniteSet(Inside) /\ Cardinality(Inside) \in Nat
  /\ IsFiniteSet(Answering) /\ Cardinality(Answering) \in Nat
  /\ Cardinality(Answering) <= Cardinality(Sends) /\ Cardinality(Sends) \in Nat
<1>1. IsFiniteSet(Operations)
    BY OperationsAssumption, FS_Union DEF Operations
<1>2. IsFiniteSet(Inside) /\ IsFiniteSet(Answering)
    BY <1>1, OperationsAssumption, FS_Subset DEF Inside, Answering
<1>3. Cardinality(Answering) <= Cardinality(Sends)
    BY OperationsAssumption, FS_Subset DEF Answering
<1> QED BY <1>2, <1>3, OperationsAssumption, FS_CardinalityType

\* When the counter is zero, nobody is inside.
LEMMA NobodyInside ==
  ASSUME CountInv, activeAdmissions = 0
  PROVE  Inside = {} /\ Answering = {}
<1>1. Cardinality(Inside) = 0 /\ Cardinality(Answering) = 0
    BY InsideFinite DEF CountInv
<1> QED BY <1>1, InsideFinite, FS_EmptySet

\* While somebody is inside, the counter is not zero.
LEMMA SomebodyInside ==
  ASSUME CountInv, Inside # {} \/ Answering # {}
  PROVE  activeAdmissions # 0
BY NobodyInside

\* An operation that enters or leaves is counted.
LEMMA OperationEnters ==
  ASSUME IInv, NEW o \in Operations, op[o] # "active",
         op' = [op EXCEPT ![o] = "active"], answer' = answer,
         activeAdmissions' = activeAdmissions + 1
  PROVE  CountInv' /\ Inside' = Inside \cup {o} /\ Answering' = Answering
<1>1. Inside' = Inside \cup {o} /\ o \notin Inside /\ Answering' = Answering
    BY DEF IInv, ShapeInv, Inside, Answering
<1>2. Cardinality(Inside \cup {o}) = Cardinality(Inside) + 1
    BY <1>1, InsideFinite, FS_AddElement
<1>3. CountInv'
    BY <1>1, <1>2, InsideFinite DEF IInv, CountInv
<1> QED BY <1>1, <1>3

LEMMA OperationLeaves ==
  ASSUME IInv, NEW o \in Operations, op[o] = "active",
         NEW end \in {"done", "failed"},
         op' = [op EXCEPT ![o] = end], answer' = answer,
         activeAdmissions' = activeAdmissions - 1
  PROVE  /\ CountInv' /\ activeAdmissions' \in Nat
         /\ Inside' = Inside \ {o} /\ Answering' = Answering
<1>1. Inside' = Inside \ {o} /\ o \in Inside /\ Answering' = Answering
    BY DEF IInv, ShapeInv, Inside, Answering
<1>2. Cardinality(Inside \ {o}) = Cardinality(Inside) - 1
    BY <1>1, InsideFinite, FS_RemoveElement
<1>3. activeAdmissions # 0
    BY <1>1, SomebodyInside DEF IInv
<1>4. activeAdmissions \in Nat /\ activeAdmissions = Cardinality(Inside) + Cardinality(Answering)
    BY DEF IInv, CountInv, ShapeInv
<1>5. activeAdmissions' \in Nat
    BY <1>3, <1>4
<1>6. CountInv'
    BY <1>1, <1>2, <1>4, InsideFinite DEF CountInv
<1> QED BY <1>1, <1>5, <1>6

LEMMA AnswerEnters ==
  ASSUME IInv, NEW s \in Sends, answer[s] = "none",
         answer' = [answer EXCEPT ![s] = "active"], op' = op,
         activeAdmissions' = activeAdmissions + 1
  PROVE  CountInv' /\ Answering' = Answering \cup {s} /\ Inside' = Inside
<1>1. Answering' = Answering \cup {s} /\ s \notin Answering /\ Inside' = Inside
    BY DEF IInv, ShapeInv, Inside, Answering
<1>2. Cardinality(Answering \cup {s}) = Cardinality(Answering) + 1
    BY <1>1, InsideFinite, FS_AddElement
<1>3. CountInv'
    BY <1>1, <1>2, InsideFinite DEF IInv, CountInv
<1> QED BY <1>1, <1>3

LEMMA AnswerLeaves ==
  ASSUME IInv, NEW s \in Sends, answer[s] = "active",
         answer' = [answer EXCEPT ![s] = "none"], op' = op,
         activeAdmissions' = activeAdmissions - 1
  PROVE  /\ CountInv' /\ activeAdmissions' \in Nat
         /\ Answering' = Answering \ {s} /\ Inside' = Inside
<1>1. Answering' = Answering \ {s} /\ s \in Answering /\ Inside' = Inside
    BY DEF IInv, ShapeInv, Inside, Answering
<1>2. Cardinality(Answering \ {s}) = Cardinality(Answering) - 1
    BY <1>1, InsideFinite, FS_RemoveElement
<1>3. activeAdmissions # 0
    BY <1>1, SomebodyInside DEF IInv
<1>4. activeAdmissions \in Nat /\ activeAdmissions = Cardinality(Inside) + Cardinality(Answering)
    BY DEF IInv, CountInv, ShapeInv
<1>5. activeAdmissions' \in Nat
    BY <1>3, <1>4
<1>6. CountInv'
    BY <1>1, <1>2, <1>4, InsideFinite DEF CountInv
<1> QED BY <1>1, <1>5, <1>6

\* What holds of the gate only depends on who is inside and on the document.
LEMMA GateFrame ==
  ASSUME IInv, UNCHANGED <<op, activeAdmissions, exclusiveAdmission, document, answer>>
  PROVE  /\ CountInv' /\ GateInv' /\ ExclusiveInv' /\ ImportOverwritesNothing'
         /\ Inside' = Inside /\ Answering' = Answering
<1>1. Inside' = Inside /\ Answering' = Answering
    BY DEF Inside, Answering
<1> QED
    BY <1>1 DEF IInv, CountInv, GateInv, ExclusiveInv, ImportOverwritesNothing

-----------------------------------------------------------------------------
(* One lemma for each action.                                             *)

\* A send is let in by an open gate.
LEMMA StartSendPreserves ==
  ASSUME IInv, NEW s \in Sends, StartSend(s)
  PROVE  IInv'
<1>1. /\ s \in Operations
      /\ op[s] # "active"
      /\ op' = [op EXCEPT ![s] = "active"]
      /\ answer' = answer
      /\ activeAdmissions' = activeAdmissions + 1
    BY DEF Operations, StartSend, Enter, Admitting, closing, runs, shutdown
<1>2. CountInv' /\ Inside' = Inside \cup {s} /\ Answering' = Answering
    BY <1>1, OperationEnters
<1>3. activeAdmissions' \in Nat
    BY <1>1, Numbers
<1>4. failures' \in 0..MaxFailures
    BY Numbers DEF StartSend, Enter, Admitting, closing, runs, shutdown
<1>5. questions' \in [Sends -> 0..MaxQuestions]
    BY Numbers DEF StartSend, Enter, Admitting, closing, runs, shutdown
<1>6. reply' \in [Sends -> {"none", "open", "waiting", "settled"}]
    BY DEF IInv, ShapeInv, StartSend, Enter, Admitting, closing, runs, shutdown
<1>7. run' \in [Sends -> {"none", "dropped", "running", "asking", "aborted", "done"}]
    BY DEF IInv, ShapeInv, StartSend, Enter, Admitting, closing, runs, shutdown
<1>8. permission' \in [Sends -> {"none", "pending", "resolved", "interrupted"}]
    BY DEF IInv, ShapeInv, StartSend, Enter, Admitting, closing, runs, shutdown
<1>9. ShapeInv'
    BY <1>2, <1>3, <1>4, <1>5, <1>6, <1>7, <1>8 DEF IInv, ShapeInv, Operations,
     closing, StartSend, Enter, Admitting, runs, shutdown
<1>10. op[s] # "active" => ~exclusiveAdmission
    BY DEF StartSend, Enter, Admitting, closing
<1>11. GateInv'
  <2> SUFFICES ASSUME NEW i \in Imports, op'[i] = "active" PROVE FALSE
    BY DEF GateInv
  <2>1. i # s /\ i \in Operations /\ op[i] = "active"
    BY <1>1, OperationsAssumption DEF IInv, ShapeInv, Operations
  <2>2. exclusiveAdmission /\ Inside = {i}
    BY <2>1 DEF IInv, GateInv
  <2> QED BY <1>1, <1>10, <2>1, <2>2 DEF Inside
<1>12. ExclusiveInv'
    BY <1>2, OperationsAssumption DEF IInv, ShapeInv, GateInv, ExclusiveInv, Inside,
     Answering, Operations, StartSend, Enter, Admitting, closing, runs, shutdown
<1>13. ControlInv'
    BY <1>2 DEF IInv, ShapeInv, ControlInv, closing, StartSend, Enter, Admitting,
     runs, shutdown
<1>14. QuietInv'
    BY <1>2, SomebodyInside DEF IInv, ShapeInv, ControlInv, QuietInv, Live, Inside,
     Answering, Operations, closing, StartSend, Enter, Admitting, runs, shutdown
<1>15. DrainInv'
    BY <1>2, SomebodyInside DEF IInv, ShapeInv, ControlInv, DrainInv, Live, Inside,
     Answering, Operations, closing, StartSend, Enter, Admitting, runs, shutdown
<1>16. ImportOverwritesNothing'
    BY <1>2, OperationsAssumption DEF IInv, ShapeInv, GateInv,
     ImportOverwritesNothing, Inside, Operations, StartSend, Enter, Admitting,
     closing, runs, shutdown
<1>17. ClosedSettlesReplies'
    BY <1>2, SomebodyInside, BoundAssumption DEF IInv, ShapeInv, ControlInv,
     QuietInv, ClosedSettlesReplies, Live, Inside, Answering, Operations, closing,
     StartSend, Enter, Admitting, runs, shutdown
<1> QED BY <1>2, <1>9, <1>11, <1>12, <1>13, <1>14, <1>15, <1>16, <1>17 DEF IInv

\* A message that is accepted was inside, so no import was and no stop is over.
LEMMA AcceptSendPreserves ==
  ASSUME IInv, NEW s \in Sends, AcceptSend(s)
  PROVE  IInv'
<1>1. /\ s \in Operations
      /\ op[s] = "active"
      /\ \E end \in {"done", "failed"} : op' = [op EXCEPT ![s] = end]
      /\ answer' = answer
      /\ activeAdmissions' = activeAdmissions - 1
    BY DEF Operations, AcceptSend, Leave, shutdown
<1>2. CountInv' /\ Inside' = Inside \ {s} /\ Answering' = Answering /\ activeAdmissions' \in Nat
    BY <1>1, OperationLeaves
<1>3. ShapeInv'
    BY <1>2, BoundAssumption, ZenonT(60) DEF IInv, ShapeInv, Operations, closing, AcceptSend,
     Leave, runs, shutdown
<1>4. op[s] # "active" => ~exclusiveAdmission
    BY DEF AcceptSend, Leave
<1>5. GateInv'
  <2> SUFFICES ASSUME NEW i \in Imports, op'[i] = "active" PROVE FALSE
    BY DEF GateInv
  <2>1. i # s /\ i \in Operations /\ op[i] = "active"
    BY <1>1, OperationsAssumption DEF IInv, ShapeInv, Operations
  <2>2. exclusiveAdmission /\ Inside = {i}
    BY <2>1 DEF IInv, GateInv
  <2> QED BY <1>1, <1>4, <2>1, <2>2 DEF Inside
<1>6. ExclusiveInv'
    BY <1>2, OperationsAssumption, ZenonT(60) DEF IInv, ShapeInv, GateInv, ExclusiveInv, Inside,
     Answering, Operations, AcceptSend, Leave, runs, shutdown
<1>7. ControlInv'
    BY <1>2 DEF IInv, ShapeInv, ControlInv, closing, AcceptSend, Leave, runs, shutdown
<1>8. QuietInv'
    BY <1>2, SomebodyInside, ZenonT(60) DEF IInv, ShapeInv, ControlInv, QuietInv, Live, Inside,
     Answering, Operations, closing, AcceptSend, Leave, runs, shutdown
<1>9. DrainInv'
    BY <1>2, SomebodyInside, ZenonT(60) DEF IInv, ShapeInv, ControlInv, DrainInv, Live, Inside,
     Answering, Operations, closing, AcceptSend, Leave, runs, shutdown
<1>10. ImportOverwritesNothing'
    BY <1>2, OperationsAssumption DEF IInv, ShapeInv, GateInv,
     ImportOverwritesNothing, Inside, Operations, AcceptSend, Leave, runs, shutdown
<1>11. ClosedSettlesReplies'
    BY <1>2, SomebodyInside, BoundAssumption DEF IInv, ShapeInv, ControlInv,
     QuietInv, ClosedSettlesReplies, Live, Inside, Answering, Operations, closing,
     AcceptSend, Leave, runs, shutdown
<1> QED BY <1>2, <1>3, <1>5, <1>6, <1>7, <1>8, <1>9, <1>10, <1>11 DEF IInv

\* A send that fails leaves only the gate.
LEMMA RejectSendPreserves ==
  ASSUME IInv, NEW s \in Sends, RejectSend(s)
  PROVE  IInv'
<1>1. /\ s \in Operations
      /\ op[s] = "active"
      /\ \E end \in {"done", "failed"} : op' = [op EXCEPT ![s] = end]
      /\ answer' = answer
      /\ activeAdmissions' = activeAdmissions - 1
    BY DEF Operations, RejectSend, Leave, runs, shutdown
<1>2. CountInv' /\ Inside' = Inside \ {s} /\ Answering' = Answering /\ activeAdmissions' \in Nat
    BY <1>1, OperationLeaves
<1>3. ShapeInv'
    BY <1>2, BoundAssumption, ZenonT(60) DEF IInv, ShapeInv, Operations, closing, RejectSend,
     Leave, runs, shutdown
<1>4. op[s] # "active" => ~exclusiveAdmission
    BY DEF RejectSend, Leave
<1>5. GateInv'
  <2> SUFFICES ASSUME NEW i \in Imports, op'[i] = "active" PROVE FALSE
    BY DEF GateInv
  <2>1. i # s /\ i \in Operations /\ op[i] = "active"
    BY <1>1, OperationsAssumption DEF IInv, ShapeInv, Operations
  <2>2. exclusiveAdmission /\ Inside = {i}
    BY <2>1 DEF IInv, GateInv
  <2> QED BY <1>1, <1>4, <2>1, <2>2 DEF Inside
<1>6. ExclusiveInv'
    BY <1>2, OperationsAssumption, ZenonT(60) DEF IInv, ShapeInv, GateInv, ExclusiveInv, Inside,
     Answering, Operations, RejectSend, Leave, runs, shutdown
<1>7. ControlInv'
    BY <1>2 DEF IInv, ShapeInv, ControlInv, closing, RejectSend, Leave, runs, shutdown
<1>8. QuietInv'
    BY <1>2, SomebodyInside DEF IInv, ShapeInv, ControlInv, QuietInv, Live, Inside,
     Answering, Operations, closing, RejectSend, Leave, runs, shutdown
<1>9. DrainInv'
    BY <1>2, SomebodyInside DEF IInv, ShapeInv, ControlInv, DrainInv, Live, Inside,
     Answering, Operations, closing, RejectSend, Leave, runs, shutdown
<1>10. ImportOverwritesNothing'
    BY <1>2, OperationsAssumption DEF IInv, ShapeInv, GateInv,
     ImportOverwritesNothing, Inside, Operations, RejectSend, Leave, runs, shutdown
<1>11. ClosedSettlesReplies'
    BY <1>2, SomebodyInside, BoundAssumption DEF IInv, ShapeInv, ControlInv,
     QuietInv, ClosedSettlesReplies, Live, Inside, Answering, Operations, closing,
     RejectSend, Leave, runs, shutdown
<1> QED BY <1>2, <1>3, <1>5, <1>6, <1>7, <1>8, <1>9, <1>10, <1>11 DEF IInv

\* An import enters when nobody is inside.
LEMMA StartImportPreserves ==
  ASSUME IInv, NEW i \in Imports, StartImport(i)
  PROVE  IInv'
<1>1. /\ i \in Operations
      /\ op[i] # "active"
      /\ op' = [op EXCEPT ![i] = "active"]
      /\ answer' = answer
      /\ activeAdmissions' = activeAdmissions + 1
    BY DEF Operations, StartImport, Enter, Admitting, closing, runs, shutdown
<1>2. CountInv' /\ Inside' = Inside \cup {i} /\ Answering' = Answering
    BY <1>1, OperationEnters
<1>3. activeAdmissions' \in Nat
    BY <1>1, Numbers
<1>4. failures' \in 0..MaxFailures
    BY Numbers DEF StartImport, Enter, Admitting, closing, runs, shutdown
<1>5. questions' \in [Sends -> 0..MaxQuestions]
    BY Numbers DEF StartImport, Enter, Admitting, closing, runs, shutdown
<1>6. reply' \in [Sends -> {"none", "open", "waiting", "settled"}]
    BY DEF IInv, ShapeInv, StartImport, Enter, Admitting, closing, runs, shutdown
<1>7. run' \in [Sends -> {"none", "dropped", "running", "asking", "aborted", "done"}]
    BY DEF IInv, ShapeInv, StartImport, Enter, Admitting, closing, runs, shutdown
<1>8. permission' \in [Sends -> {"none", "pending", "resolved", "interrupted"}]
    BY DEF IInv, ShapeInv, StartImport, Enter, Admitting, closing, runs, shutdown
<1>9. ShapeInv'
    BY <1>2, <1>3, <1>4, <1>5, <1>6, <1>7, <1>8 DEF IInv, ShapeInv, Operations,
     closing, StartImport, Enter, Admitting, runs, shutdown
<1>10. GateInv'
    BY <1>2, OperationsAssumption, NobodyInside, SomebodyInside DEF IInv, ShapeInv,
     GateInv, ExclusiveInv, Inside, Answering, Operations, StartImport, Enter,
     Admitting, closing, runs, shutdown
<1>11. ExclusiveInv'
    BY <1>2, OperationsAssumption DEF IInv, ShapeInv, GateInv, ExclusiveInv, Inside,
     Answering, Operations, StartImport, Enter, Admitting, closing, runs, shutdown
<1>12. ControlInv'
    BY <1>2 DEF IInv, ShapeInv, ControlInv, closing, StartImport, Enter, Admitting,
     runs, shutdown
<1>13. QuietInv'
    BY <1>2, SomebodyInside DEF IInv, ShapeInv, ControlInv, QuietInv, Live, Inside,
     Answering, Operations, closing, StartImport, Enter, Admitting, runs, shutdown
<1>14. DrainInv'
    BY <1>2, SomebodyInside DEF IInv, ShapeInv, ControlInv, DrainInv, Live, Inside,
     Answering, Operations, closing, StartImport, Enter, Admitting, runs, shutdown
<1>15. ImportOverwritesNothing'
    BY <1>2, OperationsAssumption DEF IInv, ShapeInv, GateInv,
     ImportOverwritesNothing, Inside, Operations, StartImport, Enter, Admitting,
     closing, runs, shutdown
<1>16. ClosedSettlesReplies'
    BY <1>2, SomebodyInside, BoundAssumption DEF IInv, ShapeInv, ControlInv,
     QuietInv, ClosedSettlesReplies, Live, Inside, Answering, Operations, closing,
     StartImport, Enter, Admitting, runs, shutdown
<1> QED BY <1>2, <1>9, <1>10, <1>11, <1>12, <1>13, <1>14, <1>15, <1>16 DEF IInv

\* An import that ends was alone and found the document empty.
LEMMA FinishImportPreserves ==
  ASSUME IInv, NEW i \in Imports, FinishImport(i)
  PROVE  IInv'
<1>1. /\ i \in Operations
      /\ op[i] = "active"
      /\ \E end \in {"done", "failed"} : op' = [op EXCEPT ![i] = end]
      /\ answer' = answer
      /\ activeAdmissions' = activeAdmissions - 1
    BY DEF Operations, FinishImport, Leave, runs, shutdown
<1>2. CountInv' /\ Inside' = Inside \ {i} /\ Answering' = Answering /\ activeAdmissions' \in Nat
    BY <1>1, OperationLeaves
<1>3. ShapeInv'
    BY <1>2, BoundAssumption, ZenonT(60) DEF IInv, ShapeInv, Operations, closing, FinishImport,
     Leave, runs, shutdown
<1>4. GateInv'
    BY <1>2, OperationsAssumption, NobodyInside, SomebodyInside DEF IInv, ShapeInv,
     GateInv, ExclusiveInv, Inside, Answering, Operations, FinishImport, Leave,
     runs, shutdown
<1>5. ExclusiveInv'
    BY <1>2, OperationsAssumption DEF IInv, ShapeInv, GateInv, ExclusiveInv, Inside,
     Answering, Operations, FinishImport, Leave, runs, shutdown
<1>6. ControlInv'
    BY <1>2 DEF IInv, ShapeInv, ControlInv, closing, FinishImport, Leave, runs,
     shutdown
<1>7. QuietInv'
    BY <1>2, SomebodyInside DEF IInv, ShapeInv, ControlInv, QuietInv, Live, Inside,
     Answering, Operations, closing, FinishImport, Leave, runs, shutdown
<1>8. DrainInv'
    BY <1>2, SomebodyInside DEF IInv, ShapeInv, ControlInv, DrainInv, Live, Inside,
     Answering, Operations, closing, FinishImport, Leave, runs, shutdown
<1>9. ImportOverwritesNothing'
    BY <1>2, OperationsAssumption DEF IInv, ShapeInv, GateInv,
     ImportOverwritesNothing, Inside, Operations, FinishImport, Leave, runs,
     shutdown
<1>10. ClosedSettlesReplies'
    BY <1>2, SomebodyInside, BoundAssumption DEF IInv, ShapeInv, ControlInv,
     QuietInv, ClosedSettlesReplies, Live, Inside, Answering, Operations, closing,
     FinishImport, Leave, runs, shutdown
<1> QED BY <1>2, <1>3, <1>4, <1>5, <1>6, <1>7, <1>8, <1>9, <1>10 DEF IInv

\* A run asks only while the host is open.
LEMMA AskPreserves ==
  ASSUME IInv, NEW s \in Sends, Ask(s)
  PROVE  IInv'
<1>1. /\ CountInv' /\ GateInv' /\ ExclusiveInv' /\ ImportOverwritesNothing'
      /\ Inside' = Inside /\ Answering' = Answering
    BY GateFrame DEF Ask, admission, shutdown
<1>2. activeAdmissions' \in Nat
    BY <1>1, Numbers DEF Ask, admission, shutdown
<1>3. failures' \in 0..MaxFailures
    BY Numbers DEF Ask, admission, shutdown
<1>4. questions' \in [Sends -> 0..MaxQuestions]
  <2>1. questions[s] + 1 \in 0..MaxQuestions
    BY Numbers, BoundAssumption DEF Ask
  <2> QED BY <2>1, Numbers DEF Ask
<1>5. reply' \in [Sends -> {"none", "open", "waiting", "settled"}]
    BY DEF IInv, ShapeInv, Ask, admission, runs, shutdown
<1>6. run' \in [Sends -> {"none", "dropped", "running", "asking", "aborted", "done"}]
    BY DEF IInv, ShapeInv, Ask, admission, runs, shutdown
<1>7. permission' \in [Sends -> {"none", "pending", "resolved", "interrupted"}]
    BY DEF IInv, ShapeInv, Ask, admission, runs, shutdown
<1>8. ShapeInv'
    BY <1>1, <1>2, <1>3, <1>4, <1>5, <1>6, <1>7 DEF IInv, ShapeInv, closing,
     Operations, Ask, admission, runs, shutdown
<1>9. ControlInv'
    BY <1>1 DEF IInv, ShapeInv, ControlInv, closing, Ask, admission, runs, shutdown
<1>10. QuietInv'
    BY <1>1 DEF IInv, ShapeInv, ControlInv, QuietInv, Live, closing, Ask, admission,
     runs, shutdown
<1>11. DrainInv'
    BY <1>1 DEF IInv, ShapeInv, ControlInv, DrainInv, Live, closing, Ask, admission,
     runs, shutdown
<1>12. ClosedSettlesReplies'
    BY <1>1 DEF IInv, ShapeInv, ControlInv, QuietInv, ClosedSettlesReplies, Live,
     closing, Ask, admission, runs, shutdown
<1> QED BY <1>1, <1>8, <1>9, <1>10, <1>11, <1>12 DEF IInv

\* An answer is let in by an open gate.
LEMMA StartAnswerPreserves ==
  ASSUME IInv, NEW s \in Sends, StartAnswer(s)
  PROVE  IInv'
<1>1. /\ op' = op
      /\ answer[s] = "none"
      /\ answer' = [answer EXCEPT ![s] = "active"]
      /\ activeAdmissions' = activeAdmissions + 1
    BY DEF StartAnswer, Enter, Admitting, closing, shutdown
<1>2. CountInv' /\ Inside' = Inside /\ Answering' = Answering \cup {s}
    BY <1>1, AnswerEnters
<1>3. activeAdmissions' \in Nat
    BY <1>1, Numbers
<1>4. failures' \in 0..MaxFailures
    BY Numbers DEF StartAnswer, Enter, Admitting, closing, shutdown
<1>5. questions' \in [Sends -> 0..MaxQuestions]
    BY Numbers DEF StartAnswer, Enter, Admitting, closing, shutdown
<1>6. reply' \in [Sends -> {"none", "open", "waiting", "settled"}]
    BY DEF IInv, ShapeInv, StartAnswer, Enter, Admitting, closing, runs, shutdown
<1>7. run' \in [Sends -> {"none", "dropped", "running", "asking", "aborted", "done"}]
    BY DEF IInv, ShapeInv, StartAnswer, Enter, Admitting, closing, runs, shutdown
<1>8. permission' \in [Sends -> {"none", "pending", "resolved", "interrupted"}]
    BY DEF IInv, ShapeInv, StartAnswer, Enter, Admitting, closing, runs, shutdown
<1>9. ShapeInv'
    BY <1>2, <1>3, <1>4, <1>5, <1>6, <1>7, <1>8 DEF IInv, ShapeInv, Operations,
     closing, StartAnswer, Enter, Admitting, runs, shutdown
<1>10. GateInv'
    BY <1>2, OperationsAssumption, NobodyInside, SomebodyInside DEF IInv, ShapeInv,
     GateInv, ExclusiveInv, Inside, Answering, Operations, StartAnswer, Enter,
     Admitting, closing, runs, shutdown
<1>11. ExclusiveInv'
    BY <1>2, OperationsAssumption DEF IInv, ShapeInv, GateInv, ExclusiveInv, Inside,
     Answering, Operations, StartAnswer, Enter, Admitting, closing, runs, shutdown
<1>12. ControlInv'
    BY <1>2 DEF IInv, ShapeInv, ControlInv, closing, StartAnswer, Enter, Admitting,
     runs, shutdown
<1>13. QuietInv'
    BY <1>2, SomebodyInside DEF IInv, ShapeInv, ControlInv, QuietInv, Live, Inside,
     Answering, Operations, closing, StartAnswer, Enter, Admitting, runs, shutdown
<1>14. DrainInv'
    BY <1>2, SomebodyInside DEF IInv, ShapeInv, ControlInv, DrainInv, Live, Inside,
     Answering, Operations, closing, StartAnswer, Enter, Admitting, runs, shutdown
<1>15. ImportOverwritesNothing'
    BY <1>2, OperationsAssumption DEF IInv, ShapeInv, GateInv,
     ImportOverwritesNothing, Inside, Operations, StartAnswer, Enter, Admitting,
     closing, runs, shutdown
<1>16. ClosedSettlesReplies'
    BY <1>2, SomebodyInside, BoundAssumption DEF IInv, ShapeInv, ControlInv,
     QuietInv, ClosedSettlesReplies, Live, Inside, Answering, Operations, closing,
     StartAnswer, Enter, Admitting, runs, shutdown
<1> QED BY <1>2, <1>9, <1>10, <1>11, <1>12, <1>13, <1>14, <1>15, <1>16 DEF IInv

\* An answer opens a message again only before the host has closed.
LEMMA FinishAnswerPreserves ==
  ASSUME IInv, NEW s \in Sends, FinishAnswer(s)
  PROVE  IInv'
<1>1. /\ op' = op
      /\ answer[s] = "active"
      /\ answer' = [answer EXCEPT ![s] = "none"]
      /\ activeAdmissions' = activeAdmissions - 1
    BY DEF FinishAnswer, Leave, shutdown
<1>2. CountInv' /\ Inside' = Inside /\ Answering' = Answering \ {s} /\ activeAdmissions' \in Nat
    BY <1>1, AnswerLeaves
<1>3. activeAdmissions' \in Nat
    BY <1>2, Numbers DEF FinishAnswer, Leave, shutdown
<1>4. failures' \in 0..MaxFailures
  <2>1. failures' = failures \/ (failures < MaxFailures /\ failures' = failures + 1)
    BY DEF FinishAnswer, Leave, PersistFails
  <2> QED BY <2>1, Numbers, BoundAssumption
<1>5. questions' \in [Sends -> 0..MaxQuestions]
    BY Numbers DEF FinishAnswer, Leave, shutdown
<1>6. reply' \in [Sends -> {"none", "open", "waiting", "settled"}]
    BY DEF IInv, ShapeInv, FinishAnswer, Leave, runs, shutdown
<1>7. run' \in [Sends -> {"none", "dropped", "running", "asking", "aborted", "done"}]
    BY DEF IInv, ShapeInv, FinishAnswer, Leave, runs, shutdown
<1>8. permission' \in [Sends -> {"none", "pending", "resolved", "interrupted"}]
    BY DEF IInv, ShapeInv, FinishAnswer, Leave, runs, shutdown
<1>9. ShapeInv'
    BY <1>2, <1>3, <1>4, <1>5, <1>6, <1>7, <1>8, ZenonT(60) DEF IInv, ShapeInv, Operations,
     closing, FinishAnswer, Leave, runs, shutdown
<1>10. GateInv'
    BY <1>2, OperationsAssumption, NobodyInside, SomebodyInside DEF IInv, ShapeInv,
     GateInv, ExclusiveInv, Inside, Answering, Operations, FinishAnswer, Leave,
     runs, shutdown
<1>11. ExclusiveInv'
    BY <1>2, OperationsAssumption DEF IInv, ShapeInv, GateInv, ExclusiveInv, Inside,
     Answering, Operations, FinishAnswer, Leave, runs, shutdown
<1>12. ControlInv'
    BY <1>2 DEF IInv, ShapeInv, ControlInv, closing, FinishAnswer, Leave, runs,
     shutdown
<1>13. QuietInv'
    BY <1>2, SomebodyInside DEF IInv, ShapeInv, ControlInv, QuietInv, Live, Inside,
     Answering, Operations, closing, PersistFails, FinishAnswer, Leave, runs,
     shutdown
<1>14. activeAdmissions # 0
    BY <1>1, SomebodyInside DEF IInv, Answering
<1>15. closedBy # "drain" /\ drain \notin {"runs again", "closing"}
    BY <1>14 DEF IInv, ControlInv, DrainInv
<1>16. DrainInv'
    BY <1>15 DEF IInv, ShapeInv, DrainInv, Live, FinishAnswer, Leave, runs, shutdown
<1>17. ImportOverwritesNothing'
    BY <1>2, OperationsAssumption DEF IInv, ShapeInv, GateInv,
     ImportOverwritesNothing, Inside, Operations, FinishAnswer, Leave, runs,
     shutdown
<1>18. ClosedSettlesReplies'
    BY <1>2, SomebodyInside, BoundAssumption DEF IInv, ShapeInv, ControlInv,
     QuietInv, ClosedSettlesReplies, Live, Inside, Answering, Operations, closing,
     PersistFails, FinishAnswer, Leave, runs, shutdown
<1> QED BY <1>2, <1>9, <1>10, <1>11, <1>12, <1>13, <1>16, <1>17, <1>18 DEF IInv

\* A run that ends leaves the gate as it is.
LEMMA EndRunPreserves ==
  ASSUME IInv, NEW s \in Sends, EndRun(s)
  PROVE  IInv'
<1>1. /\ CountInv' /\ GateInv' /\ ExclusiveInv' /\ ImportOverwritesNothing'
      /\ Inside' = Inside /\ Answering' = Answering
    BY GateFrame DEF EndRun, admission, shutdown
<1>2. activeAdmissions' \in Nat
    BY <1>1, Numbers DEF EndRun, admission, shutdown
<1>3. failures' \in 0..MaxFailures
  <2>1. failures' = failures \/ (failures < MaxFailures /\ failures' = failures + 1)
    BY DEF EndRun, PersistFails
  <2> QED BY <2>1, Numbers, BoundAssumption
<1>4. questions' \in [Sends -> 0..MaxQuestions]
    BY Numbers DEF EndRun, admission, shutdown
<1>5. reply' \in [Sends -> {"none", "open", "waiting", "settled"}]
    BY DEF IInv, ShapeInv, EndRun, admission, runs, shutdown
<1>6. run' \in [Sends -> {"none", "dropped", "running", "asking", "aborted", "done"}]
    BY DEF IInv, ShapeInv, Live, EndRun, admission, runs, shutdown
<1>7. permission' \in [Sends -> {"none", "pending", "resolved", "interrupted"}]
    BY DEF IInv, ShapeInv, EndRun, admission, runs, shutdown
<1>8. ShapeInv'
    BY <1>1, <1>2, <1>3, <1>4, <1>5, <1>6, <1>7, ZenonT(60) DEF IInv, ShapeInv, closing,
     Operations, EndRun, admission, runs, shutdown
<1>9. ControlInv'
    BY <1>1 DEF IInv, ShapeInv, ControlInv, closing, EndRun, admission, runs, shutdown
<1>10. QuietInv'
    BY <1>1 DEF IInv, ShapeInv, ControlInv, QuietInv, Live, closing, PersistFails,
     EndRun, admission, runs, shutdown
<1>11. DrainInv'
    BY <1>1 DEF IInv, ShapeInv, ControlInv, DrainInv, Live, closing, PersistFails,
     EndRun, admission, runs, shutdown
<1>12. ClosedSettlesReplies'
    BY <1>1 DEF IInv, ShapeInv, ControlInv, QuietInv, ClosedSettlesReplies, Live,
     closing, PersistFails, EndRun, admission, runs, shutdown
<1> QED BY <1>1, <1>8, <1>9, <1>10, <1>11, <1>12 DEF IInv

\* A drain begins.
LEMMA StartDrainPreserves ==
  ASSUME IInv, StartDrain
  PROVE  IInv'
<1>1. /\ CountInv' /\ GateInv' /\ ExclusiveInv' /\ ImportOverwritesNothing'
      /\ Inside' = Inside /\ Answering' = Answering
    BY GateFrame DEF StartDrain, admission, runs
<1>2. ShapeInv'
    BY <1>1 DEF IInv, ShapeInv, closing, Operations, StartDrain, admission, runs
<1>3. ControlInv'
    BY <1>1 DEF IInv, ShapeInv, ControlInv, closing, StartDrain, admission, runs
<1>4. QuietInv'
    BY <1>1 DEF IInv, ShapeInv, ControlInv, QuietInv, Live, closing, StartDrain,
     admission, runs
<1>5. DrainInv'
    BY <1>1 DEF IInv, ShapeInv, ControlInv, DrainInv, Live, closing, StartDrain,
     admission, runs
<1>6. ClosedSettlesReplies'
    BY <1>1 DEF IInv, ShapeInv, ControlInv, QuietInv, ClosedSettlesReplies, Live,
     closing, StartDrain, admission, runs
<1> QED BY <1>1, <1>2, <1>3, <1>4, <1>5, <1>6 DEF IInv

\* No run was live.
LEMMA DrainIdlePreserves ==
  ASSUME IInv, DrainIdle
  PROVE  IInv'
<1>1. /\ CountInv' /\ GateInv' /\ ExclusiveInv' /\ ImportOverwritesNothing'
      /\ Inside' = Inside /\ Answering' = Answering
    BY GateFrame DEF DrainIdle, admission, runs
<1>2. ShapeInv'
    BY <1>1 DEF IInv, ShapeInv, Live, closing, Operations, DrainIdle, admission, runs
<1>3. ControlInv'
    BY <1>1 DEF IInv, ShapeInv, ControlInv, closing, DrainIdle, admission, runs
<1>4. QuietInv'
    BY <1>1 DEF IInv, ShapeInv, ControlInv, QuietInv, Live, closing, DrainIdle,
     admission, runs
<1>5. DrainInv'
    BY <1>1 DEF IInv, ShapeInv, ControlInv, DrainInv, Live, closing, DrainIdle,
     admission, runs
<1>6. ClosedSettlesReplies'
    BY <1>1 DEF IInv, ShapeInv, ControlInv, QuietInv, ClosedSettlesReplies, Live,
     closing, DrainIdle, admission, runs
<1> QED BY <1>1, <1>2, <1>3, <1>4, <1>5, <1>6 DEF IInv

\* The gate is shut.
LEMMA DrainGatePreserves ==
  ASSUME IInv, DrainGate
  PROVE  IInv'
<1>1. /\ CountInv' /\ GateInv' /\ ExclusiveInv' /\ ImportOverwritesNothing'
      /\ Inside' = Inside /\ Answering' = Answering
    BY GateFrame DEF DrainGate, admission, runs
<1>2. ShapeInv'
    BY <1>1 DEF IInv, ShapeInv, closing, Operations, DrainGate, admission, runs
<1>3. ControlInv'
    BY <1>1 DEF IInv, ShapeInv, ControlInv, closing, DrainGate, admission, runs
<1>4. QuietInv'
    BY <1>1 DEF IInv, ShapeInv, ControlInv, QuietInv, Live, closing, DrainGate,
     admission, runs
<1>5. DrainInv'
    BY <1>1 DEF IInv, ShapeInv, ControlInv, DrainInv, Live, closing, DrainGate,
     admission, runs
<1>6. ClosedSettlesReplies'
    BY <1>1 DEF IInv, ShapeInv, ControlInv, QuietInv, ClosedSettlesReplies, Live,
     closing, DrainGate, admission, runs
<1> QED BY <1>1, <1>2, <1>3, <1>4, <1>5, <1>6 DEF IInv

\* Nobody is inside, and nobody gets in any more.
LEMMA DrainAdmissionsPreserves ==
  ASSUME IInv, DrainAdmissions
  PROVE  IInv'
<1>1. /\ CountInv' /\ GateInv' /\ ExclusiveInv' /\ ImportOverwritesNothing'
      /\ Inside' = Inside /\ Answering' = Answering
    BY GateFrame DEF DrainAdmissions, admission, runs
<1>2. ShapeInv'
    BY <1>1 DEF IInv, ShapeInv, closing, Operations, DrainAdmissions, admission, runs
<1>3. ControlInv'
    BY <1>1 DEF IInv, ShapeInv, ControlInv, closing, DrainAdmissions, admission, runs
<1>4. QuietInv'
    BY <1>1 DEF IInv, ShapeInv, ControlInv, QuietInv, Live, closing,
     DrainAdmissions, admission, runs
<1>5. DrainInv'
    BY <1>1 DEF IInv, ShapeInv, ControlInv, DrainInv, Live, closing,
     DrainAdmissions, admission, runs
<1>6. ClosedSettlesReplies'
    BY <1>1 DEF IInv, ShapeInv, ControlInv, QuietInv, ClosedSettlesReplies, Live,
     closing, DrainAdmissions, admission, runs
<1> QED BY <1>1, <1>2, <1>3, <1>4, <1>5, <1>6 DEF IInv

\* No run is live, and nobody is inside who could start one.
LEMMA DrainRunsPreserves ==
  ASSUME IInv, DrainRuns
  PROVE  IInv'
<1>1. /\ CountInv' /\ GateInv' /\ ExclusiveInv' /\ ImportOverwritesNothing'
      /\ Inside' = Inside /\ Answering' = Answering
    BY GateFrame DEF DrainRuns, admission, runs
<1>2. ShapeInv'
    BY <1>1 DEF IInv, ShapeInv, StartClose, Live, closing, Operations, DrainRuns,
     admission, runs
<1>3. ControlInv'
    BY <1>1 DEF IInv, ShapeInv, ControlInv, StartClose, closing, DrainRuns,
     admission, runs
<1>4. QuietInv'
    BY <1>1 DEF IInv, ShapeInv, ControlInv, QuietInv, Live, StartClose, closing,
     DrainRuns, admission, runs
<1>5. DrainInv'
    BY <1>1 DEF IInv, ShapeInv, ControlInv, DrainInv, Live, StartClose, closing,
     DrainRuns, admission, runs
<1>6. ClosedSettlesReplies'
    BY <1>1 DEF IInv, ShapeInv, ControlInv, QuietInv, ClosedSettlesReplies, Live,
     StartClose, closing, DrainRuns, admission, runs
<1> QED BY <1>1, <1>2, <1>3, <1>4, <1>5, <1>6 DEF IInv

\* A signal closes an open host.
LEMMA SignalPreserves ==
  ASSUME IInv, Signal
  PROVE  IInv'
<1>1. /\ CountInv' /\ GateInv' /\ ExclusiveInv' /\ ImportOverwritesNothing'
      /\ Inside' = Inside /\ Answering' = Answering
    BY GateFrame DEF Signal, admission, runs
<1>2. ShapeInv'
    BY <1>1 DEF IInv, ShapeInv, StartClose, closing, Operations, Signal, admission,
     runs
<1>3. ControlInv'
    BY <1>1 DEF IInv, ShapeInv, ControlInv, StartClose, closing, Signal, admission,
     runs
<1>4. QuietInv'
    BY <1>1 DEF IInv, ShapeInv, ControlInv, QuietInv, Live, StartClose, closing,
     Signal, admission, runs
<1>5. DrainInv'
    BY <1>1 DEF IInv, ShapeInv, ControlInv, DrainInv, Live, StartClose, closing,
     Signal, admission, runs
<1>6. ClosedSettlesReplies'
    BY <1>1 DEF IInv, ShapeInv, ControlInv, QuietInv, ClosedSettlesReplies, Live,
     StartClose, closing, Signal, admission, runs
<1> QED BY <1>1, <1>2, <1>3, <1>4, <1>5, <1>6 DEF IInv

\* What is live is aborted, and nothing is when a drain came first.
LEMMA ClosePermissionsPreserves ==
  ASSUME IInv, ClosePermissions
  PROVE  IInv'
<1>1. /\ CountInv' /\ GateInv' /\ ExclusiveInv' /\ ImportOverwritesNothing'
      /\ Inside' = Inside /\ Answering' = Answering
    BY GateFrame DEF ClosePermissions, admission
<1>2. ShapeInv'
    BY <1>1 DEF IInv, ShapeInv, Live, closing, Operations, ClosePermissions,
     admission, runs
<1>3. ControlInv'
    BY <1>1 DEF IInv, ShapeInv, ControlInv, closing, ClosePermissions, admission, runs
<1>4. QuietInv'
    BY <1>1 DEF IInv, ShapeInv, ControlInv, QuietInv, Live, closing,
     ClosePermissions, admission, runs
<1>5. DrainInv'
    BY <1>1 DEF IInv, ShapeInv, ControlInv, DrainInv, Live, closing,
     ClosePermissions, admission, runs
<1>6. ClosedSettlesReplies'
    BY <1>1 DEF IInv, ShapeInv, ControlInv, QuietInv, ClosedSettlesReplies, Live,
     closing, ClosePermissions, admission, runs
<1> QED BY <1>1, <1>2, <1>3, <1>4, <1>5, <1>6 DEF IInv

\* Nobody is inside, and nobody gets in any more.
LEMMA CloseAdmissionsPreserves ==
  ASSUME IInv, CloseAdmissions
  PROVE  IInv'
<1>1. /\ CountInv' /\ GateInv' /\ ExclusiveInv' /\ ImportOverwritesNothing'
      /\ Inside' = Inside /\ Answering' = Answering
    BY GateFrame DEF CloseAdmissions, admission, runs
<1>2. ShapeInv'
    BY <1>1 DEF IInv, ShapeInv, closing, Operations, CloseAdmissions, admission, runs
<1>3. ControlInv'
    BY <1>1 DEF IInv, ShapeInv, ControlInv, closing, CloseAdmissions, admission, runs
<1>4. QuietInv'
    BY <1>1 DEF IInv, ShapeInv, ControlInv, QuietInv, Live, closing,
     CloseAdmissions, admission, runs
<1>5. DrainInv'
    BY <1>1 DEF IInv, ShapeInv, ControlInv, DrainInv, Live, closing,
     CloseAdmissions, admission, runs
<1>6. ClosedSettlesReplies'
    BY <1>1 DEF IInv, ShapeInv, ControlInv, QuietInv, ClosedSettlesReplies, Live,
     closing, CloseAdmissions, admission, runs
<1> QED BY <1>1, <1>2, <1>3, <1>4, <1>5, <1>6 DEF IInv

\* No run is live.
LEMMA CloseRunsPreserves ==
  ASSUME IInv, CloseRuns
  PROVE  IInv'
<1>1. /\ CountInv' /\ GateInv' /\ ExclusiveInv' /\ ImportOverwritesNothing'
      /\ Inside' = Inside /\ Answering' = Answering
    BY GateFrame DEF CloseRuns, admission, runs
<1>2. ShapeInv'
    BY <1>1 DEF IInv, ShapeInv, Live, closing, Operations, CloseRuns, admission, runs
<1>3. ControlInv'
    BY <1>1 DEF IInv, ShapeInv, ControlInv, closing, CloseRuns, admission, runs
<1>4. QuietInv'
    BY <1>1 DEF IInv, ShapeInv, ControlInv, QuietInv, Live, closing, CloseRuns,
     admission, runs
<1>5. DrainInv'
    BY <1>1 DEF IInv, ShapeInv, ControlInv, DrainInv, Live, closing, CloseRuns,
     admission, runs
<1>6. ClosedSettlesReplies'
    BY <1>1 DEF IInv, ShapeInv, ControlInv, QuietInv, ClosedSettlesReplies, Live,
     closing, CloseRuns, admission, runs
<1> QED BY <1>1, <1>2, <1>3, <1>4, <1>5, <1>6 DEF IInv

\* What is still open is settled.
LEMMA CloseInterruptPreserves ==
  ASSUME IInv, CloseInterrupt
  PROVE  IInv'
<1>1. /\ CountInv' /\ GateInv' /\ ExclusiveInv' /\ ImportOverwritesNothing'
      /\ Inside' = Inside /\ Answering' = Answering
    BY GateFrame DEF CloseInterrupt, admission
<1>2. activeAdmissions' \in Nat
    BY <1>1, Numbers DEF CloseInterrupt, admission
<1>3. failures' \in 0..MaxFailures
  <2>1. failures' = failures \/ (failures < MaxFailures /\ failures' = failures + 1)
    BY DEF CloseInterrupt, PersistFails
  <2> QED BY <2>1, Numbers, BoundAssumption
<1>4. questions' \in [Sends -> 0..MaxQuestions]
    BY Numbers DEF CloseInterrupt, admission
<1>5. reply' \in [Sends -> {"none", "open", "waiting", "settled"}]
  <2> DEFINE settled == [s \in Sends |-> IF reply[s] = "open" THEN "settled" ELSE reply[s]]
  <2>1. reply' = reply \/ reply' = settled
    BY DEF CloseInterrupt
  <2>2. settled \in [Sends -> {"none", "open", "waiting", "settled"}]
    BY DEF IInv, ShapeInv
  <2> QED BY <2>1, <2>2 DEF IInv, ShapeInv
<1>6. run' \in [Sends -> {"none", "dropped", "running", "asking", "aborted", "done"}]
    BY DEF IInv, ShapeInv, CloseInterrupt, admission, runs
<1>7. permission' \in [Sends -> {"none", "pending", "resolved", "interrupted"}]
    BY DEF IInv, ShapeInv, CloseInterrupt, admission, runs
<1>8. ShapeInv'
    BY <1>1, <1>2, <1>3, <1>4, <1>5, <1>6, <1>7 DEF IInv, ShapeInv, closing,
     Operations, CloseInterrupt, admission, runs
<1>9. ControlInv'
    BY <1>1 DEF IInv, ShapeInv, ControlInv, closing, CloseInterrupt, admission, runs
<1>10. QuietInv'
    BY <1>1 DEF IInv, ShapeInv, ControlInv, QuietInv, Live, closing, PersistFails,
     CloseInterrupt, admission, runs
<1>11. DrainInv'
    BY <1>1 DEF IInv, ShapeInv, ControlInv, DrainInv, Live, closing, PersistFails,
     CloseInterrupt, admission, runs
<1>12. ClosedSettlesReplies'
  <2>1. failures' = 0 => ~PersistFails
    BY Numbers, BoundAssumption DEF PersistFails
  <2> QED BY <2>1 DEF CloseInterrupt, ClosedSettlesReplies
<1> QED BY <1>1, <1>8, <1>9, <1>10, <1>11, <1>12 DEF IInv

-----------------------------------------------------------------------------
(* The theorems.                                                           *)

\* A host that starts satisfies the invariant.
LEMMA InitInv == Init => IInv
<1> SUFFICES ASSUME Init PROVE IInv
    OBVIOUS
<1>1. Inside = {} /\ Answering = {}
    BY DEF Init, Inside, Answering, Operations
<1>2. CountInv
    BY <1>1, FS_EmptySet DEF Init, CountInv
<1>3. questions \in [Sends -> 0..MaxQuestions] /\ failures \in 0..MaxFailures
    BY BoundAssumption DEF Init
<1>4. ShapeInv
    BY <1>3 DEF Init, ShapeInv, Operations
<1>5. GateInv /\ ExclusiveInv /\ ImportOverwritesNothing
    BY DEF Init, GateInv, ExclusiveInv, ImportOverwritesNothing
<1>6. ControlInv /\ QuietInv /\ DrainInv /\ ClosedSettlesReplies
    BY DEF Init, ControlInv, QuietInv, DrainInv, ClosedSettlesReplies
<1> QED BY <1>2, <1>5, <1>6, <1>4 DEF IInv

\* A step that changes nothing preserves it.
LEMMA StutterPreserves ==
  ASSUME IInv, UNCHANGED vars
  PROVE  IInv'
<1>1. Inside' = Inside /\ Answering' = Answering /\ Live' = Live
    BY DEF vars, admission, runs, Inside, Answering, Live
<1>2. ShapeInv' /\ CountInv' /\ GateInv' /\ ExclusiveInv'
    BY <1>1, ZenonT(60) DEF IInv, ShapeInv, CountInv, GateInv, ExclusiveInv, vars, admission,
     runs, shutdown
<1>3. ControlInv' /\ QuietInv' /\ DrainInv'
    BY <1>1 DEF IInv, ControlInv, QuietInv, DrainInv, vars, admission, runs, shutdown
<1>4. ImportOverwritesNothing' /\ ClosedSettlesReplies'
    BY DEF IInv, ImportOverwritesNothing, ClosedSettlesReplies, vars, admission,
     runs, shutdown
<1> QED BY <1>2, <1>3, <1>4 DEF IInv

\* So every step does.
LEMMA NextPreserves == IInv /\ [Next]_vars => IInv'
BY StartSendPreserves, AcceptSendPreserves, RejectSendPreserves,
 StartImportPreserves, FinishImportPreserves, AskPreserves, StartAnswerPreserves,
 FinishAnswerPreserves, EndRunPreserves, StartDrainPreserves, DrainIdlePreserves,
 DrainGatePreserves, DrainAdmissionsPreserves, DrainRunsPreserves, SignalPreserves,
 ClosePermissionsPreserves, CloseAdmissionsPreserves, CloseRunsPreserves,
 CloseInterruptPreserves, StutterPreserves DEF Next, Finish, Drain, Close

\* The inductive invariant holds in every reachable state.
THEOREM Invariance == Spec => []IInv
BY InitInv, NextPreserves, PTL DEF Spec

\* At most every message, every answer and one import are inside at once.
LEMMA AdmissionsBounded ==
  ASSUME IInv
  PROVE  activeAdmissions \in 0 .. (2 * Cardinality(Sends) + 1)
<1>1. Cardinality(Inside) <= Cardinality(Sends) + 1
  <2>1. CASE \E i \in Imports : op[i] = "active"
    <3>1. \E i : Inside = {i}
        BY <2>1 DEF IInv, GateInv
    <3>2. Cardinality(Inside) = 1
        BY <3>1, FS_Singleton
    <3> QED BY <3>2, InsideFinite
  <2>2. CASE ~\E i \in Imports : op[i] = "active"
    <3>1. Inside \in SUBSET Sends
        BY <2>2 DEF Inside, Operations
    <3>2. Cardinality(Inside) <= Cardinality(Sends)
        BY <3>1, OperationsAssumption, FS_Subset
    <3> QED BY <3>2, InsideFinite
  <2> QED BY <2>1, <2>2
<1>2. activeAdmissions = Cardinality(Inside) + Cardinality(Answering)
    BY DEF IInv, CountInv
<1> QED BY <1>1, <1>2, InsideFinite, Numbers

\* Once isClosed lets the workspace lock go, no operation is inside, no run is live and
\* no permission waits, for any number of operations.
THEOREM QuietTheorem == Spec => []ClosedIsQuiet
<1>1. IInv => ClosedIsQuiet
  <2> SUFFICES ASSUME IInv, closeState = "closed"
               PROVE  /\ \A o \in Sends \cup Imports : op[o] # "active"
                      /\ Live = {}
                      /\ \A s \in Sends : answer[s] = "none" /\ permission[s] # "pending"
    BY DEF ClosedIsQuiet
  <2>1. close = "done"
    BY DEF IInv, ControlInv
  <2>2. Inside = {} /\ Answering = {}
    BY <2>1, NobodyInside DEF IInv, QuietInv
  <2>3. \A o \in Sends \cup Imports : op[o] # "active"
    BY <2>2 DEF Inside, Operations
  <2>4. \A s \in Sends : answer[s] = "none"
    BY <2>2 DEF Answering, IInv, ShapeInv
  <2>5. Live = {} /\ \A s \in Sends : permission[s] # "pending"
    BY <2>1 DEF IInv, QuietInv
  <2> QED BY <2>3, <2>4, <2>5
<1> QED BY <1>1, Invariance, PTL

\* The host is consistent in every reachable state: its type, what an import
\* overwrites, what a stop leaves open and what a drain aborts.
THEOREM HostTheorem == Spec => []HostConsistent
<1>1. IInv => TypeOK
    BY AdmissionsBounded DEF IInv, ShapeInv, TypeOK, Operations
<1>2. IInv => DrainAbortsNothing
    BY DEF IInv, DrainInv, DrainAbortsNothing
<1>3. IInv => HostConsistent
    BY <1>1, <1>2 DEF IInv, HostConsistent
<1> QED BY <1>3, Invariance, PTL

-----------------------------------------------------------------------------
(* Routing: the inductive invariant.                                       *)

\* The assignments whose turns were started, and those that a section makes.
Turned == ToSet(turns)
NewIds == IF holder.kind \in {"route", "reroute"} THEN holder.ids
          ELSE Ids(doc.msgs[holder.msg].as)

\* How many messages one of the Starts can come to.
Bound(s) == Len(s.msgs) + s.left["send"] + s.left["edit"]

\* The document in memory and the one on disk are sound, and fit into the slots.
DocumentInv ==
    /\ fresh \in Nat \ {0}
    /\ \A d \in {doc, saved} : /\ WellFormed(d, fresh) /\ Counted(d)
                              /\ \A m \in Indexes(d) : Replaced(d.msgs[m])
    /\ \E s \in Starts : Len(doc.msgs) + left["send"] + left["edit"] <= Bound(s)

\* What a run may be.
Stages == {"none", "start", "classify", "infer", "failing", "decided", "saving", "deliver"}
Routes == [stage : Stages, agents : SUBSET Agents, stale : SUBSET Agents, count : Nat, ids : SUBSET Nat]

\* The values the other variables take.
RoutingShapeInv ==
    /\ routings \in [Slots -> Routes]
    /\ queued \in Nat
    /\ turns \in Seq(Nat)
    /\ left \in [Kinds -> Nat]
    /\ told \in [cut : SUBSET Nat, stranded : SUBSET Nat, undone : BOOLEAN, overtaken : BOOLEAN]

\* What each section has made of its message.
Change ==
    LET m == holder.msg
        old == saved.msgs[m]
        new == doc.msgs[m]
    IN
    /\ holder.kind = "send" =>
         /\ m = Len(saved.msgs) + 1 /\ ~new.deleted /\ new.corr = {}
         /\ new.status \in {"pending", "resolved"}
    /\ holder.kind = "delete" => new = [old EXCEPT !.deleted = TRUE]
    /\ holder.kind = "reroute" =>
         /\ old.status # "failed" /\ new.status = "resolved"
         /\ new.over = old.over /\ new.deleted = old.deleted
         /\ old.as \subseteq new.as /\ old.corr \subseteq new.corr
         /\ \A x \in new.as : x \in old.as \/ x.id \in holder.ids
         /\ holder.ids \subseteq Ids(new.as)
         /\ old.status = "pending" => m \in told.cut
    /\ holder.kind = "retry" =>
         /\ old.status = "failed" /\ new.status \in {"pending", "resolved"}
         /\ new.over = old.over /\ new.deleted = old.deleted /\ new.corr = {}
    /\ holder.kind = "route" =>
         /\ old.status = "pending" /\ new.status = "resolved"
         /\ new.over = old.over /\ new.deleted = old.deleted /\ new.corr = {}
         /\ Stage(m, "saving")
         /\ holder.ids = Ids(new.as)
         /\ \A x \in new.as : x.agent \notin routings[m].stale
    /\ holder.kind = "fail" =>
         old.status = "pending" /\ new = Failed(old) /\ Stage(m, "saving")
    /\ holder.kind = "compact" => m = 0

\* What differs between memory and disk is the message of the section that is
\* waiting for its persist, changed as that section changes it.
HolderInv ==
    /\ Free => doc = saved
    /\ ~Free =>
         /\ holder.kind \in {"send", "delete", "reroute", "retry", "route", "fail", "compact"}
         /\ holder.prev = saved
         /\ holder.msg \in Indexes(doc) \cup {0} /\ holder.ids \subseteq Nat
         /\ Len(doc.msgs) = Len(saved.msgs) + (IF holder.kind = "send" THEN 1 ELSE 0)
         /\ \A m \in Indexes(saved) : m = holder.msg \/ doc.msgs[m] = saved.msgs[m]
         /\ holder.kind \notin {"send", "compact"} =>
              holder.msg \in Indexes(saved) /\ ~saved.msgs[holder.msg].deleted
         /\ Change
         /\ holder.kind \in {"send", "retry", "route", "reroute"} =>
              \A n \in Indexes(saved) : NewIds \cap Ids(saved.msgs[n].as) = {}

\* A run knows how far its message has come on disk.
RunInv ==
    \A m \in Slots :
      /\ ~Stage(m, "none") /\ ~Stage(m, "saving") => m \in Indexes(saved)
      /\ Stage(m, "decided") => routings[m].agents # {}
      /\ Stage(m, "saving") => ~Free /\ holder.msg = m /\ holder.kind \in {"route", "fail"}
      /\ Stage(m, "deliver") =>
           /\ saved.msgs[m].status = "resolved"
           /\ routings[m].ids \subseteq Ids(saved.msgs[m].as)
           /\ routings[m].ids \cap Turned = {}

\* Turns are of assignments on disk, and no two of the same.
TurnInv ==
    /\ IsInjective(turns)
    /\ \A id \in Turned : \E m \in Indexes(saved) :
         saved.msgs[m].status = "resolved" /\ id \in Ids(saved.msgs[m].as)

\* Who is going to decide a message that is pending on disk.
OwnerInv ==
    \A m \in Indexes(saved) :
      /\ saved.msgs[m].status = "pending" /\ ~saved.msgs[m].deleted
           /\ m \notin told.stranded
      /\ ~Free /\ holder.msg = m => holder.kind \notin {"fail", "delete", "reroute"}
      => ~Stage(m, "none")

\* Who is going to start the turns of a message that is resolved on disk.
DeliveredInv ==
    \A m \in Indexes(saved) :
      saved.msgs[m].status = "resolved" /\ m \notin told.cut =>
        /\ routings[m].stage \in {"none", "deliver"}
        /\ \A x \in ActiveAssignments(saved.msgs[m]) :
             x.id \in Turned \/ (Stage(m, "deliver") /\ x.id \in routings[m].ids)

\* Between two documents corrections were added, and no message superseded: what
\* is still there and not deleted keeps its corrections.
Grows(s, d) ==
    /\ \A m \in Indexes(s) : s.msgs[m].corr # {} =>
         m \in Indexes(d) /\ s.msgs[m].corr \subseteq d.msgs[m].corr
    /\ \A m \in Nat \ {0} : Superseded(d, m) => Superseded(s, m)

\* What a compaction has read only grows while it waits for its answer.  That is
\* why the number of corrections and the last of them are enough for it to see
\* whether they are the same; an edit, and a correction that could not be saved,
\* are what breaks it, and what told.undone remembers.
CompactInv ==
    /\ compact.stage \in {"none", "asking", "answered", "saving"}
    /\ compact.stage = "saving" <=> ~Free /\ holder.kind = "compact"
    /\ compact.stage \in {"asking", "answered"} =>
         /\ WellFormed(compact.source, fresh) /\ Counted(compact.source)
         /\ ~told.overtaken => SummaryIsTrue(compact.source)
         /\ Active(compact.source) # {} /\ compact.read \in Prompts(compact.source)
         /\ ~told.undone =>
              /\ Grows(compact.source, doc)
              /\ ~Free /\ holder.kind # "reroute" => Grows(compact.source, saved)

\* The summary is what it claims to be.
SummaryInv == ~told.overtaken => SummaryIsTrue(doc) /\ SummaryIsTrue(saved)

\* All of it.
RoutingInv ==
    /\ DocumentInv /\ RoutingShapeInv /\ HolderInv /\ RunInv /\ TurnInv
    /\ OwnerInv /\ DeliveredInv /\ CompactInv /\ SummaryInv

-----------------------------------------------------------------------------
(* Sequences of sets, documents and their corrections.                     *)

\* The sequence of a finite set lists it without repetition.
LEMMA SequenceOfSet ==
  ASSUME NEW S, IsFiniteSet(S)
  PROVE  /\ SetToSeq(S) \in Seq(S) /\ Len(SetToSeq(S)) = Cardinality(S)
         /\ IsInjective(SetToSeq(S)) /\ ToSet(SetToSeq(S)) = S
<1> DEFINE n == Cardinality(S)
           f == SetToSeq(S)
<1>1. n \in Nat /\ \E g \in [1 .. n -> S] : g \in Bijection(1 .. n, S)
  BY FS_CardinalityType DEF ExistsBijection, Bijection, Injection
<1>2. \E g \in [1 .. n -> S] : IsInjective(g)
  BY <1>1 DEF Bijection, Injection, IsInjective
<1>3. f \in [1 .. n -> S] /\ IsInjective(f)
  BY <1>2 DEF SetToSeq
<1>4. f \in Seq(S) /\ Len(f) = n
  BY <1>1, <1>3
<1>5. f \in Injection(1 .. n, S)
  BY <1>3 DEF Injection, IsInjective
<1>6. IsFiniteSet(1 .. n) /\ Cardinality(1 .. n) = n
  BY <1>1, FS_Interval
<1>7. f \in Surjection(1 .. n, S)
  BY <1>5, <1>6, FS_Injection
<1>8. ToSet(f) = S
  BY <1>3, <1>7, DOMAIN f = 1 .. n DEF ToSet, Surjection
<1> QED BY <1>3, <1>4, <1>8

\* Two lists without repetition that share nothing make one.
LEMMA ConcatenatedTurns ==
  ASSUME NEW p \in Seq(Nat), NEW q \in Seq(Nat), IsInjective(p), IsInjective(q),
         ToSet(p) \cap ToSet(q) = {}
  PROVE  /\ p \o q \in Seq(Nat) /\ IsInjective(p \o q)
         /\ ToSet(p \o q) = ToSet(p) \cup ToSet(q)
<1> DEFINE r == p \o q
<1>1. r \in Seq(Nat) /\ Len(r) = Len(p) + Len(q) /\ DOMAIN r = 1 .. Len(p) + Len(q)
  OBVIOUS
<1>2. \A i \in 1 .. Len(p) : r[i] = p[i]
  OBVIOUS
<1>3. \A i \in 1 .. Len(q) : r[Len(p) + i] = q[i]
  OBVIOUS
<1>4. \A i \in 1 .. Len(r) : i \notin 1 .. Len(p) => i - Len(p) \in 1 .. Len(q)
        /\ r[i] = q[i - Len(p)]
  BY <1>1
<1>5. DOMAIN p = 1 .. Len(p) /\ DOMAIN q = 1 .. Len(q)
  OBVIOUS
<1>6. ToSet(r) = ToSet(p) \cup ToSet(q)
  <2>1. \A i \in 1 .. Len(r) : r[i] \in ToSet(p) \cup ToSet(q)
    BY <1>2, <1>4, <1>5 DEF ToSet
  <2>2. \A i \in 1 .. Len(p) : p[i] \in ToSet(r)
    BY <1>1, <1>2 DEF ToSet
  <2>3. \A i \in 1 .. Len(q) : q[i] \in ToSet(r)
    <3> SUFFICES ASSUME NEW i \in 1 .. Len(q) PROVE q[i] \in ToSet(r)
      OBVIOUS
    <3>1. Len(p) + i \in DOMAIN r /\ r[Len(p) + i] = q[i]
      BY <1>1, <1>3
    <3> QED BY <3>1 DEF ToSet
  <2> QED BY <1>1, <1>5, <2>1, <2>2, <2>3 DEF ToSet
<1>7. IsInjective(r)
  <2> SUFFICES ASSUME NEW i \in 1 .. Len(r), NEW j \in 1 .. Len(r), r[i] = r[j] PROVE i = j
    BY <1>1 DEF IsInjective
  <2>1. CASE i \in 1 .. Len(p) /\ j \in 1 .. Len(p)
    BY <1>2, <1>5, <2>1 DEF IsInjective
  <2>2. CASE i \notin 1 .. Len(p) /\ j \notin 1 .. Len(p)
    <3>1. q[i - Len(p)] = q[j - Len(p)] /\ i - Len(p) \in DOMAIN q
            /\ j - Len(p) \in DOMAIN q
      BY <1>4, <1>5, <2>2
    <3>2. i - Len(p) = j - Len(p)
      BY <3>1 DEF IsInjective
    <3> QED BY <3>2
  <2>3. CASE i \in 1 .. Len(p) /\ j \notin 1 .. Len(p)
    BY <1>2, <1>4, <1>5, <2>3 DEF ToSet
  <2>4. CASE i \notin 1 .. Len(p) /\ j \in 1 .. Len(p)
    BY <1>2, <1>4, <1>5, <2>4 DEF ToSet
  <2> QED BY <2>1, <2>2, <2>3, <2>4
<1> QED BY <1>1, <1>6, <1>7

\* Agents are finitely many.
LEMMA FiniteNames ==
  ASSUME NEW names \in SUBSET Agents
  PROVE  IsFiniteSet(names) /\ Cardinality(names) \in Nat
BY RoutingAssumption, FS_Subset, FS_CardinalityType

\* Assign gives every Agent one assignment, with a new identifier.
LEMMA Assigned ==
  ASSUME NEW names \in SUBSET Agents, NEW from \in Nat
  PROVE  LET made == Assign(names, from) IN
         /\ made \subseteq Assignment /\ IsFiniteSet(made)
         /\ Cardinality(made) = Cardinality(names)
         /\ \A x \in made : /\ x.id \in from .. from + Cardinality(names) - 1
                            /\ x.agent \in names
         /\ \A x, y \in made : x.id = y.id \/ x.agent = y.agent => x = y
         /\ \A a \in names : \E x \in made : x.agent = a
<1> DEFINE order == SetToSeq(names)
           n == Cardinality(names)
           g == [i \in 1 .. n |-> [id |-> from + i - 1, agent |-> order[i]]]
           made == Assign(names, from)
<1>1. n \in Nat /\ order \in Seq(names) /\ Len(order) = n /\ IsInjective(order)
        /\ ToSet(order) = names
  BY FiniteNames, SequenceOfSet
<1>2. made = {g[i] : i \in 1 .. n}
  BY <1>1 DEF Assign
<1>3. g \in [1 .. n -> Assignment] /\ \A i \in 1 .. n : g[i].id = from + i - 1
        /\ g[i].agent = order[i]
  BY <1>1 DEF Assignment
<1> HIDE DEF g, order, n
<1>4. /\ IsFiniteSet(made) /\ Cardinality(made) = n
      /\ \A x \in made : x.id \in from .. from + n - 1
      /\ \A x, y \in made : x.id = y.id => x = y
  <2> HIDE DEF made
  <2>1. \A i, j \in 1 .. n : g[i].id = g[j].id => i = j
    BY <1>1, <1>3
  <2>2. g \in Injection(1 .. n, made) /\ g \in Surjection(1 .. n, made)
    BY <1>2, <1>3, <2>1 DEF Injection, Surjection, IsInjective
  <2>3. IsFiniteSet(1 .. n) /\ Cardinality(1 .. n) = n
    BY <1>1, FS_Interval
  <2>4. IsFiniteSet(made) /\ Cardinality(made) = n
    BY <2>2, <2>3, FS_Surjection
  <2>5. \A x \in made : x.id \in from .. from + n - 1
    BY <1>1, <1>2, <1>3
  <2>6. \A x, y \in made : x.id = y.id => x = y
    BY <1>2, <1>3, <2>1
  <2> QED BY <2>4, <2>5, <2>6
<1>5. \A i, j \in 1 .. n : order[i] = order[j] => i = j
  BY <1>1 DEF IsInjective
<1>6. \A x, y \in made : x.agent = y.agent => x = y
  BY <1>2, <1>3, <1>5
<1>7. \A a \in names : \E x \in made : x.agent = a
  <2> SUFFICES ASSUME NEW a \in names PROVE \E x \in made : x.agent = a
    OBVIOUS
  <2>1. PICK i \in 1 .. n : order[i] = a
    BY <1>1 DEF ToSet
  <2>2. g[i] \in made /\ g[i].agent = a
    BY <1>2, <1>3, <2>1
  <2> QED BY <2>2
<1>8. \A x \in made : x.agent \in names
  BY <1>1, <1>2, <1>3
<1>9. made \subseteq Assignment
  BY <1>2, <1>3
<1> QED BY <1>4, <1>6, <1>7, <1>8, <1>9 DEF n

\* The corrections in force are finitely many.
LEMMA ActiveFinite ==
  ASSUME NEW d, NEW next, WellFormed(d, next)
  PROVE  Active(d) \subseteq Correction /\ IsFiniteSet(Active(d))
           /\ Cardinality(Active(d)) \in Nat /\ Ids(Active(d)) \subseteq Nat
<1> DEFINE C == {d.msgs[m].corr : m \in Kept(d)}
           f == [m \in Kept(d) |-> d.msgs[m].corr]
<1>1. Len(d.msgs) \in Nat /\ \A m \in Indexes(d) : d.msgs[m] \in Message
  BY DEF Indexes, WellFormed, Document
<1>2. IsFiniteSet(Kept(d))
  <2>1. IsFiniteSet(Indexes(d))
    BY <1>1, FS_Interval DEF Indexes
  <2>2. Kept(d) \in SUBSET Indexes(d)
    BY DEF Kept
  <2> QED BY <2>1, <2>2, FS_Subset
<1>3. f \in Surjection(Kept(d), C)
  BY DEF Surjection
<1>4. IsFiniteSet(C)
  BY <1>2, <1>3, FS_Surjection
<1>5. \A c \in C : IsFiniteSet(c) /\ c \subseteq Correction
  <2> SUFFICES ASSUME NEW m \in Kept(d)
               PROVE  IsFiniteSet(d.msgs[m].corr) /\ d.msgs[m].corr \subseteq Correction
    OBVIOUS
  <2>1. m \in Indexes(d)
    BY DEF Kept
  <2>2. d.msgs[m] \in Message /\ Routed(d.msgs[m], next)
    BY <1>1, <2>1 DEF WellFormed
  <2> QED BY <2>2 DEF Routed, Message
<1>6. IsFiniteSet(Active(d)) /\ Active(d) \subseteq Correction
  BY <1>4, <1>5, FS_UNION DEF Active
<1> QED BY <1>6, FS_CardinalityType DEF Ids, Correction

\* A document and its messages.
LEMMA Places ==
  ASSUME NEW d \in Document
  PROVE  /\ Len(d.msgs) \in Nat /\ Indexes(d) \subseteq Nat \ {0}
         /\ DOMAIN d.msgs = Indexes(d) /\ \A m \in Indexes(d) : d.msgs[m] \in Message
         /\ d = [msgs |-> d.msgs, memory |-> d.memory] /\ d.memory \in Memory
         /\ d.msgs \in Seq(Message)
BY DEF Document, Indexes

\* One message of a document is replaced.
LEMMA Replaceable ==
  ASSUME NEW d \in Document, NEW m \in Indexes(d), NEW new \in Message
  PROVE  LET e == [d EXCEPT !.msgs[m] = new] IN
         /\ e \in Document /\ e.memory = d.memory /\ Len(e.msgs) = Len(d.msgs)
         /\ Indexes(e) = Indexes(d) /\ e.msgs[m] = new
         /\ \A n \in Indexes(d) : n # m => e.msgs[n] = d.msgs[n]
BY Places DEF Document, Indexes

\* A message is added to a document.
LEMMA Appendable ==
  ASSUME NEW d \in Document, NEW new \in Message
  PROVE  LET e == [d EXCEPT !.msgs = @ \o <<new>>] IN
         /\ e \in Document /\ e.memory = d.memory /\ Len(e.msgs) = Len(d.msgs) + 1
         /\ Indexes(e) = Indexes(d) \cup {Len(d.msgs) + 1} /\ e.msgs[Len(d.msgs) + 1] = new
         /\ \A n \in Indexes(d) : e.msgs[n] = d.msgs[n]
<1> DEFINE e == [d EXCEPT !.msgs = @ \o <<new>>]
<1>1. d.msgs \in Seq(Message) /\ Len(d.msgs) \in Nat
  BY Places
<1>2. e.msgs = d.msgs \o <<new>> /\ e.memory = d.memory
  BY Places
<1>3. e \in Document
  BY <1>1, Places DEF Document
<1>4. Len(e.msgs) = Len(d.msgs) + 1
  BY <1>1, <1>2
<1>5. Indexes(e) = Indexes(d) \cup {Len(d.msgs) + 1}
  BY <1>1, <1>4 DEF Indexes
<1>6. e.msgs[Len(d.msgs) + 1] = new /\ \A n \in Indexes(d) : e.msgs[n] = d.msgs[n]
  BY <1>1, <1>2 DEF Indexes
<1> QED BY <1>2, <1>3, <1>4, <1>5, <1>6

\* A document stays sound when one message changes and what it is assigned is new
\* or was its own.
LEMMA StillWellFormed ==
  ASSUME NEW next \in Nat, NEW later \in Nat, next <= later,
         NEW d, WellFormed(d, next), NEW e \in Document, NEW m \in Indexes(e),
         Indexes(e) = Indexes(d) \cup {m},
         \A n \in Indexes(d) : n # m => e.msgs[n] = d.msgs[n],
         Routed(e.msgs[m], later),
         \A x \in e.msgs[m].as : x.id >= next
           \/ (m \in Indexes(d) /\ x.id \in Ids(d.msgs[m].as))
  PROVE  WellFormed(e, later)
<1>1. d \in Document /\ \A n \in Indexes(d) : d.msgs[n] \in Message
  BY Places DEF WellFormed
<1>2. ASSUME NEW n \in Indexes(e)
      PROVE  Routed(e.msgs[n], later)
  <2>1. CASE n = m
    BY <2>1
  <2>2. CASE n # m
    <3>1. n \in Indexes(d) /\ e.msgs[n] = d.msgs[n] /\ Routed(d.msgs[n], next)
            /\ d.msgs[n] \in Message
      BY <1>1, <2>2 DEF WellFormed
    <3>2. \A link \in d.msgs[n].as \cup d.msgs[n].corr : link.id \in Nat
      BY <3>1 DEF Message, Assignment, Correction
    <3> QED BY <3>1, <3>2 DEF Routed
  <2> QED BY <2>1, <2>2
<1>3. ASSUME NEW n \in Indexes(e), n # m
      PROVE  Ids(e.msgs[n].as) \cap Ids(e.msgs[m].as) = {}
  <2>1. n \in Indexes(d) /\ e.msgs[n] = d.msgs[n] /\ Routed(d.msgs[n], next)
          /\ d.msgs[n] \in Message
    BY <1>1, <1>3 DEF WellFormed
  <2> SUFFICES ASSUME NEW x \in e.msgs[m].as, NEW y \in d.msgs[n].as, x.id = y.id
               PROVE  FALSE
    BY <2>1 DEF Ids
  <2>2. y.id < next /\ y.id \in Nat
    BY <2>1 DEF Routed, Message, Assignment
  <2>3. m \in Indexes(d) /\ x.id \in Ids(d.msgs[m].as)
    BY <2>2
  <2>4. y.id \in Ids(d.msgs[n].as)
    BY DEF Ids
  <2> QED BY <1>3, <2>1, <2>3, <2>4 DEF WellFormed
<1>4. ASSUME NEW n \in Indexes(e), NEW k \in Indexes(e), n # k
      PROVE  Ids(e.msgs[n].as) \cap Ids(e.msgs[k].as) = {}
  <2>1. CASE n = m \/ k = m
    BY <1>3, <1>4, <2>1
  <2>2. CASE n # m /\ k # m
    BY <1>4, <2>2 DEF WellFormed
  <2> QED BY <2>1, <2>2
<1> QED BY <1>2, <1>4 DEF WellFormed

\* ... and as identifiers are used up.
LEMMA WellFormedLater ==
  ASSUME NEW next \in Nat, NEW later \in Nat, next <= later, NEW d, WellFormed(d, next)
  PROVE  WellFormed(d, later)
<1>1. d \in Document /\ \A n \in Indexes(d) : d.msgs[n] \in Message
  BY Places DEF WellFormed
<1>2. ASSUME NEW n \in Indexes(d)
      PROVE  Routed(d.msgs[n], later)
  <2>1. Routed(d.msgs[n], next) /\ d.msgs[n] \in Message
    BY <1>1 DEF WellFormed
  <2>2. \A link \in d.msgs[n].as \cup d.msgs[n].corr : link.id \in Nat
    BY <2>1 DEF Message, Assignment, Correction
  <2> QED BY <2>1, <2>2 DEF Routed
<1> QED BY <1>2 DEF WellFormed

\* When corrections were only added and nothing was deleted, those in force are
\* still in force.
LEMMA ActiveGrows ==
  ASSUME NEW s \in Document, NEW d \in Document, Grows(s, d),
         \A m \in Indexes(s) \cap Indexes(d) : d.msgs[m].deleted => s.msgs[m].deleted
  PROVE  Active(s) \subseteq Active(d)
<1> SUFFICES ASSUME NEW m \in Kept(s), NEW c \in s.msgs[m].corr
             PROVE  c \in Active(d)
  BY DEF Active
<1>1. m \in Indexes(s) /\ m \in Nat \ {0} /\ ~s.msgs[m].deleted /\ ~Superseded(s, m)
  BY Places DEF Kept, Retired
<1>2. m \in Indexes(d) /\ c \in d.msgs[m].corr /\ ~Superseded(d, m)
  BY <1>1 DEF Grows
<1>3. m \in Kept(d)
  BY <1>1, <1>2 DEF Kept, Retired
<1> QED BY <1>2, <1>3 DEF Active

\* Additions add up.
LEMMA GrowsTransitive ==
  ASSUME NEW s, NEW d, NEW e, Grows(s, d), Grows(d, e)
  PROVE  Grows(s, e)
<1>1. ASSUME NEW m \in Indexes(s), s.msgs[m].corr # {}
      PROVE  m \in Indexes(e) /\ s.msgs[m].corr \subseteq e.msgs[m].corr
  BY <1>1 DEF Grows
<1>2. ASSUME NEW m \in Nat \ {0}, Superseded(e, m)
      PROVE  Superseded(s, m)
  BY <1>2 DEF Grows
<1> QED BY <1>1, <1>2 DEF Grows

\* A message that is replaced by one with more corrections is an addition.
LEMMA GrowsByMessage ==
  ASSUME NEW d \in Document, NEW e \in Document, NEW m \in Indexes(d),
         Indexes(e) = Indexes(d),
         \A n \in Indexes(d) : n # m => e.msgs[n] = d.msgs[n],
         d.msgs[m].corr \subseteq e.msgs[m].corr, e.msgs[m].over = d.msgs[m].over
  PROVE  Grows(d, e)
<1>1. ASSUME NEW n \in Indexes(d)
      PROVE  d.msgs[n].corr \subseteq e.msgs[n].corr /\ e.msgs[n].over = d.msgs[n].over
  BY <1>1
<1>2. \A n : Superseded(e, n) => Superseded(d, n)
  BY <1>1 DEF Superseded
<1> QED BY <1>1, <1>2 DEF Grows

-----------------------------------------------------------------------------
(* A section of the lock begins: one argument for all of them.             *)

\* The sections that change a message, and those that make assignments.
Kind == {"send", "delete", "reroute", "retry", "route", "fail"}
Making == {"send", "retry", "route", "reroute"}

\* A bound on events is used up one by one.
LEMMA Spending ==
  ASSUME NEW k \in Kinds, left \in [Kinds -> Nat], Spend(k)
  PROVE  /\ left' \in [Kinds -> Nat] /\ left'[k] = left[k] - 1
         /\ \A j \in Kinds : j # k => left'[j] = left[j]
BY DEF Spend

\* Memory is what is on disk while nobody holds the lock,
LEMMA FreeHolds ==
  ASSUME HolderInv, Free
  PROVE  doc = saved
BY DEF HolderInv

\* and no run waits for a persist.
LEMMA NothingIsSaving ==
  ASSUME RunInv, Free
  PROVE  \A n \in Slots : ~Stage(n, "saving")
BY DEF RunInv

\* There is a slot for every message.
LEMMA SlotsOfMessages ==
  ASSUME DocumentInv, RoutingShapeInv
  PROVE  Indexes(doc) \subseteq Slots
<1>1. PICK s \in Starts : Len(doc.msgs) + left["send"] + left["edit"] <= Bound(s)
  BY DEF DocumentInv
<1>2. Len(doc.msgs) \in Nat /\ left["send"] \in Nat /\ left["edit"] \in Nat
  BY Places DEF DocumentInv, WellFormed, RoutingShapeInv, Kinds
<1>3. Bound(s) \in Nat
  <2>1. Settled(s)
    BY RoutingAssumption
  <2>2. s.left["send"] \in Nat /\ s.left["edit"] \in Nat
    BY <2>1 DEF Settled, Kinds
  <2>3. [msgs |-> s.msgs, memory |-> s.memory] \in Document
    BY <2>1 DEF Settled, WellFormed
  <2>4. Len(s.msgs) \in Nat
    BY <2>3 DEF Document
  <2> QED BY <2>2, <2>4 DEF Bound
<1>4. 1 .. Bound(s) \subseteq Slots
  BY DEF Slots, Bound
<1> QED BY <1>1, <1>2, <1>3, <1>4 DEF Indexes

\* There is a bound on how many.
LEMMA BoundIsNumber ==
  ASSUME NEW s \in Starts
  PROVE  Bound(s) \in Nat
<1>1. Settled(s)
  BY RoutingAssumption
<1>2. s.left["send"] \in Nat /\ s.left["edit"] \in Nat
  BY <1>1 DEF Settled, Kinds
<1>3. [msgs |-> s.msgs, memory |-> s.memory] \in Document
  BY <1>1 DEF Settled, WellFormed
<1>4. Len(s.msgs) \in Nat
  BY <1>3 DEF Document
<1> QED BY <1>2, <1>4 DEF Bound

\* A section that begins keeps the invariant when the message it changes is one
\* it may change, and the change one that Change allows.
LEMMA SectionStep ==
  ASSUME RoutingInv, Free,
         NEW k \in Kind, NEW m \in Indexes(doc'), NEW I \in SUBSET Nat,
         holder' = [kind |-> k, msg |-> m, ids |-> I, prev |-> doc],
         saved' = saved, turns' = turns, compact' = compact,
         fresh' \in Nat \ {0}, fresh <= fresh',
         WellFormed(doc', fresh'), Counted(doc'), Replaced(doc'.msgs[m]), RoutingShapeInv',
         k = "send" => Len(doc'.msgs) = Len(doc.msgs) + 1,
         k # "send" => Len(doc'.msgs) = Len(doc.msgs),
         Len(doc'.msgs) + left'["send"] + left'["edit"]
           <= Len(doc.msgs) + left["send"] + left["edit"],
         \A n \in Indexes(doc) : n # m => doc'.msgs[n] = doc.msgs[n],
         k # "send" => m \in Indexes(doc) /\ ~doc.msgs[m].deleted,
         Change', k \in Making
           => \A n \in Indexes(doc) : NewIds' \cap Ids(doc.msgs[n].as) = {},
         \A n \in Slots : \/ routings'[n] = routings[n]
                          \/ /\ n = m /\ k \in {"route", "fail"}
                                  /\ doc.msgs[m].status = "pending"
                             /\ routings'[n].stage = "saving",
         told.cut \subseteq told'.cut, told'.stranded = told.stranded,
         told'.overtaken = told.overtaken, told.undone => told'.undone,
         compact.stage # "none" /\ ~told'.undone => Grows(doc, doc'),
         SummaryIsTrue(doc) => SummaryIsTrue(doc')
  PROVE  RoutingInv'
<1>1. doc = saved /\ \A n \in Slots : ~Stage(n, "saving")
  BY FreeHolds, NothingIsSaving DEF RoutingInv
<1>2. ~Free' /\ holder'.kind = k /\ holder'.msg = m /\ holder'.ids = I /\ holder'.prev = doc
  BY DEF Free, Idle, Kind
<1>3. doc \in Document /\ doc' \in Document /\ fresh \in Nat /\ WellFormed(doc, fresh)
  BY DEF RoutingInv, DocumentInv, WellFormed
<1>4. \A n \in Indexes(doc') : n \in Indexes(doc) \/ n = m
  <2>1. CASE k = "send"
    <3>1. m = Len(doc.msgs) + 1
      BY <1>1, <1>2, <2>1 DEF Change
    <3> QED BY <1>3, <2>1, <3>1, Places DEF Indexes
  <2>2. CASE k # "send"
    BY <1>3, <2>2, Places DEF Indexes
  <2> QED BY <2>1, <2>2
<1>5. DocumentInv'
  <2>1. WellFormed(saved', fresh') /\ Counted(saved')
    BY <1>1, <1>3, WellFormedLater DEF RoutingInv, DocumentInv
  <2>2. \A n \in Indexes(saved') : Replaced(saved'.msgs[n])
    BY DEF RoutingInv, DocumentInv
  <2>3. \A n \in Indexes(doc') : Replaced(doc'.msgs[n])
    BY <1>4 DEF RoutingInv, DocumentInv
  <2>4. \E s \in Starts : Len(doc'.msgs) + left'["send"] + left'["edit"] <= Bound(s)
    <3>1. PICK s \in Starts : Len(doc.msgs) + left["send"] + left["edit"] <= Bound(s)
      BY DEF RoutingInv, DocumentInv
    <3>2. Bound(s) \in Nat
      BY BoundIsNumber
    <3>3. /\ Len(doc.msgs) \in Nat /\ Len(doc'.msgs) \in Nat
          /\ left["send"] \in Nat /\ left["edit"] \in Nat
          /\ left'["send"] \in Nat /\ left'["edit"] \in Nat
      BY <1>3, Places DEF RoutingInv, RoutingShapeInv, Kinds
    <3>4. Len(doc'.msgs) + left'["send"] + left'["edit"] <= Bound(s)
      <4> DEFINE A == Len(doc'.msgs) + left'["send"] + left'["edit"]
                 B == Len(doc.msgs) + left["send"] + left["edit"]
      <4>1. A <= B
        OBVIOUS
      <4>2. A \in Nat
        <5>1. \A x, y, z \in Nat : x + y + z \in Nat
          OBVIOUS
        <5> QED BY <3>3, <5>1
      <4>3. B \in Nat
        BY <3>3
      <4>4. B <= Bound(s)
        BY <3>1
      <4>5. A \in Nat /\ B \in Nat /\ A <= B /\ B <= Bound(s)
        BY <4>1, <4>2, <4>3, <4>4
      <4> HIDE DEF A, B
      <4>6. A <= Bound(s)
        BY <3>2, <4>5
      <4> QED BY <4>6 DEF A
    <3> QED BY <3>4
  <2> QED BY <2>1, <2>2, <2>3, <2>4 DEF DocumentInv
<1>6. HolderInv'
  <2>1. Len(doc'.msgs) = Len(saved'.msgs) + (IF k = "send" THEN 1 ELSE 0)
    <3>1. saved'.msgs = doc.msgs /\ Len(doc.msgs) \in Nat
      BY <1>1, <1>3, Places
    <3>2. CASE k = "send"
      BY <3>1, <3>2
    <3>3. CASE k # "send"
      BY <3>1, <3>3
    <3> QED BY <3>2, <3>3
  <2> QED BY <1>1, <1>2, <1>3, <2>1, Places DEF HolderInv, Kind, Making
<1>7. RunInv'
  <2> SUFFICES ASSUME NEW n \in Slots
               PROVE  RunInv!(n)'
    BY DEF RunInv
  <2>1. CASE routings'[n] = routings[n]
    BY <1>1, <2>1 DEF RoutingInv, RunInv, Stage, Turned
  <2>2. CASE /\ n = m /\ k \in {"route", "fail"} /\ doc.msgs[m].status = "pending"
             /\ routings'[n].stage = "saving"
    BY <1>1, <1>2, <2>2 DEF Stage
  <2> QED BY <2>1, <2>2
<1>8. TurnInv'
  BY DEF RoutingInv, TurnInv, Turned
<1>9. OwnerInv'
  <2> SUFFICES ASSUME NEW n \in Indexes(saved), saved.msgs[n].status = "pending",
                      ~saved.msgs[n].deleted, n \notin told.stranded
               PROVE  ~Stage(n, "none")'
    BY DEF OwnerInv
  <2>1. ~Stage(n, "none")
    BY DEF RoutingInv, OwnerInv
  <2>2. n \in Slots
    BY <1>1, SlotsOfMessages DEF RoutingInv
  <2> QED BY <2>1, <2>2 DEF Stage
<1>10. DeliveredInv'
  <2> SUFFICES ASSUME NEW n \in Indexes(saved), saved.msgs[n].status = "resolved",
                      n \notin told'.cut
               PROVE  /\ routings'[n].stage \in {"none", "deliver"}
                      /\ \A x \in ActiveAssignments(saved.msgs[n]) :
                           x.id \in Turned'
                             \/ (Stage(n, "deliver")' /\ x.id \in routings'[n].ids)
    BY DEF DeliveredInv
  <2>1. /\ routings[n].stage \in {"none", "deliver"}
        /\ \A x \in ActiveAssignments(saved.msgs[n]) :
             x.id \in Turned \/ (Stage(n, "deliver") /\ x.id \in routings[n].ids)
    BY DEF RoutingInv, DeliveredInv
  <2>2. n \in Slots
    BY <1>1, SlotsOfMessages DEF RoutingInv
  <2>3. routings'[n] = routings[n]
    BY <1>1, <2>2
  <2> QED BY <2>1, <2>3 DEF Stage, Turned
<1>11. CompactInv'
  <2>1. compact.stage \in {"none", "asking", "answered"}
    BY <1>1 DEF RoutingInv, CompactInv
  <2>2. ASSUME compact.stage \in {"asking", "answered"}
        PROVE  /\ WellFormed(compact.source, fresh') /\ Counted(compact.source)
               /\ ~told'.overtaken => SummaryIsTrue(compact.source)
               /\ Active(compact.source) # {} /\ compact.read \in Prompts(compact.source)
               /\ ~told'.undone =>
                    /\ Grows(compact.source, doc')
                    /\ ~Free' /\ holder'.kind # "reroute" => Grows(compact.source, saved')
    <3>1. /\ WellFormed(compact.source, fresh) /\ Counted(compact.source)
          /\ ~told.overtaken => SummaryIsTrue(compact.source)
          /\ Active(compact.source) # {} /\ compact.read \in Prompts(compact.source)
          /\ ~told.undone => Grows(compact.source, doc)
      BY <2>2 DEF RoutingInv, CompactInv
    <3>2. ~told'.undone => Grows(compact.source, doc')
      BY <2>2, <3>1, GrowsTransitive
    <3>3. WellFormed(compact.source, fresh')
      BY <1>3, <3>1, WellFormedLater
    <3> QED BY <1>1, <3>1, <3>2, <3>3
  <2>3. k # "compact"
    BY DEF Kind
  <2> QED BY <1>2, <2>1, <2>2, <2>3 DEF CompactInv
<1>12. SummaryInv'
  BY DEF RoutingInv, SummaryInv
<1> QED BY <1>5, <1>6, <1>7, <1>8, <1>9, <1>10, <1>11, <1>12 DEF RoutingInv

\* Corrections are in the messages: the memory has no part in them.
LEMMA SameMessagesSameActive ==
  ASSUME NEW d, NEW e, d.msgs = e.msgs
  PROVE  /\ Indexes(d) = Indexes(e) /\ Kept(d) = Kept(e) /\ Active(d) = Active(e)
         /\ \A m : Superseded(d, m) <=> Superseded(e, m)
<1>1. Indexes(d) = Indexes(e)
  BY DEF Indexes
<1>2. \A m : Superseded(d, m) <=> Superseded(e, m)
  BY <1>1 DEF Superseded
<1>3. Retired(d) = Retired(e)
  BY <1>1, <1>2 DEF Retired
<1>4. Kept(d) = Kept(e)
  BY <1>1, <1>3 DEF Kept
<1>5. Active(d) = Active(e)
  BY <1>4 DEF Active
<1> QED BY <1>1, <1>2, <1>4, <1>5

\* ... nor in what was added.
LEMMA GrowsOfMessages ==
  ASSUME NEW s, NEW d, NEW e, d.msgs = e.msgs
  PROVE  Grows(s, d) <=> Grows(s, e)
BY SameMessagesSameActive DEF Grows

\* A new message is sound: it has one Agent and needs no decision, or has not.
LEMMA Decided ==
  ASSUME NEW names \in SUBSET Agents, NEW over \in Nat, fresh \in Nat
  PROVE  LET new == NewMessage(names, over) IN
         /\ new \in Message /\ Routed(new, fresh + Cardinality(names)) /\ Replaced(new)
         /\ new.corr = {} /\ ~new.deleted /\ new.over = over /\ new.status # "failed"
         /\ new.status \in {"resolved", "pending"}
         /\ \A x \in new.as : x.id >= fresh /\ x.id \in Nat
<1> DEFINE new == NewMessage(names, over)
           made == Assign(names, fresh)
<1>1. /\ made \subseteq Assignment /\ IsFiniteSet(made)
      /\ Cardinality(made) = Cardinality(names)
      /\ \A x \in made : x.id \in fresh .. fresh + Cardinality(names) - 1
           /\ x.agent \in names
      /\ \A x, y \in made : x.id = y.id \/ x.agent = y.agent => x = y
      /\ \A a \in names : \E x \in made : x.agent = a
  BY Assigned
<1>2. /\ new.as = made /\ new.corr = {} /\ ~new.deleted /\ new.over = over
      /\ new.status = IF Cardinality(names) = 1 THEN "resolved" ELSE "pending"
  BY DEF NewMessage
<1>3. Cardinality(names) \in Nat /\ (Cardinality(names) = 1 => names # {})
  BY FiniteNames, FS_EmptySet
<1>4. new \in Message
  BY <1>1, <1>3 DEF NewMessage, Message
<1>5. Routed(new, fresh + Cardinality(names))
  BY <1>1, <1>2, <1>3, FS_EmptySet DEF Routed
<1>6. ActiveAssignments(new) = made
  BY <1>2 DEF ActiveAssignments, Corrected
<1>7. Replaced(new)
  BY <1>1, <1>2, <1>3, <1>6 DEF Replaced
<1>8. \A x \in made : x.id >= fresh /\ x.id \in Nat
  BY <1>1, <1>3
<1>9. new.status \in {"resolved", "pending"}
  BY <1>2
<1> QED BY <1>2, <1>4, <1>5, <1>7, <1>8, <1>9

\* refreshActiveRoutingMemory keeps count and summary true when corrections go.
LEMMA Refreshed ==
  ASSUME NEW d, NEW next, WellFormed(d, next), NEW before, NEW prior,
         WellFormed(before, prior), Counted(before), d.memory = before.memory,
         Active(d) \subseteq Active(before)
  PROVE  LET r == RefreshMemory(d) IN
         /\ r \in Document /\ r.msgs = d.msgs /\ Counted(r) /\ WellFormed(r, next)
         /\ SummaryIsTrue(before) => SummaryIsTrue(r)
<1> DEFINE r == RefreshMemory(d)
           n == Cardinality(Active(d))
<1>1. d \in Document /\ n \in Nat /\ IsFiniteSet(Active(d)) /\ IsFiniteSet(Active(before))
  BY ActiveFinite DEF WellFormed
<1>2. CASE n = d.memory.count
  <2>1. r = d
    BY <1>2 DEF RefreshMemory
  <2>2. Active(d) = Active(before)
    BY <1>1, <1>2, FS_Subset DEF Counted
  <2> QED BY <1>1, <2>1, <2>2 DEF Counted, SummaryIsTrue
<1>3. CASE n # d.memory.count
  <2>1. r = [d EXCEPT !.memory = IF n = 0 THEN EmptyMemory
                                 ELSE [EmptyMemory EXCEPT !.status = "stale", !.count = n]]
    BY <1>3 DEF RefreshMemory
  <2>2. r \in Document /\ r.msgs = d.msgs
    <3>1. (IF n = 0 THEN EmptyMemory
           ELSE [EmptyMemory EXCEPT !.status = "stale", !.count = n]) \in Memory
      BY <1>1 DEF Memory, EmptyMemory
    <3> QED BY <1>1, <2>1, <3>1 DEF Document
  <2>3. Active(r) = Active(d) /\ Indexes(r) = Indexes(d)
    BY <2>2, SameMessagesSameActive
  <2>4. r.memory = IF n = 0 THEN EmptyMemory
                   ELSE [EmptyMemory EXCEPT !.status = "stale", !.count = n]
    BY <1>1, <2>1 DEF Document
  <2>5. Counted(r)
    BY <1>1, <2>3, <2>4, FS_EmptySet DEF Counted, EmptyMemory
  <2>6. SummaryIsTrue(r)
    BY <2>4 DEF SummaryIsTrue, EmptyMemory
  <2>7. WellFormed(r, next)
    BY <2>2, <2>3 DEF WellFormed
  <2> QED BY <2>2, <2>5, <2>6, <2>7
<1> QED BY <1>2, <1>3

-----------------------------------------------------------------------------
(* Sends, edits, deletions and retries.                                    *)

\* acceptPreparedSend, of a send and of an edit.
LEMMA Accepted ==
  ASSUME RoutingInv, NEW names \in Named, NEW over \in Indexes(doc) \cup {0},
         AcceptMessage(names, over), left' \in [Kinds -> Nat],
         left'["send"] + left'["edit"] + 1 <= left["send"] + left["edit"],
         told' = [told EXCEPT !.undone = told'.undone], told'.undone \in BOOLEAN,
         told.undone => told'.undone,
         over # 0 /\ compact.stage # "none" => told'.undone
  PROVE  RoutingInv'
<1> DEFINE new == NewMessage(names, over)
           e == [doc EXCEPT !.msgs = @ \o <<new>>]
           m == Len(doc.msgs) + 1
<1>1. /\ fresh \in Nat \ {0} /\ WellFormed(doc, fresh) /\ Counted(doc) /\ doc \in Document
      /\ names \in SUBSET Agents /\ over \in Nat /\ Cardinality(names) \in Nat
      /\ Len(doc.msgs) \in Nat
  <2>1. /\ fresh \in Nat \ {0} /\ WellFormed(doc, fresh) /\ Counted(doc) /\ doc \in Document
    BY DEF RoutingInv, DocumentInv, WellFormed
  <2>2. names \in SUBSET Agents
    BY RoutingAssumption
  <2>3. over \in Nat /\ Len(doc.msgs) \in Nat
    BY <2>1, Places
  <2> QED BY <2>1, <2>2, <2>3, FiniteNames
<1>2. /\ new \in Message /\ Routed(new, fresh + Cardinality(names)) /\ Replaced(new)
      /\ new.corr = {} /\ ~new.deleted /\ new.over = over
      /\ new.status \in {"pending", "resolved"}
      /\ \A x \in new.as : x.id >= fresh /\ x.id \in Nat
  BY <1>1, Decided
<1> HIDE DEF new
<1>3. /\ e \in Document /\ e.memory = doc.memory /\ Len(e.msgs) = m
      /\ Indexes(e) = Indexes(doc) \cup {m} /\ e.msgs[m] = new
      /\ \A n \in Indexes(doc) : e.msgs[n] = doc.msgs[n]
  BY <1>1, <1>2, Appendable
<1>4. m \notin Indexes(doc) /\ m \in Indexes(e)
  BY <1>1, <1>3 DEF Indexes
<1> HIDE DEF e, m
<1>5. /\ Free /\ saved' = saved /\ routings' = routings /\ compact' = compact
      /\ queued' = queued /\ turns' = turns /\ fresh' = fresh + Cardinality(names)
      /\ doc' = IF over = 0 THEN e ELSE RefreshMemory(e)
      /\ holder' = [kind |-> "send", msg |-> m, ids |-> {}, prev |-> doc]
  BY DEF AcceptMessage, Save, e, m, new
<1>6. WellFormed(e, fresh')
  <2>1. fresh \in Nat /\ fresh' \in Nat /\ fresh <= fresh'
    BY <1>1, <1>5
  <2>2. Routed(e.msgs[m], fresh') /\ \A x \in e.msgs[m].as : x.id >= fresh
    BY <1>2, <1>3, <1>5
  <2>3. \A n \in Indexes(doc) : n # m => e.msgs[n] = doc.msgs[n]
    BY <1>3
  <2> QED BY <1>1, <1>3, <1>4, <2>1, <2>2, <2>3, StillWellFormed
<1>7. Grows(e, doc)
  <2>1. \A n : Superseded(doc, n) => Superseded(e, n)
    BY <1>3 DEF Superseded
  <2> QED BY <1>2, <1>3, <2>1 DEF Grows
<1>8. Active(e) \subseteq Active(doc)
  BY <1>1, <1>3, <1>7, ActiveGrows
<1>9. over = 0 => Grows(doc, e) /\ Active(doc) \subseteq Active(e)
  <2> SUFFICES ASSUME over = 0 PROVE Grows(doc, e) /\ Active(doc) \subseteq Active(e)
    OBVIOUS
  <2>1. \A n \in Nat \ {0} : Superseded(e, n) => Superseded(doc, n)
    BY <1>2, <1>3 DEF Superseded
  <2>2. Grows(doc, e)
    BY <1>3, <2>1 DEF Grows
  <2> QED BY <1>1, <1>3, <2>2, ActiveGrows
<1>10. /\ doc' \in Document /\ doc'.msgs = e.msgs /\ Counted(doc')
            /\ WellFormed(doc', fresh')
       /\ SummaryIsTrue(doc) => SummaryIsTrue(doc')
  <2>1. CASE over = 0
    <3>1. doc' = e /\ Active(e) = Active(doc)
      BY <1>5, <1>8, <1>9, <2>1
    <3> QED BY <1>1, <1>3, <1>6, <3>1 DEF Counted, SummaryIsTrue
  <2>2. CASE over # 0
    BY <1>1, <1>3, <1>5, <1>6, <1>8, <2>2, Refreshed
  <2> QED BY <2>1, <2>2
<1>11. Indexes(doc') = Indexes(e)
  BY <1>10, SameMessagesSameActive
<1>12. compact.stage # "none" /\ ~told'.undone => Grows(doc, doc')
  BY <1>9, <1>10, GrowsOfMessages
<1>13. doc = saved
  BY <1>5, FreeHolds DEF RoutingInv
<1>14. Change'
  BY <1>2, <1>3, <1>5, <1>10, <1>13 DEF Change, m
<1>15. NewIds' = Ids(new.as)
  BY <1>3, <1>5, <1>10 DEF NewIds
<1>16. \A n \in Indexes(doc) : NewIds' \cap Ids(doc.msgs[n].as) = {}
  <2> SUFFICES ASSUME NEW n \in Indexes(doc), NEW x \in new.as, NEW y \in doc.msgs[n].as,
                      x.id = y.id
               PROVE  FALSE
    BY <1>15 DEF Ids
  <2>1. y.id < fresh /\ y.id \in Nat
    BY <1>1, Places DEF WellFormed, Routed, Message, Assignment
  <2> QED BY <1>1, <1>2, <2>1
<1>17. RoutingShapeInv'
  <2>1. told' \in [cut : SUBSET Nat, stranded : SUBSET Nat, undone : BOOLEAN, overtaken : BOOLEAN]
    BY DEF RoutingInv, RoutingShapeInv
  <2> QED BY <1>5, <2>1 DEF RoutingInv, RoutingShapeInv
<1>18. told'.cut = told.cut /\ told'.stranded = told.stranded
         /\ told'.overtaken = told.overtaken
  BY DEF RoutingInv, RoutingShapeInv
<1>19. Len(doc'.msgs) + left'["send"] + left'["edit"] <= Len(doc.msgs) + left["send"] + left["edit"]
  <2>1. left["send"] \in Nat /\ left["edit"] \in Nat /\ left'["send"] \in Nat
          /\ left'["edit"] \in Nat
    BY DEF RoutingInv, RoutingShapeInv, Kinds
  <2>2. Len(doc'.msgs) = Len(doc.msgs) + 1
    BY <1>3, <1>10 DEF m
  <2>3. \A p, q, a, b, n \in Nat : a + b + 1 <= p + q => (n + 1) + a + b <= n + p + q
    OBVIOUS
  <2> QED BY <1>1, <2>1, <2>2, <2>3
<1>20. m \in Indexes(doc') /\ "send" \in Kind /\ {} \in SUBSET Nat
  BY <1>4, <1>11 DEF Kind
<1>21. Replaced(doc'.msgs[m]) /\ Len(doc'.msgs) = Len(doc.msgs) + 1
       /\ \A n \in Indexes(doc) : doc'.msgs[n] = doc.msgs[n]
  BY <1>2, <1>3, <1>10 DEF m
<1>22. fresh' \in Nat \ {0} /\ fresh <= fresh'
  BY <1>1, <1>5
<1> QED
  BY <1>5, <1>10, <1>12, <1>14, <1>16, <1>17, <1>18, <1>19, <1>20, <1>21, <1>22,
       SectionStep

\* A message is sent.
LEMMA SendKeeps ==
  ASSUME RoutingInv, Send
  PROVE  RoutingInv'
<1>1. PICK names \in Named : AcceptMessage(names, 0)
  BY DEF Send
<1>2. /\ left' \in [Kinds -> Nat] /\ left'["send"] = left["send"] - 1
           /\ left'["edit"] = left["edit"]
      /\ left["send"] \in Nat /\ left["edit"] \in Nat
  BY Spending DEF Send, RoutingInv, RoutingShapeInv, Kinds
<1>3. told' = told
        /\ told \in [cut : SUBSET Nat, stranded : SUBSET Nat, undone : BOOLEAN, overtaken : BOOLEAN]
  BY DEF Send, RoutingInv, RoutingShapeInv
<1>4. left'["send"] + left'["edit"] + 1 <= left["send"] + left["edit"]
  BY <1>2
<1> QED BY <1>1, <1>2, <1>3, <1>4, Accepted

\* A message is edited.
LEMMA EditKeeps ==
  ASSUME RoutingInv, NEW m \in Indexes(doc), Edit(m)
  PROVE  RoutingInv'
<1>1. PICK names \in Named : AcceptMessage(names, m)
  BY DEF Edit
<1>2. /\ left' \in [Kinds -> Nat] /\ left'["edit"] = left["edit"] - 1
           /\ left'["send"] = left["send"]
      /\ left["send"] \in Nat /\ left["edit"] \in Nat
  BY Spending DEF Edit, RoutingInv, RoutingShapeInv, Kinds
<1>3. /\ told \in [cut : SUBSET Nat, stranded : SUBSET Nat, undone : BOOLEAN, overtaken : BOOLEAN]
      /\ told' = [told EXCEPT !.undone = @ \/ compact.stage # "none"]
  BY DEF Edit, RoutingInv, RoutingShapeInv
<1>4. /\ told'.undone \in BOOLEAN /\ told' = [told EXCEPT !.undone = told'.undone]
      /\ told.undone => told'.undone
      /\ compact.stage # "none" => told'.undone
  BY <1>3
<1>5. left'["send"] + left'["edit"] + 1 <= left["send"] + left["edit"]
  BY <1>2
<1> QED BY <1>1, <1>2, <1>4, <1>5, Accepted

\* What a section finds when it begins.
LEMMA Known ==
  ASSUME RoutingInv, Free
  PROVE  /\ doc = saved /\ doc \in Document /\ WellFormed(doc, fresh) /\ Counted(doc)
         /\ fresh \in Nat \ {0} /\ Len(doc.msgs) \in Nat /\ Indexes(doc) \subseteq Slots
         /\ Indexes(doc) \subseteq Nat \ {0}
         /\ left \in [Kinds -> Nat] /\ left["send"] \in Nat /\ left["edit"] \in Nat
         /\ told \in [cut : SUBSET Nat, stranded : SUBSET Nat, undone : BOOLEAN, overtaken : BOOLEAN]
         /\ \A m \in Indexes(doc) : /\ doc.msgs[m] \in Message /\ Routed(doc.msgs[m], fresh)
                                    /\ Replaced(doc.msgs[m])
<1>1. doc \in Document /\ WellFormed(doc, fresh) /\ Counted(doc) /\ fresh \in Nat \ {0}
  BY DEF RoutingInv, DocumentInv, WellFormed
<1>2. doc = saved /\ Indexes(doc) \subseteq Slots
  BY FreeHolds, SlotsOfMessages DEF RoutingInv
<1>3. \A m \in Indexes(doc) : /\ doc.msgs[m] \in Message /\ Routed(doc.msgs[m], fresh)
                              /\ Replaced(doc.msgs[m])
  BY <1>1, Places DEF RoutingInv, DocumentInv, WellFormed
<1>4. left["send"] \in Nat /\ left["edit"] \in Nat /\ left \in [Kinds -> Nat]
  BY DEF RoutingInv, RoutingShapeInv, Kinds
<1>5. told \in [cut : SUBSET Nat, stranded : SUBSET Nat, undone : BOOLEAN, overtaken : BOOLEAN]
  BY DEF RoutingInv, RoutingShapeInv
<1> QED BY <1>1, <1>2, <1>3, <1>4, <1>5, Places

\* Sends and edits are what uses up the slots.
LEMMA SpentElsewhere ==
  ASSUME RoutingInv, NEW k \in Kinds \ {"send", "edit"}, Spend(k) \/ left' = left
  PROVE  /\ left' \in [Kinds -> Nat]
         /\ left'["send"] = left["send"] /\ left'["edit"] = left["edit"]
<1>1. left \in [Kinds -> Nat]
  BY DEF RoutingInv, RoutingShapeInv
<1> QED BY <1>1, Spending DEF Kinds

\* A message is deleted: its corrections go, and the summary with them.
LEMMA DeleteKeeps ==
  ASSUME RoutingInv, NEW m \in Indexes(doc), Delete(m)
  PROVE  RoutingInv'
<1> DEFINE new == [doc.msgs[m] EXCEPT !.deleted = TRUE]
           e == [doc EXCEPT !.msgs[m].deleted = TRUE]
<1>1. /\ Free /\ Spend("delete") /\ ~doc.msgs[m].deleted /\ doc' = RefreshMemory(e)
      /\ holder' = [kind |-> "delete", msg |-> m, ids |-> {}, prev |-> doc]
      /\ UNCHANGED <<saved, routings, compact, queued, fresh, turns, told>>
  BY DEF Delete, Save
<1>2. /\ doc = saved /\ doc \in Document /\ WellFormed(doc, fresh) /\ Counted(doc)
      /\ fresh \in Nat \ {0} /\ Len(doc.msgs) \in Nat /\ doc.msgs[m] \in Message
      /\ Routed(doc.msgs[m], fresh) /\ Replaced(doc.msgs[m])
  BY <1>1, Known
<1>3. /\ new \in Message /\ new.as = doc.msgs[m].as /\ new.corr = doc.msgs[m].corr
      /\ new.over = doc.msgs[m].over /\ new.status = doc.msgs[m].status /\ new.deleted
  BY <1>2 DEF Message
<1>4. e = [doc EXCEPT !.msgs[m] = new]
  BY <1>2
<1> HIDE DEF new, e
<1>5. /\ e \in Document /\ e.memory = doc.memory /\ Len(e.msgs) = Len(doc.msgs)
      /\ Indexes(e) = Indexes(doc) /\ e.msgs[m] = new
      /\ \A n \in Indexes(doc) : n # m => e.msgs[n] = doc.msgs[n]
  BY <1>2, <1>3, <1>4, Replaceable
<1>6. Routed(new, fresh) /\ Replaced(new)
  BY <1>2, <1>3 DEF Routed, Replaced, ActiveAssignments, Corrected
<1>7. WellFormed(e, fresh)
  <2>1. \A x \in e.msgs[m].as : x.id >= fresh
          \/ (m \in Indexes(doc) /\ x.id \in Ids(doc.msgs[m].as))
    BY <1>3, <1>5 DEF Ids
  <2>2. fresh \in Nat /\ fresh <= fresh /\ Indexes(e) = Indexes(doc) \cup {m}
    BY <1>2, <1>5
  <2>3. Routed(e.msgs[m], fresh) /\ m \in Indexes(e)
    BY <1>5, <1>6
  <2>4. \A n \in Indexes(doc) : n # m => e.msgs[n] = doc.msgs[n]
    BY <1>5
  <2>5. WellFormed(doc, fresh) /\ e \in Document
    BY <1>2, <1>5
  <2> QED BY ONLY <2>1, <2>2, <2>3, <2>4, <2>5, StillWellFormed
<1>8. Grows(doc, e) /\ Grows(e, doc)
  BY <1>2, <1>3, <1>5, GrowsByMessage
<1>9. Active(e) \subseteq Active(doc)
  BY <1>2, <1>3, <1>5, <1>8, ActiveGrows
<1>10. /\ doc' \in Document /\ doc'.msgs = e.msgs /\ Counted(doc')
            /\ WellFormed(doc', fresh)
       /\ SummaryIsTrue(doc) => SummaryIsTrue(doc')
  BY <1>1, <1>2, <1>5, <1>7, <1>9, Refreshed
<1>11. Indexes(doc') = Indexes(doc) /\ Grows(doc, doc')
  BY <1>5, <1>8, <1>10, SameMessagesSameActive, GrowsOfMessages
<1>12. Change'
  BY <1>1, <1>2, <1>5, <1>10 DEF Change, new
<1>13. /\ left' \in [Kinds -> Nat]
       /\ left'["send"] = left["send"] /\ left'["edit"] = left["edit"]
  BY <1>1, SpentElsewhere DEF Kinds
<1>14. RoutingShapeInv'
  BY <1>1, <1>13 DEF RoutingInv, RoutingShapeInv
<1>15. Len(doc'.msgs) + left'["send"] + left'["edit"] <= Len(doc.msgs) + left["send"] + left["edit"]
  BY <1>1, <1>5, <1>10, <1>13, Known
<1>16. Replaced(doc'.msgs[m]) /\ Len(doc'.msgs) = Len(doc.msgs) /\ m \in Indexes(doc')
       /\ \A n \in Indexes(doc) : n # m => doc'.msgs[n] = doc.msgs[n]
  BY <1>5, <1>6, <1>10, <1>11
<1>17. "delete" \in Kind /\ {} \in SUBSET Nat /\ "delete" \notin Making
  BY DEF Kind, Making
<1> QED
  BY <1>1, <1>2, <1>10, <1>11, <1>12, <1>14, <1>15, <1>16, <1>17, SectionStep

\* A section that leaves corrections and deletions of its message alone leaves the
\* memory true.
LEMMA OneChanged ==
  ASSUME RoutingInv, Free, NEW m \in Indexes(doc), NEW new \in Message,
         NEW later \in Nat, fresh <= later, Routed(new, later),
         new.corr = doc.msgs[m].corr, new.over = doc.msgs[m].over,
         new.deleted = doc.msgs[m].deleted,
         \A x \in new.as : x.id >= fresh
  PROVE  LET e == [doc EXCEPT !.msgs[m] = new] IN
         /\ e \in Document /\ WellFormed(e, later) /\ Counted(e) /\ Grows(doc, e)
         /\ SummaryIsTrue(doc) => SummaryIsTrue(e)
         /\ Len(e.msgs) = Len(doc.msgs) /\ Indexes(e) = Indexes(doc) /\ e.msgs[m] = new
         /\ \A n \in Indexes(doc) : n # m => e.msgs[n] = doc.msgs[n]
<1> DEFINE e == [doc EXCEPT !.msgs[m] = new]
<1>1. doc \in Document /\ WellFormed(doc, fresh) /\ Counted(doc) /\ fresh \in Nat
  BY Known
<1>2. /\ e \in Document /\ e.memory = doc.memory /\ Len(e.msgs) = Len(doc.msgs)
      /\ Indexes(e) = Indexes(doc) /\ e.msgs[m] = new
      /\ \A n \in Indexes(doc) : n # m => e.msgs[n] = doc.msgs[n]
  BY <1>1, Replaceable
<1> HIDE DEF e
<1>3. WellFormed(e, later)
  <2>1. m \in Indexes(e) /\ Indexes(e) = Indexes(doc) \cup {m}
    BY <1>2
  <2> QED BY <1>1, <1>2, <2>1, StillWellFormed
<1>4. Grows(doc, e) /\ Grows(e, doc)
  BY <1>1, <1>2, GrowsByMessage
<1>5. Active(e) = Active(doc)
  <2>1. \A n \in Indexes(doc) : e.msgs[n].deleted = doc.msgs[n].deleted
    BY <1>2
  <2>2. Active(e) \subseteq Active(doc)
    BY <1>1, <1>2, <1>4, <2>1, ActiveGrows
  <2>3. Active(doc) \subseteq Active(e)
    BY <1>1, <1>2, <1>4, <2>1, ActiveGrows
  <2> QED BY <2>2, <2>3
<1>6. Counted(e) /\ (SummaryIsTrue(doc) => SummaryIsTrue(e))
  BY <1>1, <1>2, <1>5 DEF Counted, SummaryIsTrue
<1> QED BY <1>2, <1>3, <1>4, <1>6 DEF e

\* A new identifier is in no message yet.
LEMMA NewInNoMessage ==
  ASSUME RoutingInv, Free, NEW links, \A x \in links : x.id >= fresh,
         NEW n \in Indexes(doc)
  PROVE  Ids(links) \cap Ids(doc.msgs[n].as) = {}
<1> SUFFICES ASSUME NEW x \in links, NEW y \in doc.msgs[n].as, x.id = y.id
             PROVE  FALSE
  BY DEF Ids
<1>1. y.id < fresh /\ y.id \in Nat /\ fresh \in Nat
  BY Known DEF Routed, Message, Assignment
<1> QED BY <1>1

\* A failed routing is tried again.
LEMMA RetryKeeps ==
  ASSUME RoutingInv, NEW m \in Indexes(doc), NEW names \in Named \cup Chosen,
         Retry(m, names)
  PROVE  RoutingInv'
<1> DEFINE old == doc.msgs[m]
           new == NewMessage(names, old.over)
<1>1. /\ Free /\ Spend("retry") /\ old.status = "failed" /\ ~old.deleted
      /\ doc' = [doc EXCEPT !.msgs[m] = new] /\ fresh' = fresh + Cardinality(names)
      /\ holder' = [kind |-> "retry", msg |-> m, ids |-> {}, prev |-> doc]
      /\ UNCHANGED <<saved, routings, compact, queued, turns, told>>
  BY DEF Retry, Save
<1>2. /\ doc = saved /\ doc \in Document /\ fresh \in Nat \ {0} /\ Len(doc.msgs) \in Nat
      /\ old \in Message /\ Routed(old, fresh)
  BY <1>1, Known
<1>3. old.corr = {} /\ old.over \in Nat
  BY <1>1, <1>2 DEF Routed, Message
<1>4. names \in SUBSET Agents /\ Cardinality(names) \in Nat
  BY RoutingAssumption, FiniteNames
<1>5. /\ new \in Message /\ Routed(new, fresh + Cardinality(names)) /\ Replaced(new)
      /\ new.corr = {} /\ ~new.deleted /\ new.over = old.over /\ new.status # "failed"
      /\ \A x \in new.as : x.id >= fresh
  BY <1>2, <1>3, <1>4, Decided
<1> HIDE DEF new
<1>6. fresh' \in Nat \ {0} /\ fresh <= fresh' /\ Routed(new, fresh')
  BY <1>1, <1>2, <1>4, <1>5
<1>7. /\ doc' \in Document /\ WellFormed(doc', fresh') /\ Counted(doc') /\ Grows(doc, doc')
      /\ SummaryIsTrue(doc) => SummaryIsTrue(doc')
      /\ Len(doc'.msgs) = Len(doc.msgs) /\ Indexes(doc') = Indexes(doc)
           /\ doc'.msgs[m] = new
      /\ \A n \in Indexes(doc) : n # m => doc'.msgs[n] = doc.msgs[n]
  <2>1. new.corr = old.corr /\ new.deleted = old.deleted
    BY <1>1, <1>2, <1>3, <1>5 DEF Message
  <2>2. fresh' \in Nat /\ fresh <= fresh' /\ Free /\ new \in Message /\ Routed(new, fresh')
    BY <1>1, <1>5, <1>6
  <2> DEFINE e == [doc EXCEPT !.msgs[m] = new]
  <2>3. /\ e \in Document /\ WellFormed(e, fresh') /\ Counted(e) /\ Grows(doc, e)
        /\ SummaryIsTrue(doc) => SummaryIsTrue(e)
        /\ Len(e.msgs) = Len(doc.msgs) /\ Indexes(e) = Indexes(doc) /\ e.msgs[m] = new
        /\ \A n \in Indexes(doc) : n # m => e.msgs[n] = doc.msgs[n]
    BY <1>5, <2>1, <2>2, OneChanged
  <2>4. doc' = e
    BY <1>1
  <2> HIDE DEF e
  <2> QED BY <2>3, <2>4
<1>8. Change'
  BY <1>1, <1>2, <1>5, <1>7 DEF Change, Message
<1>9. NewIds' = Ids(new.as)
  BY <1>1, <1>7 DEF NewIds
<1>10. \A n \in Indexes(doc) : NewIds' \cap Ids(doc.msgs[n].as) = {}
  BY <1>1, <1>5, <1>9, NewInNoMessage
<1>11. /\ left' \in [Kinds -> Nat]
       /\ left'["send"] = left["send"] /\ left'["edit"] = left["edit"]
  BY <1>1, SpentElsewhere DEF Kinds
<1>12. RoutingShapeInv'
  BY <1>1, <1>11 DEF RoutingInv, RoutingShapeInv
<1>13. Len(doc'.msgs) + left'["send"] + left'["edit"] <= Len(doc.msgs) + left["send"] + left["edit"]
  BY <1>1, <1>7, <1>11, Known
<1>14. Replaced(doc'.msgs[m]) /\ m \in Indexes(doc') /\ "retry" \in Kind
         /\ {} \in SUBSET Nat
  BY <1>5, <1>7 DEF Kind
<1> QED
  <2>1. \A n \in Slots : routings'[n] = routings[n]
    BY <1>1
  <2>2. m \in Indexes(doc) /\ ~doc.msgs[m].deleted
    BY <1>1
  <2>3. told' = told /\ saved' = saved /\ turns' = turns /\ compact' = compact /\ Free
    BY <1>1
  <2>4. holder' = [kind |-> "retry", msg |-> m, ids |-> {}, prev |-> doc]
    BY <1>1
  <2> HIDE DEF old
  <2> QED
    BY <1>6, <1>7, <1>8, <1>10, <1>12, <1>13, <1>14, <2>1, <2>2, <2>3, <2>4, SectionStep

-----------------------------------------------------------------------------
(* The run of a message, up to its decision.                               *)

\* The history, and the stages before a run has decided anything on disk.
Told == [cut : SUBSET Nat, stranded : SUBSET Nat, undone : BOOLEAN, overtaken : BOOLEAN]
Working == {"start", "classify", "infer", "failing", "decided"}

\* A message that is pending on disk, and that no section is settling, is pending.
LEMMA PendingInBoth ==
  ASSUME HolderInv, NEW m \in Indexes(saved), ~Stage(m, "saving"),
         saved.msgs[m].status = "pending", ~saved.msgs[m].deleted,
         ~Free /\ holder.msg = m => holder.kind \notin {"fail", "delete", "reroute"},
         0 \notin Indexes(saved), Len(saved.msgs) + 1 \notin Indexes(saved)
  PROVE  IsPending(m)
<1>1. CASE Free
  BY <1>1 DEF HolderInv, IsPending
<1>2. CASE ~Free /\ holder.msg # m
  BY <1>2 DEF HolderInv, IsPending
<1>3. CASE ~Free /\ holder.msg = m
  BY <1>3 DEF HolderInv, Change
<1> QED BY <1>1, <1>2, <1>3

\* The document on disk.
LEMMA SavedPlaces ==
  ASSUME DocumentInv
  PROVE  /\ saved \in Document /\ Len(saved.msgs) \in Nat
              /\ Indexes(saved) \subseteq Nat \ {0}
         /\ 0 \notin Indexes(saved) /\ Len(saved.msgs) + 1 \notin Indexes(saved)
         /\ WellFormed(saved, fresh) /\ Counted(saved) /\ fresh \in Nat \ {0}
         /\ \A m \in Indexes(saved) : /\ saved.msgs[m] \in Message
                                      /\ Routed(saved.msgs[m], fresh)
                                      /\ Replaced(saved.msgs[m])
<1>1. saved \in Document /\ WellFormed(saved, fresh) /\ Counted(saved)
        /\ fresh \in Nat \ {0}
  BY DEF DocumentInv, WellFormed
<1>2. Len(saved.msgs) \in Nat /\ Indexes(saved) \subseteq Nat \ {0}
  BY <1>1, Places
<1>3. 0 \notin Indexes(saved) /\ Len(saved.msgs) + 1 \notin Indexes(saved)
  BY <1>2 DEF Indexes
<1> QED BY <1>1, <1>2, <1>3, Places DEF DocumentInv, WellFormed

\* What is on disk is in memory, and has a slot.
LEMMA SavedInDoc ==
  ASSUME HolderInv, DocumentInv, RoutingShapeInv
  PROVE  Indexes(saved) \subseteq Indexes(doc) /\ Indexes(saved) \subseteq Slots
<1>1. Len(saved.msgs) \in Nat /\ Len(doc.msgs) \in Nat
  BY SavedPlaces, Places DEF DocumentInv, WellFormed
<1>2. Len(saved.msgs) <= Len(doc.msgs)
  <2>1. CASE Free
    BY <1>1, <2>1 DEF HolderInv
  <2>2. CASE ~Free /\ holder.kind = "send"
    BY <1>1, <2>2 DEF HolderInv
  <2>3. CASE ~Free /\ holder.kind # "send"
    BY <1>1, <2>3 DEF HolderInv
  <2> QED BY <2>1, <2>2, <2>3
<1>3. Indexes(saved) \subseteq Indexes(doc)
  BY <1>1, <1>2 DEF Indexes
<1> QED BY <1>3, SlotsOfMessages

\* A run that goes from one stage before its decision to another keeps the
\* invariant, and ends only when its message is not pending any more.
LEMMA RunChange ==
  ASSUME RoutingInv, NEW m \in Slots, NEW r \in Routes,
         routings[m].stage \in Working, r.stage \in Working \cup {"none"},
         routings' = [routings EXCEPT ![m] = r],
         UNCHANGED <<doc, saved, holder, compact, queued, fresh, turns, left, told>>,
         r.stage = "none" => ~IsPending(m),
         r.stage = "decided" => r.agents # {}
  PROVE  RoutingInv'
<1>1. /\ m \in Indexes(saved) /\ routings \in [Slots -> Routes]
      /\ routings'[m] = r /\ \A n \in Slots : n # m => routings'[n] = routings[n]
  BY DEF RoutingInv, RoutingShapeInv, RunInv, Stage, Working
<1>2. DocumentInv' /\ TurnInv' /\ SummaryInv' /\ CompactInv'
  BY DEF RoutingInv, DocumentInv, TurnInv, SummaryInv, CompactInv, Turned, Free
<1>3. RoutingShapeInv'
  BY <1>1 DEF RoutingInv, RoutingShapeInv
<1>4. ~Stage(m, "saving") /\ ~Stage(m, "deliver") /\ ~Stage(m, "none")
  BY DEF Stage, Working
<1>5. HolderInv'
  <2>1. CASE Free
    BY <2>1 DEF RoutingInv, HolderInv, Free
  <2>2. CASE ~Free
    <3>1. Change' /\ NewIds' = NewIds
      <4>1. holder.kind \in {"route", "fail"} => holder.msg \in Indexes(saved)
              /\ holder.msg # m
        BY <1>4, <2>2 DEF RoutingInv, HolderInv, Change
      <4>2. Indexes(saved) \subseteq Slots
        BY SavedInDoc DEF RoutingInv
      <4>3. holder.kind \in {"route", "fail"}
              => routings'[holder.msg] = routings[holder.msg]
        BY <1>1, <4>1, <4>2
      <4>4. Change
        BY <2>2 DEF RoutingInv, HolderInv
      <4> QED BY <4>3, <4>4 DEF Change, Stage, NewIds
    <3> QED BY <2>2, <3>1 DEF RoutingInv, HolderInv, Free
  <2> QED BY <2>1, <2>2
<1>6. RunInv'
  <2> SUFFICES ASSUME NEW n \in Slots
               PROVE  RunInv!(n)'
    BY DEF RunInv
  <2>1. CASE n = m
    BY <1>1, <2>1 DEF Stage, Working
  <2>2. CASE n # m
    BY <1>1, <2>2 DEF RoutingInv, RunInv, Stage, Turned, Free
  <2> QED BY <2>1, <2>2
<1>7. OwnerInv'
  <2> SUFFICES ASSUME NEW n \in Indexes(saved), saved.msgs[n].status = "pending",
                      ~saved.msgs[n].deleted, n \notin told.stranded,
                      ~Free
                        /\ holder.msg = n
                             => holder.kind \notin {"fail", "delete", "reroute"}
               PROVE  ~Stage(n, "none")'
    BY DEF OwnerInv, Free
  <2>1. CASE n = m
    <3>1. IsPending(m)
      BY <1>4, <2>1, PendingInBoth, SavedPlaces DEF RoutingInv
    <3> QED BY <1>1, <2>1, <3>1 DEF Stage
  <2>2. CASE n # m
    <3>1. ~Stage(n, "none")
      BY DEF RoutingInv, OwnerInv
    <3> QED BY <1>1, <2>2, <3>1 DEF Stage
  <2> QED BY <2>1, <2>2
<1>8. DeliveredInv'
  <2> SUFFICES ASSUME NEW n \in Indexes(saved), saved.msgs[n].status = "resolved",
                      n \notin told.cut
               PROVE  /\ routings'[n].stage \in {"none", "deliver"}
                      /\ \A x \in ActiveAssignments(saved.msgs[n]) :
                           x.id \in Turned'
                             \/ (Stage(n, "deliver")' /\ x.id \in routings'[n].ids)
    BY DEF DeliveredInv
  <2>1. /\ routings[n].stage \in {"none", "deliver"}
        /\ \A x \in ActiveAssignments(saved.msgs[n]) :
             x.id \in Turned \/ (Stage(n, "deliver") /\ x.id \in routings[n].ids)
    BY DEF RoutingInv, DeliveredInv
  <2>2. n # m
    BY <1>4, <2>1 DEF Stage
  <2> QED BY <1>1, <2>1, <2>2 DEF Stage, Turned
<1> QED BY <1>2, <1>3, <1>5, <1>6, <1>7, <1>8 DEF RoutingInv

\* A run is a run whatever its stage,
LEMMA RunShape ==
  ASSUME RoutingInv, NEW m \in Slots
  PROVE  /\ routings \in [Slots -> Routes] /\ routings[m] \in Routes
         /\ NoRun \in Routes
         /\ \A stage \in Stages : [routings[m] EXCEPT !.stage = stage] \in Routes
         /\ routings[m].agents \in SUBSET Agents
BY DEF RoutingInv, RoutingShapeInv, Routes, NoRun, Stages

\* these being stages.
LEMMA StageNames ==
    "failing" \in Stages /\ "decided" \in Stages /\ "classify" \in Stages
      /\ "infer" \in Stages
BY DEF Stages

\* A run is taken to a stage,
LEMMA StagedRoute ==
  ASSUME NEW r \in Routes, NEW stage \in Stages
  PROVE  LET e == [r EXCEPT !.stage = stage] IN e \in Routes /\ e.stage = stage
BY DEF Routes

\* with the number of corrections it starts from,
LEMMA CountedRoute ==
  ASSUME NEW r \in Routes, NEW stage \in Stages, NEW n \in Nat
  PROVE  LET e == [r EXCEPT !.stage = stage, !.count = n] IN e \in Routes /\ e.stage = stage
BY DEF Routes

\* with the Agents it was decided for.
LEMMA DecidedRoute ==
  ASSUME NEW r \in Routes, NEW stage \in Stages, NEW agents \in SUBSET Agents
  PROVE  LET e == [r EXCEPT !.stage = stage, !.agents = agents] IN e \in Routes
           /\ e.stage = stage /\ e.agents = agents
BY DEF Routes

\* validateChannelRouteResult and prepareResolvedPendingRouting.
LEMMA DecideKeeps ==
  ASSUME RoutingInv, NEW m \in Slots, routings[m].stage \in {"classify", "infer"},
         NEW agents \in Decisions(m), Decide(m, agents),
         UNCHANGED <<doc, saved, holder, compact, queued, fresh, turns, left, told>>
  PROVE  RoutingInv'
<1>1. routings[m] \in Routes
  BY RunShape
<1>2. routings[m].stage \in Working /\ routings[m].stage \notin {"none", "saving"}
  BY DEF Working
<1>3. m \in Indexes(doc) /\ doc.msgs[m] \in Message
  <2>1. m \in Indexes(saved)
    BY <1>2 DEF RoutingInv, RunInv, Stage
  <2> QED BY <2>1, SavedInDoc, Places DEF RoutingInv, DocumentInv, WellFormed
<1>4. agents \in SUBSET Agents /\ agents # {}
  BY <1>3, RoutingAssumption DEF Decisions, Message
<1>5. CASE ~IsPending(m)
  <2>1. routings' = [routings EXCEPT ![m] = NoRun]
    BY <1>5 DEF Decide, Become
  <2>2. NoRun.stage = "none"
    BY DEF NoRun
  <2> QED BY <1>2, <1>5, <2>1, <2>2, RunShape, RunChange DEF Working
<1>6. CASE IsPending(m) /\ agents \cap routings[m].stale # {}
  <2> DEFINE r == [routings[m] EXCEPT !.stage = "failing"]
  <2>1. routings' = [routings EXCEPT ![m] = r]
    BY <1>6 DEF Decide, Become
  <2>2. r \in Routes /\ r.stage = "failing"
    BY <1>1, StagedRoute, StageNames
  <2> HIDE DEF r
  <2> QED BY <1>2, <2>1, <2>2, RunChange DEF Working
<1>7. CASE IsPending(m) /\ agents \cap routings[m].stale = {}
  <2> DEFINE r == [routings[m] EXCEPT !.stage = "decided", !.agents = agents]
  <2>1. routings' = [routings EXCEPT ![m] = r]
    BY <1>7 DEF Decide, Become
  <2>2. r \in Routes /\ r.stage = "decided" /\ r.agents = agents
    BY <1>4, <1>1, DecidedRoute, StageNames
  <2> HIDE DEF r
  <2> QED BY <1>2, <1>4, <2>1, <2>2, RunChange DEF Working
<1> QED BY <1>5, <1>6, <1>7

\* A run goes on, having counted the corrections,
LEMMA StageKeeps ==
  ASSUME RoutingInv, NEW m \in Slots, routings[m].stage \in Working,
         NEW stage \in {"classify", "infer", "failing"}, NEW n \in Nat,
         routings' = [routings EXCEPT ![m] = [@ EXCEPT !.stage = stage, !.count = n]],
         UNCHANGED <<doc, saved, holder, compact, queued, fresh, turns, left, told>>
  PROVE  RoutingInv'
<1> DEFINE r == [routings[m] EXCEPT !.stage = stage, !.count = n]
<1>1. routings[m] \in Routes
  BY RunShape
<1>2. stage \in Stages
  BY StageNames
<1>3. r \in Routes /\ r.stage = stage
  BY ONLY <1>1, <1>2, n \in Nat, CountedRoute
<1>4. routings' = [routings EXCEPT ![m] = r]
  BY RunShape
<1> HIDE DEF r
<1> QED BY <1>3, <1>4, RunChange DEF Working

\* which is how it starts.
LEMMA StartRoutingKeeps ==
  ASSUME RoutingInv, NEW m \in Slots, StartRouting(m)
  PROVE  RoutingInv'
<1>1. PICK stage \in {"classify", "infer", "failing"} :
        routings' = [routings EXCEPT ![m] = [routings[m] EXCEPT !.stage = stage, !.count = Cardinality(Active(doc))]]
  BY DEF StartRouting, Become
<1>2. routings' = [routings EXCEPT ![m] = [@ EXCEPT !.stage = stage, !.count = Cardinality(Active(doc))]]
  BY <1>1, RunShape
<1>3. Cardinality(Active(doc)) \in Nat
  BY ActiveFinite DEF RoutingInv, DocumentInv
<1>4. /\ routings[m].stage \in Working
      /\ UNCHANGED <<doc, saved, holder, compact, queued, fresh, turns, left, told>>
  BY DEF StartRouting, Stage, Working
<1> QED BY <1>2, <1>3, <1>4, StageKeeps

\* The local classifier has decided.
LEMMA ClassifiedKeeps ==
  ASSUME RoutingInv, NEW m \in Slots, Classified(m)
  PROVE  RoutingInv'
BY DecideKeeps DEF Classified, Stage

\* A run goes on,
LEMMA OnlyStageKeeps ==
  ASSUME RoutingInv, NEW m \in Slots, routings[m].stage \in Working,
         NEW stage \in {"classify", "infer", "failing"},
         routings' = [routings EXCEPT ![m] = [routings[m] EXCEPT !.stage = stage]],
         UNCHANGED <<doc, saved, holder, compact, queued, fresh, turns, left, told>>
  PROVE  RoutingInv'
<1> DEFINE r == [routings[m] EXCEPT !.stage = stage]
<1>1. routings[m] \in Routes
  BY RunShape
<1>2. r \in Routes /\ r.stage = stage
  BY <1>1, StagedRoute, StageNames
<1> HIDE DEF r
<1> QED BY <1>2, RunChange DEF Working, r

\* to the inference when the classifier abstains,
LEMMA NotClassifiedKeeps ==
  ASSUME RoutingInv, NEW m \in Slots, NotClassified(m)
  PROVE  RoutingInv'
BY OnlyStageKeeps DEF NotClassified, Stage, Become, Working

\* and to its decision or its failure.
LEMMA InferredKeeps ==
  ASSUME RoutingInv, NEW m \in Slots, Inferred(m)
  PROVE  RoutingInv'
<1>1. /\ routings[m].stage \in Working /\ routings[m].stage \in {"classify", "infer"}
      /\ UNCHANGED <<doc, saved, holder, compact, queued, fresh, turns, left, told>>
  BY DEF Inferred, Stage, Working
<1>2. CASE \E agents \in Decisions(m) : Decide(m, agents)
  BY <1>1, <1>2, DecideKeeps
<1>3. CASE Become(m, [routings[m] EXCEPT !.stage = "failing"])
  BY <1>1, <1>3, OnlyStageKeeps DEF Become
<1> QED BY <1>2, <1>3 DEF Inferred

\* An Agent changes: every run remembers it, and none ends.
LEMMA ChangeAgentKeeps ==
  ASSUME RoutingInv, NEW a \in Agents, ChangeAgent(a)
  PROVE  RoutingInv'
<1>1. /\ Free /\ Spend("change")
      /\ UNCHANGED <<doc, saved, holder, compact, queued, fresh, turns, told>>
  BY DEF ChangeAgent
<1>2. /\ routings' \in [Slots -> Routes]
      /\ \A n \in Slots : /\ routings'[n].stage = routings[n].stage
                          /\ routings'[n].agents = routings[n].agents
                          /\ routings'[n].ids = routings[n].ids
  BY DEF ChangeAgent, RoutingInv, RoutingShapeInv, Routes
<1>3. /\ left' \in [Kinds -> Nat]
      /\ left'["send"] = left["send"] /\ left'["edit"] = left["edit"]
  BY <1>1, SpentElsewhere DEF Kinds
<1>4. DocumentInv' /\ RoutingShapeInv'
  BY <1>1, <1>2, <1>3 DEF RoutingInv, DocumentInv, RoutingShapeInv
<1>5. HolderInv' /\ TurnInv' /\ CompactInv' /\ SummaryInv'
  BY <1>1 DEF RoutingInv, HolderInv, TurnInv, CompactInv, SummaryInv, Turned, Free
<1>6. RunInv'
  BY <1>1, <1>2 DEF RoutingInv, RunInv, Stage, Turned, Free
<1>7. Indexes(saved) \subseteq Slots
  BY SavedInDoc DEF RoutingInv
<1>8. OwnerInv'
  BY <1>1, <1>2, <1>7 DEF RoutingInv, OwnerInv, Stage, Free
<1>9. DeliveredInv'
  BY <1>1, <1>2, <1>7 DEF RoutingInv, DeliveredInv, Stage, Turned
<1> QED BY <1>4, <1>5, <1>6, <1>8, <1>9 DEF RoutingInv

-----------------------------------------------------------------------------
(* Turns, and the decisions that are recorded.                             *)

\* Finitely many links have finitely many identifiers.
LEMMA FiniteIds ==
  ASSUME NEW links, IsFiniteSet(links)
  PROVE  IsFiniteSet(Ids(links))
<1> DEFINE f == [x \in links |-> x.id]
<1>1. f \in Surjection(links, Ids(links))
  BY DEF Surjection, Ids
<1> QED BY <1>1, FS_Surjection

\* processReplies starts the turns of a decision: each of them for the first time.
LEMMA DeliverKeeps ==
  ASSUME RoutingInv, NEW m \in Slots, Deliver(m)
  PROVE  RoutingInv'
<1> DEFINE I == routings[m].ids
<1>1. /\ Stage(m, "deliver") /\ turns' = turns \o SetToSeq(I)
      /\ routings' = [routings EXCEPT ![m] = NoRun]
      /\ UNCHANGED <<doc, saved, holder, compact, queued, fresh, left, told>>
  BY DEF Deliver, Become
<1>2. /\ m \in Indexes(saved) /\ saved.msgs[m].status = "resolved"
      /\ I \subseteq Ids(saved.msgs[m].as) /\ I \cap Turned = {}
  BY <1>1 DEF RoutingInv, RunInv, Stage
<1>3. /\ IsFiniteSet(I) /\ I \in SUBSET Nat
  <2>1. saved.msgs[m] \in Message /\ Routed(saved.msgs[m], fresh)
    BY <1>2, SavedPlaces DEF RoutingInv
  <2>2. IsFiniteSet(Ids(saved.msgs[m].as)) /\ Ids(saved.msgs[m].as) \subseteq Nat
    BY <2>1, FiniteIds DEF Routed, Message, Assignment, Ids
  <2> QED BY <1>2, <2>2, FS_Subset
<1>4. /\ turns \in Seq(Nat) /\ IsInjective(turns)
      /\ SetToSeq(I) \in Seq(I) /\ IsInjective(SetToSeq(I)) /\ ToSet(SetToSeq(I)) = I
  BY <1>3, SequenceOfSet DEF RoutingInv, RoutingShapeInv, TurnInv
<1>5. SetToSeq(I) \in Seq(Nat)
  BY <1>3, <1>4
<1>6. turns' \in Seq(Nat) /\ IsInjective(turns') /\ Turned' = Turned \cup I
  BY <1>1, <1>2, <1>4, <1>5, ConcatenatedTurns DEF Turned
<1> HIDE DEF I
<1>7. /\ routings' \in [Slots -> Routes] /\ routings'[m].stage = "none"
      /\ \A n \in Slots : n # m => routings'[n] = routings[n]
  BY <1>1, RunShape DEF NoRun
<1>8. DocumentInv' /\ SummaryInv' /\ CompactInv'
  BY <1>1 DEF RoutingInv, DocumentInv, SummaryInv, CompactInv, Free
<1>9. RoutingShapeInv'
  BY <1>1, <1>6, <1>7 DEF RoutingInv, RoutingShapeInv
<1>10. HolderInv'
  <2>1. CASE Free
    BY <1>1, <2>1 DEF RoutingInv, HolderInv, Free
  <2>2. CASE ~Free
    <3>1. holder.kind \in {"route", "fail"} => holder.msg \in Indexes(saved)
            /\ holder.msg # m
      BY <1>1, <2>2 DEF RoutingInv, HolderInv, Change, Stage
    <3>2. holder.kind \in {"route", "fail"} => routings'[holder.msg] = routings[holder.msg]
      BY <1>7, <3>1, SavedInDoc DEF RoutingInv
    <3>3. Change' /\ NewIds' = NewIds
      BY <1>1, <2>2, <3>2 DEF RoutingInv, HolderInv, Change, Stage, NewIds
    <3> QED BY <1>1, <2>2, <3>3 DEF RoutingInv, HolderInv, Free
  <2> QED BY <2>1, <2>2
<1>11. RunInv'
  <2> SUFFICES ASSUME NEW n \in Slots
               PROVE  RunInv!(n)'
    BY DEF RunInv
  <2>1. CASE n = m
    BY <1>7, <2>1 DEF Stage
  <2>2. CASE n # m /\ ~Stage(n, "deliver")
    BY <1>1, <1>7, <2>2 DEF RoutingInv, RunInv, Stage, Free
  <2>3. CASE n # m /\ Stage(n, "deliver")
    <3>1. /\ n \in Indexes(saved) /\ saved.msgs[n].status = "resolved"
          /\ routings[n].ids \subseteq Ids(saved.msgs[n].as)
               /\ routings[n].ids \cap Turned = {}
      BY <2>3 DEF RoutingInv, RunInv, Stage
    <3>2. Ids(saved.msgs[n].as) \cap Ids(saved.msgs[m].as) = {}
      BY <1>2, <2>3, <3>1 DEF RoutingInv, DocumentInv, WellFormed
    <3>3. routings[n].ids \cap Turned' = {}
      BY <1>2, <1>6, <3>1, <3>2
    <3> QED BY <1>1, <1>7, <2>3, <3>1, <3>3 DEF Stage, Free
  <2> QED BY <2>1, <2>2, <2>3
<1>12. TurnInv'
  BY <1>1, <1>2, <1>6 DEF RoutingInv, TurnInv
<1>13. Indexes(saved) \subseteq Slots
  BY SavedInDoc DEF RoutingInv
<1>14. OwnerInv'
  BY <1>1, <1>2, <1>7, <1>13 DEF RoutingInv, OwnerInv, Stage, Free
<1>15. DeliveredInv'
  <2> SUFFICES ASSUME NEW n \in Indexes(saved), saved.msgs[n].status = "resolved",
                      n \notin told.cut
               PROVE  /\ routings'[n].stage \in {"none", "deliver"}
                      /\ \A x \in ActiveAssignments(saved.msgs[n]) :
                           x.id \in Turned'
                             \/ (Stage(n, "deliver")' /\ x.id \in routings'[n].ids)
    BY <1>1 DEF DeliveredInv
  <2>1. /\ routings[n].stage \in {"none", "deliver"}
        /\ \A x \in ActiveAssignments(saved.msgs[n]) :
             x.id \in Turned \/ (Stage(n, "deliver") /\ x.id \in routings[n].ids)
    BY DEF RoutingInv, DeliveredInv
  <2>2. CASE n = m
    BY <1>6, <1>7, <2>1, <2>2 DEF I
  <2>3. CASE n # m
    BY <1>6, <1>7, <1>13, <2>1, <2>3 DEF Stage
  <2> QED BY <2>2, <2>3
<1> QED BY <1>8, <1>9, <1>10, <1>11, <1>12, <1>14, <1>15 DEF RoutingInv

\* What resolving a pending message makes of it.
LEMMA ResolvedTo ==
  ASSUME NEW old \in Message, old.status = "pending", ~old.deleted, Routed(old, fresh),
         fresh \in Nat \ {0}, NEW agents \in SUBSET Agents, agents # {}
  PROVE  LET made == Assign(agents, fresh)
             new == [old EXCEPT !.status = "resolved", !.as = made, !.corr = {}]
         IN  /\ Cardinality(made) \in Nat /\ Ids(made) \subseteq Nat
             /\ new \in Message /\ Routed(new, fresh + Cardinality(made)) /\ Replaced(new)
             /\ new.status = "resolved" /\ new.as = made /\ new.corr = {} /\ old.corr = {}
             /\ new.over = old.over /\ ~new.deleted
             /\ \A x \in made : x.id >= fresh /\ x.agent \in agents
<1> DEFINE made == Assign(agents, fresh)
           new == [old EXCEPT !.status = "resolved", !.as = made, !.corr = {}]
<1>1. /\ made \subseteq Assignment /\ IsFiniteSet(made)
      /\ Cardinality(made) = Cardinality(agents) /\ Cardinality(agents) \in Nat
      /\ \A x \in made : x.id \in fresh .. fresh + Cardinality(agents) - 1
           /\ x.agent \in agents
      /\ \A x, y \in made : x.id = y.id \/ x.agent = y.agent => x = y
      /\ \A a \in agents : \E x \in made : x.agent = a
  BY Assigned, FiniteNames
<1> HIDE DEF made
<1>2. /\ new \in Message /\ new.status = "resolved" /\ new.as = made /\ new.corr = {}
      /\ new.over = old.over /\ ~new.deleted
  BY <1>1 DEF Message
<1>3. old.corr = {}
  BY DEF Routed
<1> HIDE DEF new
<1>4. Ids(made) \subseteq Nat
  BY <1>1 DEF Ids, Assignment
<1>5. \A x \in made : x.id >= fresh /\ x.id < fresh + Cardinality(made)
  BY <1>1
<1>6. Routed(new, fresh + Cardinality(made))
  BY <1>1, <1>2, <1>5, FS_EmptySet DEF Routed
<1>7. Replaced(new)
  <2>1. ActiveAssignments(new) = made
    BY <1>2 DEF ActiveAssignments, Corrected
  <2> QED BY <1>1, <1>2, <2>1 DEF Replaced
<1> QED BY <1>1, <1>2, <1>3, <1>4, <1>5, <1>6, <1>7 DEF made, new

\* A decision is recorded, or dropped because the message has changed.
LEMMA CommitKeeps ==
  ASSUME RoutingInv, NEW m \in Slots, Commit(m)
  PROVE  RoutingInv'
<1> DEFINE its == routings[m]
           old == doc.msgs[m]
           made == Assign(its.agents, fresh)
           new == [old EXCEPT !.status = "resolved", !.as = made, !.corr = {}]
<1>1. /\ Stage(m, "decided") /\ Free /\ its.stage \in Working
      /\ UNCHANGED <<saved, compact, queued, turns, left, told>>
  BY DEF Commit, Stage, Working
<1>2. /\ doc = saved /\ doc \in Document /\ fresh \in Nat \ {0} /\ Len(doc.msgs) \in Nat
      /\ \A n \in Indexes(doc) : doc.msgs[n] \in Message /\ Routed(doc.msgs[n], fresh)
  BY <1>1, Known
<1>3. /\ m \in Indexes(doc) /\ its \in Routes /\ its.agents \in SUBSET Agents
           /\ its.agents # {}
      /\ routings \in [Slots -> Routes] /\ NoRun \in Routes
  BY <1>1, <1>2, RunShape DEF RoutingInv, RunInv, Stage
<1>4. CASE ~IsPending(m)
  <2>1. routings' = [routings EXCEPT ![m] = NoRun] /\ UNCHANGED <<doc, holder, fresh>>
    BY <1>4 DEF Commit, Become
  <2>2. NoRun.stage = "none"
    BY DEF NoRun
  <2> QED BY <1>1, <1>3, <1>4, <2>1, <2>2, RunChange
<1>5. CASE IsPending(m) /\ ~StillAllowed(m)
  <2>1. routings' = [routings EXCEPT ![m] = [routings[m] EXCEPT !.stage = "failing"]]
        /\ UNCHANGED <<doc, holder, fresh>>
    BY <1>5 DEF Commit, Become
  <2> QED BY <1>1, <2>1, OnlyStageKeeps
<1>6. CASE IsPending(m) /\ StillAllowed(m)
  <2> DEFINE r == [its EXCEPT !.stage = "saving"]
             e == [doc EXCEPT !.msgs[m] = new]
  <2>1. /\ doc' = e /\ fresh' = fresh + Cardinality(made)
        /\ holder' = [kind |-> "route", msg |-> m, ids |-> Ids(made), prev |-> doc]
        /\ routings' = [routings EXCEPT ![m] = r]
    <3>1. e = [doc EXCEPT !.msgs[m] = [@ EXCEPT !.status = "resolved", !.as = made, !.corr = {}]]
      BY <1>2
    <3> QED BY <1>6, <3>1 DEF Commit, Become, Save
  <2>2. old \in Message /\ Routed(old, fresh) /\ old.status = "pending" /\ ~old.deleted
    BY <1>2, <1>3, <1>6 DEF IsPending
  <2>3. /\ Cardinality(made) \in Nat /\ Ids(made) \subseteq Nat
        /\ new \in Message /\ Routed(new, fresh + Cardinality(made)) /\ Replaced(new)
        /\ new.status = "resolved" /\ new.as = made /\ new.corr = {} /\ old.corr = {}
        /\ new.over = old.over /\ ~new.deleted
        /\ \A x \in made : x.id >= fresh /\ x.agent \in its.agents
    BY <1>2, <1>3, <2>2, ResolvedTo
  <2>4. r \in Routes /\ r.stage = "saving" /\ r.stale = its.stale
    <3>1. "saving" \in Stages
      BY DEF Stages
    <3>2. r.stale = its.stale
      BY <1>3 DEF Routes
    <3> QED BY <1>3, <3>1, <3>2, StagedRoute
  <2> HIDE DEF new, made, r
  <2>5. fresh' \in Nat \ {0} /\ fresh <= fresh' /\ Routed(new, fresh')
    BY <1>2, <2>1, <2>3
  <2>6. /\ e \in Document /\ WellFormed(e, fresh') /\ Counted(e) /\ Grows(doc, e)
        /\ SummaryIsTrue(doc) => SummaryIsTrue(e)
        /\ Len(e.msgs) = Len(doc.msgs) /\ Indexes(e) = Indexes(doc) /\ e.msgs[m] = new
        /\ \A n \in Indexes(doc) : n # m => e.msgs[n] = doc.msgs[n]
    <3>1. new.corr = old.corr /\ new.deleted = old.deleted
      BY <2>2, <2>3 DEF Message
    <3>2. fresh' \in Nat /\ \A x \in new.as : x.id >= fresh
      BY <2>3, <2>5
    <3> QED BY <1>1, <1>3, <2>3, <2>5, <3>1, <3>2, OneChanged
  <2> HIDE DEF e
  <2>7. /\ doc' \in Document /\ WellFormed(doc', fresh') /\ Counted(doc')
             /\ Grows(doc, doc')
        /\ SummaryIsTrue(doc) => SummaryIsTrue(doc')
        /\ Len(doc'.msgs) = Len(doc.msgs) /\ Indexes(doc') = Indexes(doc)
             /\ doc'.msgs[m] = new
        /\ \A n \in Indexes(doc) : n # m => doc'.msgs[n] = doc.msgs[n]
    BY <2>1, <2>6
  <2>8. routings'[m] = r /\ \A n \in Slots : n # m => routings'[n] = routings[n]
    BY <1>3, <2>1
  <2>9. Change'
    <3>1. \A x \in new.as : x.agent \notin r.stale
      BY <1>6, <2>3, <2>4 DEF StillAllowed
    <3>2. Stage(m, "saving")'
      BY <2>4, <2>8 DEF Stage
    <3>3. /\ holder'.kind = "route" /\ holder'.msg = m /\ holder'.ids = Ids(new.as)
          /\ saved'.msgs[m] = old /\ doc'.msgs[m] = new /\ routings'[m].stale = r.stale
      BY <1>1, <1>2, <2>1, <2>3, <2>7, <2>8
    <3> QED BY <2>2, <2>3, <3>1, <3>2, <3>3 DEF Change, Message
  <2>10. NewIds' = Ids(new.as)
    BY <2>1, <2>3 DEF NewIds
  <2>11. \A n \in Indexes(doc) : NewIds' \cap Ids(doc.msgs[n].as) = {}
    BY <1>1, <2>3, <2>10, NewInNoMessage
  <2>12. RoutingShapeInv'
    BY <1>1, <1>3, <2>1, <2>4 DEF RoutingInv, RoutingShapeInv
  <2>13. Len(doc'.msgs) + left'["send"] + left'["edit"] <= Len(doc.msgs) + left["send"] + left["edit"]
    BY <1>1, <1>2, <2>7, Known
  <2>14. Replaced(doc'.msgs[m]) /\ m \in Indexes(doc') /\ "route" \in Kind
           /\ Ids(made) \in SUBSET Nat
    BY <1>3, <2>3, <2>7 DEF Kind
  <2>15. \A n \in Slots : \/ routings'[n] = routings[n]
                          \/ /\ n = m /\ "route" \in {"route", "fail"}
                                  /\ doc.msgs[m].status = "pending"
                             /\ routings'[n].stage = "saving"
    BY <2>2, <2>4, <2>8
  <2>16. told' = told /\ saved' = saved /\ turns' = turns /\ compact' = compact /\ Free
    BY <1>1
  <2>17. holder' = [kind |-> "route", msg |-> m, ids |-> Ids(made), prev |-> doc]
    BY <2>1
  <2>18. m \in Indexes(doc) /\ ~doc.msgs[m].deleted
    BY <1>3, <2>2
  <2> HIDE DEF old, its
  <2> QED
    BY <2>5, <2>7, <2>9, <2>11, <2>12, <2>13, <2>14, <2>15, <2>16, <2>17, <2>18,
         SectionStep
<1> QED BY <1>4, <1>5, <1>6

\* A failure is recorded, or dropped.
LEMMA CommitFailedKeeps ==
  ASSUME RoutingInv, NEW m \in Slots, CommitFailed(m)
  PROVE  RoutingInv'
<1> DEFINE its == routings[m]
           old == doc.msgs[m]
           new == Failed(old)
<1>1. /\ Stage(m, "failing") /\ Free /\ its.stage \in Working
      /\ UNCHANGED <<saved, compact, queued, fresh, turns, left, told>>
  BY DEF CommitFailed, Stage, Working
<1>2. /\ doc = saved /\ doc \in Document /\ fresh \in Nat \ {0} /\ Len(doc.msgs) \in Nat
      /\ \A n \in Indexes(doc) : doc.msgs[n] \in Message /\ Routed(doc.msgs[n], fresh)
  BY <1>1, Known
<1>3. /\ m \in Indexes(doc) /\ its \in Routes /\ routings \in [Slots -> Routes]
           /\ NoRun \in Routes
  BY <1>1, <1>2, RunShape DEF RoutingInv, RunInv, Stage
<1>4. CASE ~IsPending(m)
  <2>1. routings' = [routings EXCEPT ![m] = NoRun] /\ UNCHANGED <<doc, holder>>
    BY <1>4 DEF CommitFailed, Become
  <2>2. NoRun.stage = "none"
    BY DEF NoRun
  <2> QED BY <1>1, <1>3, <1>4, <2>1, <2>2, RunChange
<1>5. CASE IsPending(m)
  <2> DEFINE r == [its EXCEPT !.stage = "saving"]
             e == [doc EXCEPT !.msgs[m] = new]
  <2>1. /\ doc' = e
        /\ holder' = [kind |-> "fail", msg |-> m, ids |-> {}, prev |-> doc]
        /\ routings' = [routings EXCEPT ![m] = r]
    BY <1>2, <1>5 DEF CommitFailed, Become, Save
  <2>2. old \in Message /\ Routed(old, fresh) /\ old.status = "pending" /\ ~old.deleted
    BY <1>2, <1>3, <1>5 DEF IsPending
  <2>3. /\ new \in Message /\ new.status = "failed" /\ new.as = {} /\ new.corr = {}
             /\ old.corr = {}
        /\ new.over = old.over /\ new.deleted = old.deleted
    BY <2>2 DEF Message, Failed, Routed
  <2>4. r \in Routes /\ r.stage = "saving"
    <3>1. "saving" \in Stages
      BY DEF Stages
    <3> QED BY <1>3, <3>1, StagedRoute
  <2>5. Routed(new, fresh) /\ Replaced(new)
    BY <2>3, FS_EmptySet DEF Routed, Replaced, ActiveAssignments, Corrected
  <2> HIDE DEF new, r
  <2>6. /\ e \in Document /\ WellFormed(e, fresh) /\ Counted(e) /\ Grows(doc, e)
        /\ SummaryIsTrue(doc) => SummaryIsTrue(e)
        /\ Len(e.msgs) = Len(doc.msgs) /\ Indexes(e) = Indexes(doc) /\ e.msgs[m] = new
        /\ \A n \in Indexes(doc) : n # m => e.msgs[n] = doc.msgs[n]
    <3>1. fresh \in Nat /\ fresh <= fresh /\ new.corr = old.corr
      BY <1>2, <2>3
    <3> QED BY <1>1, <1>3, <2>3, <2>5, <3>1, OneChanged
  <2> HIDE DEF e
  <2>7. /\ doc' \in Document /\ WellFormed(doc', fresh') /\ Counted(doc')
             /\ Grows(doc, doc')
        /\ SummaryIsTrue(doc) => SummaryIsTrue(doc')
        /\ Len(doc'.msgs) = Len(doc.msgs) /\ Indexes(doc') = Indexes(doc)
             /\ doc'.msgs[m] = new
        /\ \A n \in Indexes(doc) : n # m => doc'.msgs[n] = doc.msgs[n]
    BY <1>1, <2>1, <2>6
  <2>8. routings'[m] = r /\ \A n \in Slots : n # m => routings'[n] = routings[n]
    BY <1>3, <2>1
  <2>9. Change'
    <3>1. Stage(m, "saving")'
      BY <2>4, <2>8 DEF Stage
    <3>2. /\ holder'.kind = "fail" /\ holder'.msg = m
          /\ saved'.msgs[m] = old /\ doc'.msgs[m] = Failed(old)
      BY <1>1, <1>2, <2>1, <2>7 DEF new
    <3> QED BY <2>2, <3>1, <3>2 DEF Change
  <2>10. RoutingShapeInv'
    BY <1>1, <1>3, <2>1, <2>4 DEF RoutingInv, RoutingShapeInv
  <2>11. Len(doc'.msgs) + left'["send"] + left'["edit"] <= Len(doc.msgs) + left["send"] + left["edit"]
    BY <1>1, <1>2, <2>7, Known
  <2>12. Replaced(doc'.msgs[m]) /\ m \in Indexes(doc') /\ "fail" \in Kind
           /\ "fail" \notin Making /\ {} \in SUBSET Nat
    BY <1>3, <2>5, <2>7 DEF Kind, Making
  <2>13. \A n \in Slots : \/ routings'[n] = routings[n]
                          \/ /\ n = m /\ "fail" \in {"route", "fail"}
                                  /\ doc.msgs[m].status = "pending"
                             /\ routings'[n].stage = "saving"
    BY <2>2, <2>4, <2>8
  <2>14. told' = told /\ saved' = saved /\ turns' = turns /\ compact' = compact /\ Free
    BY <1>1
  <2>15. fresh' \in Nat \ {0} /\ fresh <= fresh'
    BY <1>1, <1>2
  <2>16. m \in Indexes(doc) /\ ~doc.msgs[m].deleted
    BY <1>3, <2>2
  <2> HIDE DEF old, its
  <2> QED
    BY <2>1, <2>7, <2>9, <2>10, <2>11, <2>12, <2>13, <2>14, <2>15, <2>16, SectionStep
<1> QED BY <1>4, <1>5

-----------------------------------------------------------------------------
(* Corrections.                                                            *)

\* What createRerouteStateChange works with: the assignment a of old goes to
\* targets, who get the assignments made unless they have one, linked by links.
Correcting(old, a, targets, made, size, links, later) ==
    /\ old \in Message /\ Routed(old, fresh) /\ Replaced(old) /\ fresh \in Nat \ {0}
    /\ a \in old.as /\ a.id \notin Corrected(old)
    /\ targets \in SUBSET Agents /\ targets # {} /\ a.agent \notin targets
    /\ made \in SUBSET Assignment /\ IsFiniteSet(made) /\ size \in Nat
    /\ \A x \in made : x.id \in fresh .. fresh + size - 1 /\ x.agent \in targets
    /\ \A x \in made : Existing(old, x.agent) = {}
    /\ \A x, y \in made : x.id = y.id \/ x.agent = y.agent => x = y
    /\ \A t \in targets : Existing(old, t) = {} => \E x \in made : x.agent = t
    /\ links \in SUBSET Correction /\ IsFiniteSet(links) /\ later \in Nat
    /\ fresh + size <= later
    /\ \A c \in links : c.id < later /\ c.from = a.id
                        /\ \E b \in old.as \cup made : b.id = c.to /\ b.agent \in targets

CorrectedBy(old, made, links) ==
    [old EXCEPT !.status = "resolved", !.as = @ \cup made, !.corr = @ \cup links]

\* A message stays sound under a correction: nobody has two active assignments and
\* somebody has one.
LEMMA Corrections ==
  ASSUME NEW old, NEW a, NEW targets, NEW made, NEW size, NEW links, NEW later,
         Correcting(old, a, targets, made, size, links, later)
  PROVE  LET new == CorrectedBy(old, made, links) IN
         /\ new \in Message /\ Routed(new, later) /\ Replaced(new)
         /\ new.status = "resolved" /\ new.as = old.as \cup made
              /\ new.corr = old.corr \cup links
         /\ new.over = old.over /\ new.deleted = old.deleted
<1> USE DEF Correcting
<1> DEFINE new == CorrectedBy(old, made, links)
<1>1. /\ new \in Message /\ new.status = "resolved" /\ new.as = old.as \cup made
      /\ new.corr = old.corr \cup links /\ new.over = old.over /\ new.deleted = old.deleted
  BY DEF Message, CorrectedBy
<1> HIDE DEF new
<1>2. /\ IsFiniteSet(old.as) /\ IsFiniteSet(old.corr)
      /\ old.as \subseteq Assignment /\ old.corr \subseteq Correction
      /\ \A link \in old.as \cup old.corr : link.id < fresh /\ link.id \in Nat
      /\ \A x, y \in old.as : x.id = y.id => x = y
  BY DEF Routed, Message, Assignment, Correction
<1>3. \A x \in made : x.id \in Nat /\ x.id >= fresh /\ x.id < later
  BY DEF Assignment
<1>4. Routed(new, later)
  <2>1. IsFiniteSet(new.as) /\ IsFiniteSet(new.corr)
    <3>1. IsFiniteSet(old.as \cup made)
      BY <1>2, FS_Union
    <3>2. IsFiniteSet(old.corr \cup links)
      BY <1>2, FS_Union
    <3> QED BY <1>1, <3>1, <3>2
  <2>2. \A link \in old.as \cup old.corr : link.id < later
    BY <1>2
  <2>3. \A link \in new.as \cup new.corr : link.id < later
    BY <1>1, <1>3, <2>2
  <2>4. \A x, y \in new.as : x.id = y.id => x = y
    <3> SUFFICES ASSUME NEW x \in new.as, NEW y \in new.as, x.id = y.id
                 PROVE  x = y
      OBVIOUS
    <3>1. x \in old.as /\ y \in made => x.id # y.id
      BY <1>2, <1>3
    <3>2. x \in made /\ y \in old.as => x.id # y.id
      BY <1>2, <1>3
    <3> QED BY <1>1, <1>2, <3>1, <3>2
  <2> QED BY <1>1, <2>1, <2>3, <2>4 DEF Routed
<1>5. Corrected(new) \subseteq Corrected(old) \cup {a.id}
        /\ Corrected(old) \subseteq Corrected(new)
  BY <1>1 DEF Corrected
<1>6. \A x \in made : x.id \notin Corrected(new)
  <2>1. \A c \in old.corr : \E x \in old.as : x.id = c.from
    BY DEF Replaced
  <2>2. \A i \in Corrected(old) \cup {a.id} : \E x \in old.as : x.id = i
    BY <2>1 DEF Corrected
  <2> QED BY <1>2, <1>3, <1>5, <2>2
<1>7. \A x \in ActiveAssignments(new) :
        x \in made \/ (x \in ActiveAssignments(old))
  BY <1>1, <1>5 DEF ActiveAssignments
<1>8. /\ made \subseteq ActiveAssignments(new)
      /\ \A x \in ActiveAssignments(old) : x # a => x \in ActiveAssignments(new)
  <2>1. made \subseteq ActiveAssignments(new)
    BY <1>1, <1>6 DEF ActiveAssignments
  <2>2. \A x \in ActiveAssignments(old) : x # a => x.id # a.id
    BY <1>2 DEF ActiveAssignments
  <2> QED BY <1>1, <1>5, <2>1, <2>2 DEF ActiveAssignments
<1>9. \A x, y \in ActiveAssignments(new) : x.agent = y.agent => x = y
  <2> SUFFICES ASSUME NEW x \in ActiveAssignments(new), NEW y \in ActiveAssignments(new),
                      x.agent = y.agent
               PROVE  x = y
    OBVIOUS
  <2>1. x \in made => y \notin ActiveAssignments(old)
    BY DEF Existing
  <2>2. y \in made => x \notin ActiveAssignments(old)
    BY DEF Existing
  <2> QED BY <1>7, <2>1, <2>2 DEF Replaced
<1>10. ActiveAssignments(new) # {}
  <2>1. PICK t \in targets : TRUE
    OBVIOUS
  <2>2. CASE Existing(old, t) = {}
    BY <1>8, <2>2
  <2>3. CASE Existing(old, t) # {}
    <3>1. PICK b \in ActiveAssignments(old) : b.agent = t
      BY <2>3 DEF Existing
    <3> QED BY <1>8, <3>1
  <2> QED BY <2>2, <2>3
<1>11. \A c \in new.corr : \E x, y \in new.as : x.id = c.from /\ y.id = c.to
         /\ x.agent # y.agent
  <2> SUFFICES ASSUME NEW c \in new.corr
               PROVE  \E x, y \in new.as : x.id = c.from /\ y.id = c.to /\ x.agent # y.agent
    OBVIOUS
  <2>1. CASE c \in old.corr
    BY <1>1, <2>1 DEF Replaced
  <2>2. CASE c \in links
    BY <1>1, <2>2
  <2> QED BY <1>1, <2>1, <2>2
<1> QED BY <1>1, <1>4, <1>9, <1>10, <1>11 DEF Replaced, new

\* An assignment is corrected.
LEMMA RerouteKeeps ==
  ASSUME RoutingInv, NEW m \in Indexes(doc), NEW a \in doc.msgs[m].as,
         NEW targets \in Chosen, Reroute(m, a, targets)
  PROVE  RoutingInv'
<1> DEFINE old == doc.msgs[m]
           names == {t \in targets : Existing(old, t) = {}}
           made == Assign(names, fresh)
           base == fresh + Cardinality(made)
           order == SetToSeq(targets)
           assigned(t) == CHOOSE b \in made \cup Existing(old, t) : b.agent = t
           to == [t \in targets |-> assigned(t).id]
           links == {[id |-> base + i - 1, from |-> a.id, to |-> assigned(order[i]).id] : i \in 1 .. Len(order)}
           new == CorrectedBy(old, made, links)
           sum == Cardinality(Active(doc)) + Cardinality(targets)
<1>1. /\ Free /\ Spend("reroute") /\ m \notin Retired(doc) /\ a.id \notin Corrected(old)
      /\ a.agent \notin targets
      /\ holder' = [kind |-> "reroute", msg |-> m, ids |-> Ids(made), prev |-> doc]
      /\ fresh' = base + Cardinality(targets)
      /\ told' = [told EXCEPT !.cut = IF old.status = "pending" THEN @ \cup {m} ELSE @]
      /\ UNCHANGED <<saved, routings, compact, queued, turns>>
  BY DEF Reroute, Save
<1>2. /\ doc = saved /\ doc \in Document /\ WellFormed(doc, fresh) /\ Counted(doc)
      /\ fresh \in Nat \ {0} /\ Len(doc.msgs) \in Nat
      /\ old \in Message /\ Routed(old, fresh) /\ Replaced(old)
      /\ told \in [cut : SUBSET Nat, stranded : SUBSET Nat, undone : BOOLEAN, overtaken : BOOLEAN]
  BY <1>1, Known
<1>3. targets \in SUBSET Agents /\ targets # {} /\ names \in SUBSET Agents
        /\ names \subseteq targets
  BY RoutingAssumption
<1>4. /\ made \in SUBSET Assignment /\ IsFiniteSet(made)
      /\ Cardinality(names) \in Nat /\ Cardinality(made) = Cardinality(names)
      /\ \A x \in made : x.id \in fresh .. fresh + Cardinality(names) - 1
           /\ x.agent \in names
      /\ \A x, y \in made : x.id = y.id \/ x.agent = y.agent => x = y
      /\ \A t \in names : \E x \in made : x.agent = t
  BY <1>2, <1>3, Assigned, FiniteNames
<1> HIDE DEF made
<1>5. \A t \in targets : assigned(t) \in made \cup Existing(old, t) /\ assigned(t).agent = t
  <2> SUFFICES ASSUME NEW t \in targets
               PROVE  \E b \in made \cup Existing(old, t) : b.agent = t
    OBVIOUS
  <2>1. CASE Existing(old, t) = {}
    BY <1>4, <2>1
  <2>2. CASE Existing(old, t) # {}
    BY <2>2 DEF Existing
  <2> QED BY <2>1, <2>2
<1>6. \A t \in targets : assigned(t) \in made \cup old.as /\ assigned(t).agent = t
  BY <1>5 DEF Existing, ActiveAssignments
<1> HIDE DEF assigned
<1>7. /\ Cardinality(targets) \in Nat /\ base \in Nat /\ a.id \in Nat
           /\ to \in [targets -> Nat]
  <2>1. Cardinality(targets) \in Nat /\ base \in Nat
    BY <1>2, <1>3, <1>4, FiniteNames
  <2>2. \A x \in old.as \cup made : x.id \in Nat
    BY <1>2, <1>4 DEF Message, Assignment
  <2> QED BY <1>6, <2>1, <2>2
<1>8. \A i \in 1 .. Len(order) : order[i] \in targets
  BY <1>3, FiniteNames, SequenceOfSet
<1>9. /\ links \in SUBSET Correction /\ IsFiniteSet(links)
      /\ Cardinality(links) = Cardinality(targets)
      /\ \A c \in links : /\ c.id \in base .. base + Cardinality(targets) - 1
                          /\ c.from = a.id /\ \E t \in targets : c.to = to[t]
  <2> DEFINE n == Cardinality(targets)
             from == a.id
             g == [i \in 1 .. n |-> [id |-> base + i - 1, from |-> from, to |-> to[order[i]]]]
  <2>1. n \in Nat /\ Len(order) = n /\ base \in Nat /\ from \in Nat
          /\ to \in [targets -> Nat]
    BY <1>3, <1>7, FiniteNames, SequenceOfSet
  <2>2. \A i \in 1 .. n : order[i] \in targets /\ to[order[i]] = assigned(order[i]).id
    BY <1>8, <2>1
  <2>3. links = {g[i] : i \in 1 .. n}
    BY <2>1, <2>2
  <2> HIDE DEF order, n, base, from, to, links
  <2>4. /\ g \in [1 .. n -> Correction]
        /\ \A i \in 1 .. n : g[i].id = base + i - 1 /\ g[i].from = from
             /\ g[i].to = to[order[i]]
    BY <2>1, <2>2 DEF Correction
  <2> HIDE DEF g
  <2>5. \A i, j \in 1 .. n : g[i].id = g[j].id => i = j
    BY <2>1, <2>4
  <2>6. g \in Injection(1 .. n, links) /\ g \in Surjection(1 .. n, links)
    BY <2>3, <2>4, <2>5 DEF Injection, Surjection, IsInjective
  <2>7. IsFiniteSet(1 .. n) /\ Cardinality(1 .. n) = n
    BY <2>1, FS_Interval
  <2>8. IsFiniteSet(links) /\ Cardinality(links) = n
    BY <2>6, <2>7, FS_Surjection
  <2>9. \A c \in links : c.id \in base .. base + n - 1
    BY <2>1, <2>3, <2>4
  <2>10. \A c \in links : c.from = from /\ \E t \in targets : c.to = to[t]
    BY <2>2, <2>3, <2>4
  <2>11. links \in SUBSET Correction
    BY <2>3, <2>4
  <2> QED BY <2>8, <2>9, <2>10, <2>11 DEF n, from
<1>10. \A c \in links : \E b \in old.as \cup made : b.id = c.to /\ b.agent \in targets
  BY <1>6, <1>9
<1> HIDE DEF to, order, links
<1>11. base = fresh + Cardinality(names)
  BY <1>4
<1>12. fresh' \in Nat \ {0} /\ fresh <= fresh' /\ fresh + Cardinality(names) <= fresh'
  BY <1>1, <1>2, <1>4, <1>7, <1>11
<1>13. \A c \in links : c.id >= fresh /\ c.id < fresh' /\ c.from = a.id
  <2> HIDE DEF base
  <2>1. /\ base \in Nat /\ fresh \in Nat /\ base >= fresh
        /\ fresh' = base + Cardinality(targets) /\ Cardinality(targets) \in Nat
    BY <1>1, <1>2, <1>4, <1>7, <1>11
  <2> QED BY <1>9, <2>1
<1> HIDE DEF base
<1>14. /\ new \in Message /\ Routed(new, fresh') /\ Replaced(new)
       /\ new.status = "resolved" /\ new.as = old.as \cup made
            /\ new.corr = old.corr \cup links
       /\ new.over = old.over /\ new.deleted = old.deleted
  <2>1. \A x \in made : x.agent \in targets /\ Existing(old, x.agent) = {}
    BY <1>3, <1>4
  <2>2. \A t \in targets : Existing(old, t) = {} => \E x \in made : x.agent = t
    BY <1>4
  <2>3. /\ Cardinality(names) \in Nat /\ IsFiniteSet(made) /\ made \in SUBSET Assignment
        /\ \A x \in made : x.id \in fresh .. fresh + Cardinality(names) - 1
             /\ x.agent \in targets
        /\ \A x, y \in made : x.id = y.id \/ x.agent = y.agent => x = y
    BY <1>3, <1>4
  <2>4. \A c \in links : c.id < fresh' /\ c.from = a.id
                         /\ \E b \in old.as \cup made : b.id = c.to /\ b.agent \in targets
    BY <1>10, <1>13
  <2>5. fresh' \in Nat /\ fresh + Cardinality(names) <= fresh'
          /\ links \in SUBSET Correction /\ IsFiniteSet(links)
    BY <1>9, <1>12
  <2>6. /\ old \in Message /\ Routed(old, fresh) /\ Replaced(old) /\ fresh \in Nat \ {0}
        /\ a.id \notin Corrected(old) /\ a.agent \notin targets
        /\ targets \in SUBSET Agents /\ targets # {} /\ a \in old.as
    BY <1>1, <1>2, <1>3
  <2>7. Correcting(old, a, targets, made, Cardinality(names), links, fresh')
    <3> HIDE DEF names, old
    <3> QED BY ONLY <2>1, <2>2, <2>3, <2>4, <2>5, <2>6 DEF Correcting
  <2> QED BY <2>7, Corrections
<1> DEFINE e == [doc EXCEPT !.msgs[m] = new]
<1> HIDE DEF new
<1>15. /\ e \in Document /\ e.memory = doc.memory /\ Len(e.msgs) = Len(doc.msgs)
       /\ Indexes(e) = Indexes(doc) /\ e.msgs[m] = new
       /\ \A n \in Indexes(doc) : n # m => e.msgs[n] = doc.msgs[n]
  <2>1. doc \in Document /\ m \in Indexes(doc) /\ new \in Message
    BY <1>2, <1>14
  <2> QED BY ONLY <2>1, Replaceable
<1>16. doc' = [msgs |-> e.msgs, memory |-> [doc.memory EXCEPT !.status = "stale", !.count = sum]]
  <2>1. doc' = [doc EXCEPT
               !.msgs[m] = [old EXCEPT !.status = "resolved", !.as = @ \cup made,
                                       !.corr = @ \cup links],
               !.memory.status = "stale",
               !.memory.count = sum]
    BY DEF Reroute, Save, made, links, base, order, assigned
  <2>2. doc' = [msgs |-> [doc.msgs EXCEPT ![m] = CorrectedBy(old, made, links)],
                memory |-> [doc.memory EXCEPT !.status = "stale", !.count = sum]]
    <3> HIDE DEF made, links
    <3>1. doc = [msgs |-> doc.msgs, memory |-> doc.memory]
      BY <1>2, Places
    <3> DEFINE ms == doc.msgs
               mem == doc.memory
    <3> HIDE DEF sum
    <3> QED BY <1>2, <2>1, <3>1 DEF CorrectedBy
  <2>3. e.msgs = [doc.msgs EXCEPT ![m] = new]
    BY <1>2, Places
  <2> QED BY <2>2, <2>3 DEF new
<1> HIDE DEF e
<1>17. Ids(made) \in SUBSET Nat /\ \A x \in made : x.id >= fresh
  <2>1. \A x \in made : x.id \in Nat
    BY <1>4 DEF Assignment
  <2>2. \A x \in made : x.id \in fresh .. fresh + Cardinality(names) - 1
    BY <1>4
  <2>3. fresh \in Nat /\ Cardinality(names) \in Nat
    BY <1>2, <1>4
  <2> HIDE DEF names
  <2>4. \A x \in made : x.id >= fresh
    BY ONLY <2>2, <2>3
  <2> QED BY <2>1, <2>4 DEF Ids
<1>18. sum \in Nat /\ Active(doc) \subseteq Correction /\ IsFiniteSet(Active(doc))
       /\ Cardinality(Active(doc)) \in Nat
  BY <1>2, <1>7, ActiveFinite
<1>19. WellFormed(e, fresh')
  <2>1. \A x \in e.msgs[m].as : x.id >= fresh
          \/ (m \in Indexes(doc) /\ x.id \in Ids(old.as))
    BY <1>14, <1>15, <1>17 DEF Ids
  <2>2. fresh \in Nat /\ fresh' \in Nat /\ fresh <= fresh'
          /\ Indexes(e) = Indexes(doc) \cup {m} /\ m \in Indexes(e)
    BY <1>2, <1>12, <1>15
  <2>3. Routed(e.msgs[m], fresh')
    BY <1>14, <1>15
  <2>4. \A n \in Indexes(doc) : n # m => e.msgs[n] = doc.msgs[n]
    BY <1>15
  <2>5. WellFormed(doc, fresh) /\ e \in Document
    BY <1>2, <1>15
  <2> QED BY ONLY <2>1, <2>2, <2>3, <2>4, <2>5, StillWellFormed
<1>20. Active(e) = Active(doc) \cup links
  <2>1. Kept(e) = Kept(doc)
    <3>1. \A n \in Indexes(doc) : e.msgs[n].over = doc.msgs[n].over
            /\ e.msgs[n].deleted = doc.msgs[n].deleted
      BY <1>14, <1>15
    <3>2. \A n : Superseded(e, n) <=> Superseded(doc, n)
      BY <1>15, <3>1 DEF Superseded
    <3> QED BY <1>15, <3>1, <3>2 DEF Kept, Retired
  <2>2. m \in Kept(doc)
    BY <1>1 DEF Kept
  <2>3. \A n \in Kept(doc) : n \in Indexes(doc)
    BY DEF Kept
  <2>4. \A c : c \in Active(e) <=> \E n \in Kept(doc) : c \in e.msgs[n].corr
    BY <2>1 DEF Active
  <2>5. \A c : c \in Active(doc) <=> \E n \in Kept(doc) : c \in doc.msgs[n].corr
    BY DEF Active
  <2>6. \A n \in Kept(doc) : e.msgs[n].corr = IF n = m THEN doc.msgs[n].corr \cup links ELSE doc.msgs[n].corr
    BY <1>14, <1>15, <2>3
  <2> QED BY <2>2, <2>4, <2>5, <2>6
<1>21. Cardinality(Active(e)) = sum
  <2>1. Active(doc) \cap links = {}
    <3> SUFFICES ASSUME NEW c \in Active(doc), c \in links
                 PROVE  FALSE
      OBVIOUS
    <3>1. PICK n \in Indexes(doc) : c \in doc.msgs[n].corr
      BY DEF Active, Kept
    <3>2. c.id < fresh /\ c.id \in Nat
      BY <1>1, <3>1, Known DEF Routed, Message, Correction
    <3> QED BY <1>2, <1>13, <3>2
  <2>2. Cardinality(Active(doc) \cup links) = Cardinality(Active(doc)) + Cardinality(links) - 0
    BY <1>9, <1>18, <2>1, FS_Union, FS_EmptySet
  <2> QED BY <1>7, <1>9, <1>18, <1>20, <2>2
<1>22. links # {}
  <2>1. Cardinality(targets) # 0
    BY <1>3, FiniteNames, FS_EmptySet
  <2> QED BY <1>9, <2>1, FS_EmptySet
<1> DEFINE memory == [doc.memory EXCEPT !.status = "stale", !.count = sum]
<1>23. /\ memory \in Memory /\ memory.status = "stale" /\ memory.count = sum
       /\ memory.covers = doc.memory.covers
  BY <1>2, <1>18, Places DEF Memory
<1> HIDE DEF sum, memory
<1>24. /\ doc' \in Document /\ doc'.msgs = e.msgs /\ doc'.memory = memory
       /\ Indexes(doc') = Indexes(doc) /\ Active(doc') = Active(e)
  <2>1. doc' = [msgs |-> e.msgs, memory |-> memory]
    BY <1>16 DEF memory
  <2>2. e.msgs \in Seq(Message)
    BY <1>15, Places
  <2> QED BY <1>15, <1>23, <2>1, <2>2, SameMessagesSameActive DEF Document
<1>25. WellFormed(doc', fresh') /\ Counted(doc')
         /\ (SummaryIsTrue(doc) => SummaryIsTrue(doc'))
  <2>1. WellFormed(doc', fresh')
    BY <1>15, <1>19, <1>24 DEF WellFormed
  <2>2. Counted(doc')
    BY <1>20, <1>21, <1>22, <1>23, <1>24 DEF Counted
  <2>3. ASSUME SummaryIsTrue(doc) PROVE SummaryIsTrue(doc')
    BY <1>20, <1>23, <1>24, <2>3 DEF SummaryIsTrue, Ids
  <2> QED BY <2>1, <2>2, <2>3
<1>26. Grows(doc, doc')
  <2>1. Grows(doc, e)
    BY <1>2, <1>14, <1>15, GrowsByMessage
  <2> QED BY <1>24, <2>1, GrowsOfMessages
<1>27. doc'.msgs[m] = new /\ \A n \in Indexes(doc) : n # m => doc'.msgs[n] = doc.msgs[n]
  BY <1>15, <1>24
<1>28. Change'
  <2>1. old.status # "failed"
    BY <1>2 DEF Routed
  <2>2. \A x \in new.as : x \in old.as \/ x.id \in Ids(made)
    BY <1>14 DEF Ids
  <2>3. Ids(made) \subseteq Ids(new.as)
    BY <1>14 DEF Ids
  <2>4. old.status = "pending" => m \in told'.cut
    BY <1>1, <1>2
  <2>5. /\ holder'.kind = "reroute" /\ holder'.msg = m /\ holder'.ids = Ids(made)
        /\ saved'.msgs[m] = old /\ doc'.msgs[m] = new
    BY <1>1, <1>2, <1>27
  <2>6. /\ new.status = "resolved" /\ new.over = old.over /\ new.deleted = old.deleted
        /\ old.as \subseteq new.as /\ old.corr \subseteq new.corr
    BY <1>14
  <2> QED BY <2>1, <2>2, <2>3, <2>4, <2>5, <2>6 DEF Change
<1>29. NewIds' = Ids(made)
  BY <1>1 DEF NewIds
<1>30. \A n \in Indexes(doc) : NewIds' \cap Ids(doc.msgs[n].as) = {}
  BY <1>1, <1>17, <1>29, NewInNoMessage
<1>31. /\ left' \in [Kinds -> Nat]
       /\ left'["send"] = left["send"] /\ left'["edit"] = left["edit"]
  BY <1>1, SpentElsewhere DEF Kinds
<1>32. /\ told' \in [cut : SUBSET Nat, stranded : SUBSET Nat, undone : BOOLEAN, overtaken : BOOLEAN]
       /\ told.cut \subseteq told'.cut /\ told'.stranded = told.stranded
       /\ told'.overtaken = told.overtaken /\ told'.undone = told.undone
  <2>1. m \in Nat
    BY <1>1, Known
  <2> QED BY <1>1, <1>2, <2>1
<1>33. RoutingShapeInv'
  BY <1>1, <1>31, <1>32 DEF RoutingInv, RoutingShapeInv
<1>34. Len(doc'.msgs) + left'["send"] + left'["edit"] <= Len(doc.msgs) + left["send"] + left["edit"]
  BY <1>1, <1>2, <1>15, <1>24, <1>31, Known
<1>35. Replaced(doc'.msgs[m]) /\ m \in Indexes(doc') /\ "reroute" \in Kind
         /\ Len(doc'.msgs) = Len(doc.msgs)
  BY <1>14, <1>15, <1>24, <1>27 DEF Kind
<1>36. /\ \A n \in Slots : routings'[n] = routings[n]
       /\ saved' = saved /\ turns' = turns /\ compact' = compact /\ Free
  BY <1>1
<1>37. m \in Indexes(doc) /\ ~doc.msgs[m].deleted
  BY <1>1 DEF Retired
<1>38. holder' = [kind |-> "reroute", msg |-> m, ids |-> Ids(made), prev |-> doc]
  BY <1>1
<1> HIDE DEF old
<1> QED
  BY <1>12, <1>24, <1>25, <1>26, <1>27, <1>17, <1>28, <1>30, <1>32, <1>33, <1>34, <1>35,
       <1>36,
     <1>37, <1>38, SectionStep

-----------------------------------------------------------------------------
(* The compaction of the routing memory.                                   *)

\* The largest of some numbers is one of them.
LEMMA Largest ==
  ASSUME NEW S \in SUBSET Nat, S # {}, NEW bound \in Nat, \A x \in S : x <= bound
  PROVE  Max(S) \in S /\ \A x \in S : x <= Max(S)
<1> DEFINE T == {u \in Nat : \A x \in S : x <= u}
<1>1. T \subseteq Nat /\ T # {}
  OBVIOUS
<1>2. PICK u \in T : \A v \in T : ~ (<<v, u>> \in OpToRel(<, Nat))
  BY <1>1, WFMin, NatLessThanWellFounded
<1>3. \A v \in T : ~ (v < u)
  BY <1>1, <1>2 DEF OpToRel
<1>4. u \in S
  <2> SUFFICES ASSUME u \notin S PROVE FALSE
    OBVIOUS
  <2>1. \A x \in S : x \in Nat /\ x < u
    OBVIOUS
  <2>2. PICK x \in S : x \in Nat /\ x < u
    BY <2>1
  <2>3. u \in Nat /\ u - 1 \in Nat /\ u - 1 < u
    BY <2>2
  <2>4. u - 1 \in T
    BY <2>1, <2>3
  <2> QED BY <1>3, <2>3, <2>4
<1>5. \A x \in S : u >= x
  OBVIOUS
<1> QED BY <1>4, <1>5 DEF Max

\* LastActive is the correction that no other one follows.
LEMMA LastOne ==
  ASSUME NEW d, NEW next \in Nat, WellFormed(d, next), Active(d) # {}
  PROVE  \E last \in Kept(d) : \E c \in d.msgs[last].corr :
           /\ LastActive(d) = c.id /\ c.id \in Nat
           /\ \A m \in Kept(d) : \A e \in d.msgs[m].corr :
                e.id \in Nat /\ (m < last \/ (m = last /\ e.id <= c.id))
<1> DEFINE M == {m \in Kept(d) : d.msgs[m].corr # {}}
           end == Max(M)
           S == Ids(d.msgs[end].corr)
<1>1. /\ d \in Document /\ Len(d.msgs) \in Nat /\ Indexes(d) \subseteq Nat
      /\ \A m \in Indexes(d) : d.msgs[m] \in Message /\ Routed(d.msgs[m], next)
  BY Places DEF WellFormed
<1>2. M # {} /\ M \subseteq Kept(d) /\ Kept(d) \subseteq Indexes(d)
  BY DEF Active, Kept
<1>3. \A m \in M : m \in Nat /\ m <= Len(d.msgs)
  BY <1>1, <1>2 DEF Indexes
<1>4. end \in M /\ \A m \in M : m <= end
  BY <1>1, <1>2, <1>3, Largest
<1> HIDE DEF end
<1>5. \A m \in Indexes(d) : \A c \in d.msgs[m].corr : c.id < next /\ c.id \in Nat
  BY <1>1 DEF Routed, Message, Correction
<1>6. S # {} /\ \A x \in S : x \in Nat /\ x <= next
  BY <1>2, <1>4, <1>5 DEF Ids
<1>7. Max(S) \in S /\ \A x \in S : x <= Max(S)
  BY <1>6, Largest
<1>8. PICK c \in d.msgs[end].corr : c.id = Max(S)
  BY <1>7 DEF Ids
<1>9. LastActive(d) = c.id /\ c.id \in Nat
  BY <1>6, <1>7, <1>8 DEF LastActive, end
<1>10. ASSUME NEW m \in Kept(d), NEW e \in d.msgs[m].corr
       PROVE  e.id \in Nat /\ (m < end \/ (m = end /\ e.id <= c.id))
  <2>1. m \in M /\ m \in Nat /\ end \in Nat /\ m <= end /\ e.id \in Nat
    BY <1>2, <1>3, <1>4, <1>5
  <2>2. CASE m = end
    BY <1>7, <1>8, <2>1, <2>2 DEF Ids
  <2> QED BY <2>1, <2>2
<1> QED BY <1>2, <1>4, <1>9, <1>10

\* It is a number.
LEMMA LastIsNumber ==
  ASSUME NEW d, NEW next \in Nat, WellFormed(d, next)
  PROVE  LastActive(d) \in Nat
<1>1. CASE Active(d) = {}
  BY <1>1 DEF LastActive
<1>2. CASE Active(d) # {}
  BY <1>2, LastOne
<1> QED BY <1>1, <1>2

\* However few corrections fit into the prompt, it is one of them.
LEMMA LastIsRead ==
  ASSUME NEW d, NEW next \in Nat, WellFormed(d, next), Active(d) # {},
         NEW read \in Prompts(d)
  PROVE  LastActive(d) \in Ids(read)
<1>1. PICK last \in Kept(d) : \E c \in d.msgs[last].corr :
           /\ LastActive(d) = c.id /\ c.id \in Nat
           /\ \A m \in Kept(d) : \A e \in d.msgs[m].corr :
                e.id \in Nat /\ (m < last \/ (m = last /\ e.id <= c.id))
  BY LastOne
<1>2. PICK c \in d.msgs[last].corr :
           /\ LastActive(d) = c.id /\ c.id \in Nat
           /\ \A m \in Kept(d) : \A e \in d.msgs[m].corr :
                e.id \in Nat /\ (m < last \/ (m = last /\ e.id <= c.id))
  BY <1>1
<1>3. PICK e \in read : e \in Active(d)
  BY DEF Prompts
<1>4. PICK m \in Kept(d) : e \in d.msgs[m].corr
  BY <1>3 DEF Active
<1>5. c \in Active(d) /\ last \in Nat /\ m \in Nat
  BY DEF Active, Kept, Indexes
<1>6. CASE m = last /\ e.id = c.id
  BY <1>2, <1>3, <1>6 DEF Ids
<1>7. CASE ~(m = last /\ e.id = c.id)
  <2>1. last > m \/ (last = m /\ c.id > e.id)
    BY <1>2, <1>4, <1>5, <1>7
  <2>2. Follows(d, c, e)
    BY <1>2, <1>4, <2>1 DEF Follows
  <2>3. c \in read
    BY <1>3, <1>5, <2>2 DEF Prompts
  <2> QED BY <1>2, <2>3 DEF Ids
<1> QED BY <1>6, <1>7

\* A section other than a correction adds nothing: what is on disk has what
\* memory has.
LEMMA GrowsBack ==
  ASSUME HolderInv, DocumentInv, ~Free, holder.kind # "reroute"
  PROVE  Grows(doc, saved)
<1> DEFINE m == holder.msg
<1>1. /\ doc \in Document /\ saved \in Document /\ Len(doc.msgs) \in Nat
           /\ Len(saved.msgs) \in Nat
      /\ 0 \notin Indexes(saved) /\ 0 \notin Indexes(doc)
      /\ \A n \in Indexes(saved) : Routed(saved.msgs[n], fresh)
  BY SavedPlaces, Places DEF DocumentInv, WellFormed
<1>2. \/ holder.kind = "send" /\ Len(doc.msgs) = Len(saved.msgs) + 1
      \/ holder.kind # "send" /\ Len(doc.msgs) = Len(saved.msgs)
  <2>1. CASE holder.kind = "send"
    BY <2>1 DEF HolderInv
  <2>2. CASE holder.kind # "send"
    BY <1>1, <2>2 DEF HolderInv
  <2> QED BY <2>1, <2>2
<1>3. \A n \in Indexes(saved) : n \in Indexes(doc) /\ (n = m \/ doc.msgs[n] = saved.msgs[n])
  <2>1. Len(saved.msgs) <= Len(doc.msgs)
    BY <1>2, <1>1
  <2> QED BY <1>1, <2>1 DEF HolderInv, Indexes
<1>4. m \in Indexes(saved) => /\ doc.msgs[m].over = saved.msgs[m].over
                              /\ doc.msgs[m].corr \subseteq saved.msgs[m].corr
  <2> HAVE m \in Indexes(saved)
  <2>1. Change
          /\ holder.kind \in {"send", "delete", "reroute", "retry", "route", "fail", "compact"}
    BY DEF HolderInv
  <2>2. CASE holder.kind = "send"
    BY <1>1, <2>1, <2>2, SavedPlaces DEF Change
  <2>3. CASE holder.kind = "compact"
    BY <1>1, <2>1, <2>3 DEF Change
  <2>4. CASE holder.kind = "delete"
    BY <1>1, <2>1, <2>4, SavedPlaces DEF Change, Message
  <2>5. CASE holder.kind = "retry"
    BY <2>1, <2>5 DEF Change
  <2>6. CASE holder.kind = "route"
    BY <2>1, <2>6 DEF Change
  <2>7. CASE holder.kind = "fail"
    BY <1>1, <2>1, <2>7, SavedPlaces DEF Change, Failed, Message
  <2> QED BY <2>1, <2>2, <2>3, <2>4, <2>5, <2>6, <2>7
<1>5. ASSUME NEW n \in Indexes(doc), doc.msgs[n].corr # {}
      PROVE  n \in Indexes(saved) /\ doc.msgs[n].corr \subseteq saved.msgs[n].corr
  <2>1. n \in Indexes(saved)
    <3> SUFFICES ASSUME n \notin Indexes(saved) PROVE FALSE
      OBVIOUS
    <3>1. holder.kind = "send" /\ n = Len(saved.msgs) + 1
      BY <1>2, <1>1 DEF Indexes
    <3> QED BY <1>5, <3>1 DEF HolderInv, Change
  <2> QED BY <1>3, <1>4, <2>1
<1>6. \A x : Superseded(saved, x) => Superseded(doc, x)
  BY <1>3, <1>4 DEF Superseded
<1> QED BY <1>5, <1>6 DEF Grows

\* The steps of a compaction that leave the documents alone.
LEMMA CompactKeeps ==
  ASSUME RoutingInv, CompactInv', queued' \in Nat, told' \in Told,
         told'.cut = told.cut, told'.stranded = told.stranded, told'.overtaken = told.overtaken,
         UNCHANGED <<doc, saved, holder, routings, fresh, turns, left>>
  PROVE  RoutingInv'
<1>1. DocumentInv' /\ RunInv' /\ TurnInv' /\ OwnerInv' /\ DeliveredInv' /\ SummaryInv'
  BY DEF RoutingInv, DocumentInv, RunInv, TurnInv, OwnerInv, DeliveredInv, SummaryInv,
         Stage, Turned, Free
<1>2. RoutingShapeInv'
  BY DEF RoutingInv, RoutingShapeInv, Told
<1>3. HolderInv'
  <2>1. CASE Free
    BY <2>1 DEF RoutingInv, HolderInv, Free
  <2>2. CASE ~Free
    <3>1. Change' /\ NewIds' = NewIds
      BY <2>2 DEF RoutingInv, HolderInv, Change, Stage, NewIds
    <3> QED BY <2>2, <3>1 DEF RoutingInv, HolderInv, Free
  <2> QED BY <2>1, <2>2
<1> QED BY <1>1, <1>2, <1>3 DEF RoutingInv

\* A compaction reads the corrections.
LEMMA StartCompactKeeps ==
  ASSUME RoutingInv, StartCompact
  PROVE  RoutingInv'
<1>1. /\ queued > 0 /\ compact.stage = "none" /\ queued' = queued - 1
      /\ Active(doc) = {} => compact' = NoCompact
      /\ Active(doc) # {} =>
           \E read \in Prompts(doc) :
             compact' = [stage |-> "asking", source |-> doc, read |-> read, ok |-> FALSE]
      /\ told' = [told EXCEPT !.undone = FALSE]
      /\ UNCHANGED <<doc, saved, holder, routings, fresh, turns, left>>
  BY DEF StartCompact
<1>2. /\ told' \in Told /\ told'.cut = told.cut /\ told'.stranded = told.stranded
      /\ told'.overtaken = told.overtaken
  BY <1>1 DEF RoutingInv, RoutingShapeInv, Told
<1>3. queued' \in Nat
  BY <1>1 DEF RoutingInv, RoutingShapeInv
<1>4. ~(~Free /\ holder.kind = "compact")
  BY <1>1 DEF RoutingInv, CompactInv
<1>5. CompactInv'
  <2>1. CASE Active(doc) = {}
    <3>1. compact'.stage = "none"
      BY <1>1, <2>1 DEF NoCompact
    <3> QED BY <1>1, <1>4, <3>1 DEF CompactInv, Free
  <2>2. CASE Active(doc) # {}
    <3>1. compact'.stage = "asking" /\ compact'.source = doc /\ compact'.read \in Prompts(doc)
      BY <1>1, <2>2
    <3>2. WellFormed(doc, fresh) /\ Counted(doc)
      BY DEF RoutingInv, DocumentInv
    <3>3. ~told.overtaken => SummaryIsTrue(doc)
      BY DEF RoutingInv, SummaryInv
    <3>4. Grows(doc, doc)
      BY DEF Grows
    <3>5. ~Free /\ holder.kind # "reroute" => Grows(doc, saved)
      BY GrowsBack DEF RoutingInv
    <3> QED BY <1>1, <1>2, <1>4, <2>2, <3>1, <3>2, <3>3, <3>4, <3>5 DEF CompactInv, Free
  <2> QED BY <2>1, <2>2
<1> QED BY <1>1, <1>2, <1>3, <1>5, CompactKeeps

\* Its answer arrives.
LEMMA CompactedKeeps ==
  ASSUME RoutingInv, Compacted
  PROVE  RoutingInv'
<1>1. PICK ok \in BOOLEAN : compact' = [compact EXCEPT !.stage = "answered", !.ok = ok]
  BY DEF Compacted
<1>2. /\ compact.stage = "asking"
      /\ UNCHANGED <<doc, saved, holder, routings, queued, fresh, turns, left, told>>
  BY DEF Compacted
<1>3. /\ compact'.stage \in {"answered", "asking"} /\ compact'.source = compact.source
      /\ compact'.read = compact.read
  BY <1>1, <1>2
<1>4. CompactInv'
  BY <1>2, <1>3 DEF RoutingInv, CompactInv, Free
<1>5. queued' \in Nat /\ told' \in Told
  BY <1>2 DEF RoutingInv, RoutingShapeInv, Told
<1> QED BY <1>2, <1>4, <1>5, CompactKeeps

\* The summary is recorded.  What the compaction read has only grown, and as many
\* corrections are in force as then: they are the same.
LEMMA CommitCompactKeeps ==
  ASSUME RoutingInv, CommitCompact
  PROVE  RoutingInv'
<1> DEFINE source == compact.source
           known == Source(source, compact.read)
           n == Cardinality(Active(source))
           memory == IF compact.ok
                     THEN [status |-> "current", covers |-> known,
                           beyond |-> Ids(Active(source)) \ known, count |-> n,
                           through |-> LastActive(source), upto |-> fresh, gone |-> Retired(doc)]
                     ELSE [doc.memory EXCEPT !.status = "failed", !.count = n]
<1>1. /\ compact.stage = "answered" /\ Free
      /\ UNCHANGED <<saved, routings, queued, fresh, turns, left>>
  BY DEF CommitCompact
<1>2. /\ doc = saved /\ doc \in Document /\ WellFormed(doc, fresh) /\ Counted(doc)
      /\ fresh \in Nat \ {0} /\ Len(doc.msgs) \in Nat /\ Indexes(doc) \subseteq Nat \ {0}
  BY <1>1, Known
<1>3. queued \in Nat /\ told \in Told
  BY DEF RoutingInv, RoutingShapeInv, Told
<1>4. CASE ~StillCurrent(doc)
  <2>1. compact' = NoCompact /\ UNCHANGED <<doc, holder, told>>
    BY <1>4 DEF CommitCompact
  <2>2. compact'.stage = "none"
    BY <2>1 DEF NoCompact
  <2>3. CompactInv'
    BY <1>1, <2>1, <2>2 DEF CompactInv, Free
  <2> QED BY <1>1, <1>3, <2>1, <2>3, CompactKeeps
<1>5. CASE StillCurrent(doc)
  <2>1. /\ doc' = [doc EXCEPT !.memory = memory]
        /\ holder' = [kind |-> "compact", msg |-> 0, ids |-> {}, prev |-> doc]
        /\ compact' = [stage |-> "saving"]
        /\ told' = [told EXCEPT !.overtaken = @ \/ told.undone]
    BY <1>5 DEF CommitCompact, Save
  <2>2. /\ WellFormed(source, fresh) /\ Counted(source)
        /\ ~told.overtaken => SummaryIsTrue(source)
        /\ Active(source) # {} /\ compact.read \in Prompts(source)
        /\ ~told.undone => Grows(source, doc)
    BY <1>1 DEF RoutingInv, CompactInv
  <2>3. /\ source \in Document /\ source.memory.covers \subseteq Nat
        /\ Ids(Active(source)) \subseteq Nat /\ n \in Nat /\ LastActive(source) \in Nat
        /\ IsFiniteSet(Active(source))
    <3>1. source \in Document
      BY <2>2 DEF WellFormed
    <3>2. source.memory \in Memory
      BY <3>1, Places
    <3> QED BY <1>2, <2>2, <3>1, <3>2, ActiveFinite, LastIsNumber DEF Memory
  <2>4. n = Cardinality(Active(doc)) /\ IsFiniteSet(Active(doc)) /\ Active(doc) # {}
    <3>1. doc.memory.count = source.memory.count
      BY <1>5 DEF StillCurrent
    <3>2. n = Cardinality(Active(doc)) /\ IsFiniteSet(Active(doc))
      BY <1>2, <2>2, <3>1, ActiveFinite DEF Counted
    <3> QED BY <2>2, <2>3, <3>2, FS_EmptySet
  <2>5. /\ memory \in Memory /\ memory.count = n /\ memory.status \in {"current", "failed"}
        /\ compact.ok => /\ memory.status = "current" /\ memory.covers = known
                         /\ memory.beyond = Ids(Active(source)) \ known
                         /\ memory.through = LastActive(source)
        /\ ~compact.ok => memory.status = "failed" /\ memory.covers = doc.memory.covers
    <3>1. known \subseteq Nat /\ Retired(doc) \subseteq Nat
      BY <1>2, <2>2, <2>3 DEF Source, Retired, Prompts, Ids
    <3>2. CASE compact.ok
      BY <1>2, <2>3, <3>1, <3>2 DEF Memory
    <3>3. CASE ~compact.ok
      <4>1. doc.memory \in Memory
        BY <1>2, Places
      <4> QED BY <2>3, <3>3, <4>1 DEF Memory
    <3> QED BY <3>2, <3>3
  <2> HIDE DEF memory
  <2>6. /\ doc' \in Document /\ doc'.msgs = doc.msgs /\ doc'.memory = memory
        /\ Indexes(doc') = Indexes(doc) /\ Active(doc') = Active(doc)
    <3>1. doc' = [msgs |-> doc.msgs, memory |-> memory]
      BY <1>2, <2>1, Places
    <3> QED BY <1>2, <2>5, <3>1, Places, SameMessagesSameActive DEF Document
  <2>7. WellFormed(doc', fresh) /\ Counted(doc')
    BY <1>2, <2>4, <2>5, <2>6 DEF WellFormed, Counted
  <2>8. DocumentInv'
    BY <1>1, <2>6, <2>7 DEF RoutingInv, DocumentInv
  <2>9. /\ told' \in Told /\ told'.cut = told.cut /\ told'.stranded = told.stranded
        /\ told'.overtaken = (told.overtaken \/ told.undone)
    BY <1>3, <2>1 DEF Told
  <2>10. RoutingShapeInv'
    BY <1>1, <2>9 DEF RoutingInv, RoutingShapeInv, Told
  <2>11. /\ ~Free' /\ holder'.kind = "compact" /\ holder'.msg = 0 /\ holder'.ids = {}
         /\ holder'.prev = saved
    BY <1>2, <2>1 DEF Free, Idle
  <2>12. HolderInv'
    <3>1. Change'
      BY <2>11 DEF Change
    <3>2. Len(doc'.msgs) = Len(saved'.msgs) + (IF holder'.kind = "send" THEN 1 ELSE 0)
      BY <1>1, <1>2, <2>6, <2>11
    <3> QED BY <1>1, <1>2, <2>6, <2>11, <3>1, <3>2 DEF HolderInv
  <2>13. RunInv'
    <3>1. \A k \in Slots : ~Stage(k, "saving")
      BY <1>1, NothingIsSaving DEF RoutingInv
    <3> QED BY <1>1, <3>1 DEF RoutingInv, RunInv, Stage, Turned
  <2>14. TurnInv' /\ DeliveredInv'
    BY <1>1, <2>9 DEF RoutingInv, TurnInv, DeliveredInv, Turned, Stage
  <2>15. OwnerInv'
    BY <1>1, <2>9 DEF RoutingInv, OwnerInv, Stage
  <2>16. CompactInv'
    BY <2>1, <2>11 DEF CompactInv
  <2>17. SummaryInv'
    <3> SUFFICES ASSUME ~told'.overtaken
                 PROVE  SummaryIsTrue(doc') /\ SummaryIsTrue(saved')
      BY DEF SummaryInv
    <3>1. ~told.overtaken /\ ~told.undone
      BY <2>9
    <3>2. SummaryIsTrue(doc) /\ SummaryIsTrue(saved')
      BY <1>1, <3>1 DEF RoutingInv, SummaryInv
    <3>3. Active(source) = Active(doc)
      <4>1. Grows(source, doc)
        BY <2>2, <3>1
      <4>2. \A m \in Indexes(source) \cap Indexes(doc) : doc.msgs[m].deleted
              => source.msgs[m].deleted
        BY <1>5 DEF StillCurrent, SameMessages
      <4>3. Active(source) \in SUBSET Active(doc)
        BY <1>2, <2>3, <4>1, <4>2, ActiveGrows
      <4> QED BY <2>4, <4>3, FS_Subset
    <3>4. known \subseteq Ids(Active(doc)) /\ LastActive(source) \in known
      <4>1. LastActive(source) \in Ids(compact.read)
        BY <1>2, <2>2, LastIsRead
      <4>2. Ids(compact.read) \subseteq Ids(Active(source))
        BY <2>2 DEF Prompts, Ids
      <4>3. source.memory.covers \subseteq Ids(Active(source))
        BY <2>2, <3>1 DEF SummaryIsTrue
      <4> QED BY <3>3, <4>1, <4>2, <4>3 DEF Source
    <3>5. CASE compact.ok
      BY <2>5, <2>6, <3>2, <3>3, <3>4, <3>5 DEF SummaryIsTrue
    <3>6. CASE ~compact.ok
      BY <2>5, <2>6, <3>2, <3>6 DEF SummaryIsTrue
    <3> QED BY <3>2, <3>5, <3>6
  <2> QED BY <2>8, <2>10, <2>12, <2>13, <2>14, <2>15, <2>16, <2>17 DEF RoutingInv
<1> QED BY <1>4, <1>5

-----------------------------------------------------------------------------
(* A section of the lock ends: its persist resolves or rejects.            *)

\* What the section that waits for its persist has changed.
LEMMA SectionFacts ==
  ASSUME RoutingInv, ~Free
  PROVE  LET m == holder.msg IN
         /\ holder.kind \in Kind \cup {"compact"} /\ Change /\ holder.ids \in SUBSET Nat
         /\ doc \in Document /\ WellFormed(doc, fresh)
         /\ Indexes(saved) \subseteq Indexes(doc) /\ Indexes(doc) \subseteq Slots
         /\ \A n \in Indexes(doc) : n # m => n \in Indexes(saved)
              /\ doc.msgs[n] = saved.msgs[n]
         /\ holder.kind \notin {"send", "compact"} => m \in Indexes(saved)
         /\ holder.kind = "send" => m \in Indexes(doc) /\ m \notin Indexes(saved)
         /\ holder.kind = "compact" => m \notin Slots /\ m \notin Indexes(doc)
         /\ holder.kind \in Making => NewIds \cap Turned = {}
         /\ \A n \in Indexes(doc) : doc.msgs[n] \in Message /\ Routed(doc.msgs[n], fresh)
<1> DEFINE m == holder.msg
<1>1. /\ doc \in Document /\ WellFormed(doc, fresh) /\ Len(doc.msgs) \in Nat
      /\ Len(saved.msgs) \in Nat /\ 0 \notin Indexes(doc)
      /\ \A n \in Indexes(doc) : doc.msgs[n] \in Message /\ Routed(doc.msgs[n], fresh)
  BY SavedPlaces, Places DEF RoutingInv, DocumentInv, WellFormed
<1>2. holder.kind \in Kind \cup {"compact"} /\ Change /\ holder.ids \in SUBSET Nat
  BY DEF RoutingInv, HolderInv, Kind
<1>3. \/ holder.kind = "send" /\ Len(doc.msgs) = Len(saved.msgs) + 1
           /\ m = Len(saved.msgs) + 1
      \/ holder.kind # "send" /\ Len(doc.msgs) = Len(saved.msgs)
  <2>1. CASE holder.kind = "send"
    BY <1>2, <2>1 DEF RoutingInv, HolderInv, Change
  <2>2. CASE holder.kind # "send"
    BY <1>1, <2>2 DEF RoutingInv, HolderInv
  <2> QED BY <2>1, <2>2
<1>4. Indexes(saved) \subseteq Indexes(doc) /\ Indexes(doc) \subseteq Slots
  BY SavedInDoc, SlotsOfMessages DEF RoutingInv
<1>5. \A n \in Indexes(doc) : n # m => n \in Indexes(saved)
  BY <1>1, <1>3 DEF Indexes
<1>6. \A n \in Indexes(saved) : n # m => doc.msgs[n] = saved.msgs[n]
  BY DEF RoutingInv, HolderInv
<1>7. holder.kind \notin {"send", "compact"} => m \in Indexes(saved)
  BY DEF RoutingInv, HolderInv
<1>8. holder.kind = "send" => m \in Indexes(doc) /\ m \notin Indexes(saved)
  BY <1>1, <1>3 DEF Indexes
<1>9. holder.kind = "compact" => m \notin Slots /\ m \notin Indexes(doc)
  <2>1. 0 \notin Slots
    BY DEF Slots
  <2> QED BY <1>1, <1>2, <2>1 DEF Change
<1>10. holder.kind \in Making => NewIds \cap Turned = {}
  <2>1. holder.kind \in Making
          => \A n \in Indexes(saved) : NewIds \cap Ids(saved.msgs[n].as) = {}
    BY DEF RoutingInv, HolderInv, Making
  <2> QED BY <2>1 DEF RoutingInv, TurnInv
<1> QED BY <1>1, <1>2, <1>4, <1>5, <1>6, <1>7, <1>8, <1>9, <1>10

\* The run that a message gets when it is saved.
LEMMA RunOfMessage ==
  ASSUME NEW msg \in Message
  PROVE  /\ RunOf(msg) \in Routes /\ RunOf(msg).stage \in {"start", "deliver"}
         /\ RunOf(msg).stage = "deliver" <=> msg.status # "pending"
         /\ msg.status # "pending" => RunOf(msg).ids = Ids(msg.as)
<1>1. Ids(msg.as) \in SUBSET Nat
  BY DEF Ids, Message, Assignment
<1> QED BY <1>1 DEF RunOf, NoRun, Routes, Stages

\* The turns after a persist: those of a correction are started,
LEMMA SavedTurns ==
  ASSUME RoutingInv, Saved
  PROVE  /\ turns' \in Seq(Nat) /\ IsInjective(turns')
         /\ Turned' = IF holder.kind = "reroute" THEN Turned \cup holder.ids ELSE Turned
<1>1. turns \in Seq(Nat) /\ IsInjective(turns) /\ ~Free
  BY DEF RoutingInv, RoutingShapeInv, TurnInv, Saved
<1>2. CASE holder.kind # "reroute"
  BY <1>1, <1>2 DEF Saved, Turned
<1>3. CASE holder.kind = "reroute"
  <2> DEFINE I == holder.ids
  <2>1. /\ I \in SUBSET Nat /\ I \cap Turned = {}
    BY <1>1, <1>3, SectionFacts DEF Making, NewIds
  <2>2. IsFiniteSet(I)
    <3> DEFINE new == doc.msgs[holder.msg]
    <3>1. I \subseteq Ids(new.as) /\ holder.msg \in Indexes(doc) /\ Routed(new, fresh)
      BY <1>1, <1>3, SectionFacts DEF Change
    <3>2. IsFiniteSet(Ids(new.as))
      BY <3>1, FiniteIds DEF Routed
    <3> QED BY <3>1, <3>2, FS_Subset
  <2>3. SetToSeq(I) \in Seq(I) /\ IsInjective(SetToSeq(I)) /\ ToSet(SetToSeq(I)) = I
    BY <2>2, SequenceOfSet
  <2>4. SetToSeq(I) \in Seq(Nat)
    BY <2>1, <2>3
  <2>5. turns' = turns \o SetToSeq(I)
    BY <1>3 DEF Saved
  <2> HIDE DEF I
  <2>6. turns' \in Seq(Nat) /\ IsInjective(turns') /\ Turned' = Turned \cup I
    BY <1>1, <2>1, <2>3, <2>4, <2>5, ConcatenatedTurns DEF Turned
  <2> QED BY <1>3, <2>6 DEF I
<1> QED BY <1>2, <1>3

\* and the runs: what was accepted gets one, what was decided goes on.
LEMMA SavedRuns ==
  ASSUME RoutingInv, Saved
  PROVE  LET m == holder.msg IN
         /\ routings' \in [Slots -> Routes]
         /\ \A n \in Slots : n # m => routings'[n] = routings[n]
         /\ holder.kind \in {"send", "retry"} => routings'[m] = RunOf(doc.msgs[m])
         /\ holder.kind = "route" => routings'[m].stage = "deliver"
              /\ routings'[m].ids = holder.ids
         /\ holder.kind = "fail" => routings'[m].stage = "none"
         /\ holder.kind \in {"delete", "reroute", "compact"} => routings' = routings
<1> DEFINE m == holder.msg
<1>1. /\ routings \in [Slots -> Routes] /\ ~Free
      /\ routings' = CASE holder.kind \in {"send", "retry"} -> [routings EXCEPT ![m] = RunOf(doc.msgs[m])]
                     [] holder.kind = "route" -> [routings EXCEPT ![m] =
                                            [@ EXCEPT !.stage = "deliver", !.ids = holder.ids]]
                     [] holder.kind = "fail" -> [routings EXCEPT ![m] = NoRun]
                     [] OTHER -> routings
  BY DEF RoutingInv, RoutingShapeInv, Saved
<1>2. holder.kind \in Kind \cup {"compact"}
        /\ (holder.kind # "compact" => m \in Slots /\ m \in Indexes(doc))
  BY <1>1, SectionFacts
<1>3. CASE holder.kind \in {"send", "retry"}
  <2>1. RunOf(doc.msgs[m]) \in Routes
    BY <1>1, <1>2, <1>3, SectionFacts, RunOfMessage
  <2>2. routings' = [routings EXCEPT ![m] = RunOf(doc.msgs[m])]
    BY <1>1, <1>3
  <2> QED BY <1>1, <1>2, <1>3, <2>1, <2>2
<1>4. CASE holder.kind = "route"
  <2> DEFINE r == [routings[m] EXCEPT !.stage = "deliver", !.ids = holder.ids]
  <2>1. routings' = [routings EXCEPT ![m] = r]
    BY <1>1, <1>2, <1>4
  <2>2. r \in Routes /\ r.stage = "deliver" /\ r.ids = holder.ids
    <3>1. routings[m] \in Routes /\ holder.ids \in SUBSET Nat
      BY <1>1, <1>2, <1>4, SectionFacts
    <3> QED BY <3>1 DEF Routes, Stages
  <2> HIDE DEF r
  <2> QED BY <1>1, <1>2, <1>4, <2>1, <2>2
<1>5. CASE holder.kind = "fail"
  <2>1. routings' = [routings EXCEPT ![m] = NoRun] /\ NoRun \in Routes
          /\ NoRun.stage = "none"
    BY <1>1, <1>5 DEF NoRun, Routes, Stages
  <2> QED BY <1>1, <1>2, <1>5, <2>1
<1>6. CASE holder.kind \in {"delete", "reroute", "compact"}
  <2>1. routings' = routings
    BY <1>1, <1>6
  <2> QED BY <1>1, <1>6, <2>1
<1> QED BY <1>2, <1>3, <1>4, <1>5, <1>6 DEF Kind

\* A section takes no assignment away that has a turn.
LEMMA TurnedInDoc ==
  ASSUME RoutingInv, ~Free
  PROVE  \A i \in Turned : \E n \in Indexes(doc) :
           doc.msgs[n].status = "resolved" /\ i \in Ids(doc.msgs[n].as)
<1> DEFINE m == holder.msg
           old == saved.msgs[m]
           new == doc.msgs[m]
           k == holder.kind
<1> SUFFICES ASSUME NEW i \in Turned
             PROVE  \E n \in Indexes(doc) : doc.msgs[n].status = "resolved"
                      /\ i \in Ids(doc.msgs[n].as)
  OBVIOUS
<1>1. /\ k \in Kind \cup {"compact"} /\ Change /\ Indexes(saved) \subseteq Indexes(doc)
      /\ Indexes(doc) \subseteq Slots
      /\ \A n \in Indexes(doc) : n # m => n \in Indexes(saved)
           /\ doc.msgs[n] = saved.msgs[n]
      /\ k = "send" => m \notin Indexes(saved)
      /\ k = "compact" => m \notin Slots
  BY SectionFacts
<1>2. PICK n \in Indexes(saved) : saved.msgs[n].status = "resolved"
        /\ i \in Ids(saved.msgs[n].as)
  BY DEF RoutingInv, TurnInv
<1> HIDE DEF old, new, k, m
<1>3. CASE n # m
  BY <1>1, <1>2, <1>3
<1>4. CASE n = m
  <2>1. old.status = "resolved"
    BY <1>2, <1>4 DEF old
  <2>2. k \notin {"send", "compact"}
    BY <1>1, <1>4
  <2>3. k \in {"delete", "reroute"}
    BY <1>1, <2>1, <2>2 DEF Change, Kind, k, m, old
  <2>4. new.status = "resolved" /\ old.as \subseteq new.as
    BY <1>1, <1>2, <1>4, <2>3, SavedPlaces DEF Change, k, m, new, old, RoutingInv, Message
  <2> QED BY <1>1, <1>2, <1>4, <2>4 DEF Ids, new, old
<1> QED BY <1>3, <1>4

\* The persist resolves: what was changed in memory is on disk.
LEMMA SavedKeeps ==
  ASSUME RoutingInv, Saved
  PROVE  RoutingInv'
<1> DEFINE m == holder.msg
           old == saved.msgs[m]
           new == doc.msgs[m]
           k == holder.kind
<1>1. /\ ~Free /\ saved' = doc /\ holder' = Idle
      /\ queued' = IF k = "reroute" THEN queued + 1 ELSE queued
      /\ compact' = IF k = "compact" THEN NoCompact ELSE compact
      /\ UNCHANGED <<doc, fresh, left, told>>
  BY DEF Saved
<1>2. Free'
  BY <1>1 DEF Free
<1>3. /\ k \in Kind \cup {"compact"} /\ Change /\ holder.ids \in SUBSET Nat
      /\ doc \in Document /\ WellFormed(doc, fresh)
      /\ Indexes(saved) \subseteq Indexes(doc) /\ Indexes(doc) \subseteq Slots
      /\ \A n \in Indexes(doc) : n # m => n \in Indexes(saved)
           /\ doc.msgs[n] = saved.msgs[n]
      /\ k \notin {"send", "compact"} => m \in Indexes(saved)
      /\ k = "send" => m \in Indexes(doc) /\ m \notin Indexes(saved)
      /\ k = "compact" => m \notin Slots /\ m \notin Indexes(doc)
      /\ k \in Making => NewIds \cap Turned = {}
      /\ \A n \in Indexes(doc) : doc.msgs[n] \in Message /\ Routed(doc.msgs[n], fresh)
  BY <1>1, SectionFacts
<1>4. /\ routings' \in [Slots -> Routes]
      /\ \A n \in Slots : n # m => routings'[n] = routings[n]
      /\ k \in {"send", "retry"} => routings'[m] = RunOf(new)
      /\ k = "route" => routings'[m].stage = "deliver" /\ routings'[m].ids = holder.ids
      /\ k = "fail" => routings'[m].stage = "none"
      /\ k \in {"delete", "reroute", "compact"} => routings' = routings
  BY SavedRuns
<1>5. /\ turns' \in Seq(Nat) /\ IsInjective(turns')
      /\ Turned' = IF k = "reroute" THEN Turned \cup holder.ids ELSE Turned
  BY SavedTurns
<1>6. \A n \in Indexes(doc) : n = m => /\ k \in Kind
                                       /\ RunOf(new).stage \in {"start", "deliver"}
                                       /\ RunOf(new).stage = "deliver" <=> new.status # "pending"
                                       /\ new.status # "pending"
                                            => RunOf(new).ids = Ids(new.as)
  BY <1>3, RunOfMessage
<1>7. DocumentInv'
  BY <1>1 DEF RoutingInv, DocumentInv
<1>8. RoutingShapeInv'
  BY <1>1, <1>4, <1>5 DEF RoutingInv, RoutingShapeInv
<1>9. HolderInv'
  BY <1>1, <1>2 DEF HolderInv
<1> HIDE DEF old, new, k, m
<1>10. \A n \in Slots : Stage(n, "saving") => n = m /\ k \in {"route", "fail"}
  BY DEF RoutingInv, RunInv, m, k
<1>11. \A n \in Indexes(doc) : \A a \in doc.msgs[n].as : a.id \in Ids(doc.msgs[n].as)
  BY DEF Ids
<1>12. RunInv'
  <2> SUFFICES ASSUME NEW n \in Slots
               PROVE  /\ routings'[n].stage \notin {"none", "saving"} => n \in Indexes(doc)
                      /\ routings'[n].stage = "decided" => routings'[n].agents # {}
                      /\ routings'[n].stage # "saving"
                      /\ routings'[n].stage = "deliver" =>
                           /\ doc.msgs[n].status = "resolved"
                           /\ routings'[n].ids \subseteq Ids(doc.msgs[n].as)
                           /\ routings'[n].ids \cap Turned' = {}
    BY <1>1 DEF RunInv, Stage
  <2>1. /\ ~Stage(n, "none") /\ ~Stage(n, "saving") => n \in Indexes(saved)
        /\ Stage(n, "decided") => routings[n].agents # {}
        /\ Stage(n, "deliver") =>
             /\ n \in Indexes(saved) /\ saved.msgs[n].status = "resolved"
             /\ routings[n].ids \subseteq Ids(saved.msgs[n].as)
             /\ routings[n].ids \cap Turned = {}
    BY DEF RoutingInv, RunInv, Stage
  <2>2. CASE n # m
    <3>1. routings'[n] = routings[n] /\ ~Stage(n, "saving")
      BY <1>4, <1>10, <2>2
    <3>2. n \in Indexes(saved) => n \in Indexes(doc) /\ doc.msgs[n] = saved.msgs[n]
      BY <1>3, <2>2
    <3>3. n \in Indexes(saved)
            /\ k = "reroute" => holder.ids \cap Ids(saved.msgs[n].as) = {}
      BY <1>1 DEF RoutingInv, HolderInv, NewIds, k
    <3> QED BY <1>5, <2>1, <3>1, <3>2, <3>3 DEF Stage
  <2>3. CASE n = m /\ k \in {"send", "retry"}
    <3>1. /\ m \in Indexes(doc) /\ routings'[m] = RunOf(new)
               /\ new.status \in {"pending", "resolved"}
      BY <1>3, <1>4, <2>3 DEF Change, k, m, new
    <3>2. Ids(new.as) \cap Turned = {}
      BY <1>3, <2>3 DEF Making, NewIds, k, m, new
    <3> QED BY <1>5, <1>6, <2>3, <3>1, <3>2 DEF new
  <2>4. CASE n = m /\ k = "route"
    <3>1. m \in Indexes(doc) /\ new.status = "resolved" /\ holder.ids = Ids(new.as)
      BY <1>3, <2>4 DEF Change, k, m, new
    <3>2. Ids(new.as) \cap Turned = {}
      BY <1>3, <2>4, <3>1 DEF Making, NewIds, k
    <3> QED BY <1>4, <1>5, <2>4, <3>1, <3>2 DEF new
  <2>5. CASE n = m /\ k = "fail"
    BY <1>4, <2>5
  <2>6. CASE n = m /\ k = "delete"
    <3>1. new.status = old.status /\ new.as = old.as /\ m \in Indexes(doc)
      BY <1>3, <2>6, SavedPlaces DEF Change, k, m, new, old, RoutingInv, Message
    <3> QED BY <1>4, <1>5, <1>10, <2>1, <2>6, <3>1 DEF Stage, new, old
  <2>7. CASE n = m /\ k = "reroute"
    <3>1. /\ new.status = "resolved" /\ old.as \subseteq new.as /\ m \in Indexes(doc)
          /\ m \in Indexes(saved)
      BY <1>3, <2>7 DEF Change, k, m, new, old
    <3>2. Ids(old.as) \subseteq Ids(new.as)
      BY <3>1 DEF Ids
    <3>3. holder.ids \cap Ids(old.as) = {}
      BY <1>1, <2>7, <3>1 DEF RoutingInv, HolderInv, NewIds, k, old
    <3> QED BY <1>4, <1>5, <1>10, <2>1, <2>7, <3>1, <3>2, <3>3 DEF Stage, new, old
  <2>8. n = m => k # "compact"
    BY <1>3
  <2> QED BY <1>3, <2>2, <2>3, <2>4, <2>5, <2>6, <2>7, <2>8 DEF Kind
<1>13. TurnInv'
  <2> SUFFICES ASSUME NEW i \in Turned'
               PROVE  \E n \in Indexes(doc) : doc.msgs[n].status = "resolved"
                        /\ i \in Ids(doc.msgs[n].as)
    BY <1>1, <1>5 DEF TurnInv
  <2>1. CASE i \in Turned
    BY <1>1, <2>1, TurnedInDoc
  <2>2. CASE i \notin Turned
    <3>1. k = "reroute" /\ i \in holder.ids
      BY <1>5, <2>2
    <3>2. m \in Indexes(doc) /\ new.status = "resolved" /\ holder.ids \subseteq Ids(new.as)
      BY <1>3, <3>1 DEF Change, k, m, new
    <3> QED BY <3>1, <3>2 DEF new
  <2> QED BY <2>1, <2>2
<1>14. OwnerInv'
  <2> SUFFICES ASSUME NEW n \in Indexes(doc), doc.msgs[n].status = "pending",
                      ~doc.msgs[n].deleted, n \notin told.stranded
               PROVE  routings'[n].stage # "none"
    BY <1>1, <1>2 DEF OwnerInv, Stage
  <2>1. CASE n # m
    <3>1. n \in Indexes(saved) /\ doc.msgs[n] = saved.msgs[n] /\ routings'[n] = routings[n]
      BY <1>3, <1>4, <2>1
    <3>2. routings[n].stage # "none"
      BY <2>1, <3>1 DEF RoutingInv, OwnerInv, Stage, m
    <3> QED BY <3>1, <3>2
  <2>2. CASE n = m
    <3>1. new.status = "pending" /\ ~new.deleted /\ k \in Kind
      BY <1>6, <2>2 DEF new
    <3>2. k \notin {"delete", "reroute", "route", "fail"}
      <4>1. m \in Indexes(saved) => old \in Message
        BY SavedPlaces DEF RoutingInv, old
      <4> QED BY <1>3, <3>1, <4>1 DEF Change, k, m, new, old, Failed, Message
    <3>3. routings'[m] = RunOf(new)
      BY <1>4, <3>1, <3>2 DEF Kind
    <3> QED BY <1>6, <2>2, <3>3
  <2> QED BY <2>1, <2>2
<1>15. DeliveredInv'
  <2> SUFFICES ASSUME NEW n \in Indexes(doc), doc.msgs[n].status = "resolved",
                      n \notin told.cut
               PROVE  /\ routings'[n].stage \in {"none", "deliver"}
                      /\ \A x \in ActiveAssignments(doc.msgs[n]) :
                           x.id \in Turned'
                             \/ (routings'[n].stage = "deliver" /\ x.id \in routings'[n].ids)
    BY <1>1 DEF DeliveredInv, Stage
  <2>1. Turned \subseteq Turned'
          /\ \A x \in ActiveAssignments(doc.msgs[n]) : x.id \in Ids(doc.msgs[n].as)
    BY <1>5 DEF ActiveAssignments, Ids
  <2>2. n \in Indexes(saved) /\ saved.msgs[n].status = "resolved" =>
          /\ routings[n].stage \in {"none", "deliver"}
          /\ \A x \in ActiveAssignments(saved.msgs[n]) :
               x.id \in Turned
                 \/ (routings[n].stage = "deliver" /\ x.id \in routings[n].ids)
    BY DEF RoutingInv, DeliveredInv, Stage
  <2>3. CASE n # m
    <3>1. n \in Indexes(saved) /\ doc.msgs[n] = saved.msgs[n] /\ routings'[n] = routings[n]
      BY <1>3, <1>4, <2>3
    <3> QED BY <2>1, <2>2, <3>1
  <2>4. CASE n = m /\ k \in {"send", "retry"}
    <3>1. routings'[m] = RunOf(new) /\ new.status = "resolved"
      BY <1>4, <2>4 DEF new
    <3> QED BY <1>6, <2>1, <2>4, <3>1 DEF new
  <2>5. CASE n = m /\ k = "route"
    <3>1. holder.ids = Ids(new.as) /\ routings'[m].stage = "deliver"
            /\ routings'[m].ids = holder.ids
      BY <1>3, <1>4, <2>5 DEF Change, k, m, new
    <3> QED BY <2>1, <2>5, <3>1 DEF new
  <2>6. CASE n = m /\ k = "fail"
    <3>1. new.status = "failed"
      BY <1>3, <2>6, SavedPlaces DEF Change, k, m, new, Failed, RoutingInv, Message
    <3> QED BY <2>6, <3>1 DEF new
  <2>7. CASE n = m /\ k = "delete"
    <3>1. m \in Indexes(saved) /\ new.status = old.status /\ new.as = old.as
            /\ new.corr = old.corr
      BY <1>3, <2>7, SavedPlaces DEF Change, k, m, new, old, RoutingInv, Message
    <3>2. ActiveAssignments(new) = ActiveAssignments(old) /\ routings' = routings
      BY <1>4, <2>7, <3>1 DEF ActiveAssignments, Corrected
    <3> QED BY <2>1, <2>2, <2>7, <3>1, <3>2 DEF new, old
  <2>8. CASE n = m /\ k = "reroute"
    <3>1. /\ m \in Indexes(saved) /\ old.status # "failed" /\ old.corr \subseteq new.corr
          /\ \A x \in new.as : x \in old.as \/ x.id \in holder.ids
          /\ old.status = "pending" => m \in told.cut
          /\ routings' = routings
      BY <1>3, <1>4, <2>8 DEF Change, k, m, new, old
    <3>2. old.status = "resolved"
      BY <2>8, <3>1, SavedPlaces DEF RoutingInv, Message, old
    <3>3. \A x \in ActiveAssignments(new) : x \in ActiveAssignments(old) \/ x.id \in Turned'
      BY <1>5, <2>8, <3>1 DEF ActiveAssignments, Corrected
    <3> QED BY <2>1, <2>2, <2>8, <3>1, <3>2, <3>3 DEF new, old
  <2> QED BY <1>6, <2>3, <2>4, <2>5, <2>6, <2>7, <2>8 DEF Kind
<1>16. CompactInv'
  <2>1. /\ compact.stage \in {"none", "asking", "answered", "saving"}
        /\ compact.stage = "saving" <=> k = "compact"
    BY <1>1 DEF RoutingInv, CompactInv, k
  <2>2. CASE k = "compact"
    BY <1>1, <1>2, <2>2 DEF CompactInv, NoCompact
  <2>3. CASE k # "compact"
    <3>1. compact' = compact /\ compact.stage \in {"none", "asking", "answered"}
      BY <1>1, <2>1, <2>3
    <3> QED BY <1>1, <1>2, <3>1 DEF RoutingInv, CompactInv
  <2> QED BY <2>2, <2>3
<1>17. SummaryInv'
  BY <1>1 DEF RoutingInv, SummaryInv
<1> QED BY <1>7, <1>8, <1>9, <1>12, <1>13, <1>14, <1>15, <1>16, <1>17 DEF RoutingInv

\* The persist rejects: memory is what it was, and on disk nothing has changed.
LEMMA RejectedKeeps ==
  ASSUME RoutingInv, Rejected
  PROVE  RoutingInv'
<1> DEFINE m == holder.msg
           old == saved.msgs[m]
           k == holder.kind
<1>1. /\ ~Free /\ Spend("reject") /\ holder' = Idle
      /\ routings' = CASE k = "route" -> [routings EXCEPT ![m] = RejectedRun(m)]
                     [] k = "fail" -> [routings EXCEPT ![m] = NoRun]
                     [] OTHER -> routings
      /\ compact' = IF k = "compact" THEN NoCompact ELSE compact
      /\ told' = [told EXCEPT
                    !.stranded = IF k \in {"fail", "delete", "reroute"} THEN @ \cup {m} ELSE @,
                    !.undone = @ \/ (k = "reroute" /\ compact.stage # "none")]
      /\ UNCHANGED <<saved, queued, fresh, turns>>
  BY DEF Rejected
<1>2. doc' = saved
  BY <1>1 DEF Rejected, RoutingInv, HolderInv
<1>3. /\ k \in Kind \cup {"compact"} /\ Change
      /\ Indexes(saved) \subseteq Indexes(doc) /\ Indexes(doc) \subseteq Slots
      /\ k \notin {"send", "compact"} => m \in Indexes(saved)
      /\ k = "send" => m \in Indexes(doc) /\ m \notin Indexes(saved)
      /\ k = "compact" => m \notin Slots /\ m \notin Indexes(doc)
  BY <1>1, SectionFacts
<1>4. Free'
  BY <1>1 DEF Free
<1>5. /\ left' \in [Kinds -> Nat]
      /\ left'["send"] = left["send"] /\ left'["edit"] = left["edit"]
  BY <1>1, SpentElsewhere DEF Kinds
<1>6. /\ told' \in Told /\ told'.cut = told.cut /\ told'.overtaken = told.overtaken
      /\ told.stranded \subseteq told'.stranded
      /\ k \in {"fail", "delete", "reroute"} => m \in told'.stranded
      /\ told'.undone = (told.undone \/ (k = "reroute" /\ compact.stage # "none"))
  <2>1. told \in Told
    BY DEF RoutingInv, RoutingShapeInv, Told
  <2>2. m \in Nat
    BY <1>1, Places DEF RoutingInv, HolderInv, DocumentInv, WellFormed
  <2> HIDE DEF m, k
  <2> QED BY <1>1, <2>1, <2>2 DEF Told
<1>7. /\ routings' \in [Slots -> Routes]
      /\ \A n \in Slots : n # m \/ k \notin {"route", "fail"} => routings'[n] = routings[n]
      /\ k = "route" => routings'[m].stage = "failing"
      /\ k = "fail" => routings'[m].stage = "none"
  <2>1. routings \in [Slots -> Routes]
    BY DEF RoutingInv, RoutingShapeInv
  <2>2. CASE k = "route"
    <3> DEFINE r == [routings[m] EXCEPT !.stage = "failing"]
    <3>1. routings' = [routings EXCEPT ![m] = r]
      BY <1>1, <2>2 DEF RejectedRun
    <3>2. r \in Routes /\ r.stage = "failing"
      <4>1. routings[m] \in Routes
        BY <1>3, <2>1, <2>2
      <4> QED BY <4>1, StagedRoute, StageNames
    <3>3. m \in Slots
      BY <1>3, <2>2
    <3> HIDE DEF r, m, k
    <3> QED BY <2>1, <2>2, <3>1, <3>2, <3>3
  <2>3. CASE k = "fail"
    <3>1. routings' = [routings EXCEPT ![m] = NoRun]
      BY <1>1, <2>3
    <3>2. NoRun \in Routes /\ NoRun.stage = "none"
      BY DEF NoRun, Routes, Stages
    <3>3. m \in Slots
      BY <1>3, <2>3
    <3> HIDE DEF m, k
    <3> QED BY <2>1, <2>3, <3>1, <3>2, <3>3
  <2>4. CASE k \notin {"route", "fail"}
    <3>1. routings' = routings
      BY <1>1, <2>4
    <3> QED BY <2>1, <2>4, <3>1
  <2> QED BY <2>2, <2>3, <2>4
<1>8. DocumentInv'
  <2>1. PICK s \in Starts : Len(doc.msgs) + left["send"] + left["edit"] <= Bound(s)
    BY DEF RoutingInv, DocumentInv
  <2>2. /\ Len(saved.msgs) \in Nat /\ Len(doc.msgs) \in Nat
             /\ Len(saved.msgs) <= Len(doc.msgs)
    <3>1. Len(saved.msgs) \in Nat /\ Len(doc.msgs) \in Nat
      BY SavedPlaces, Places DEF RoutingInv, DocumentInv, WellFormed
    <3> QED BY <1>3, <3>1 DEF Indexes
  <2>3. Len(saved.msgs) + left["send"] + left["edit"] <= Bound(s)
    <3>1. left["send"] \in Nat /\ left["edit"] \in Nat
      BY DEF RoutingInv, RoutingShapeInv, Kinds
    <3>2. Bound(s) \in Nat
      BY BoundIsNumber
    <3> QED BY <2>1, <2>2, <3>1, <3>2
  <2>4. \E t \in Starts : Len(doc'.msgs) + left'["send"] + left'["edit"] <= Bound(t)
    BY <1>2, <1>5, <2>3
  <2> QED BY <1>1, <1>2, <2>4 DEF RoutingInv, DocumentInv
<1>9. RoutingShapeInv'
  BY <1>1, <1>5, <1>6, <1>7 DEF RoutingInv, RoutingShapeInv, Told
<1>10. HolderInv'
  BY <1>1, <1>2, <1>4 DEF HolderInv
<1> HIDE DEF m, old, k
<1>11. \A n \in Slots : Stage(n, "saving") => n = m /\ k \in {"route", "fail"}
  BY DEF RoutingInv, RunInv, m, k
<1>12. RunInv'
  <2> SUFFICES ASSUME NEW n \in Slots
               PROVE  RunInv!(n)'
    BY DEF RunInv
  <2>1. CASE routings'[n] = routings[n] /\ ~Stage(n, "saving")
    BY <1>1, <1>2, <2>1 DEF RoutingInv, RunInv, Stage, Turned
  <2>2. CASE n = m /\ k = "route"
    BY <1>1, <1>3, <1>7, <2>2 DEF Stage
  <2>3. CASE n = m /\ k = "fail"
    BY <1>7, <2>3 DEF Stage
  <2> QED BY <1>7, <1>11, <2>1, <2>2, <2>3
<1>13. TurnInv'
  BY <1>1 DEF RoutingInv, TurnInv, Turned
<1>14. OwnerInv'
  <2> SUFFICES ASSUME NEW n \in Indexes(saved), saved.msgs[n].status = "pending",
                      ~saved.msgs[n].deleted, n \notin told'.stranded
               PROVE  routings'[n].stage # "none"
    BY <1>1, <1>4 DEF OwnerInv, Stage
  <2>1. n \notin told.stranded /\ (n = m => k \notin {"fail", "delete", "reroute"})
    BY <1>6
  <2>2. routings[n].stage # "none"
    BY <2>1 DEF RoutingInv, OwnerInv, Stage, m, k
  <2>3. n \in Slots
    BY <1>3
  <2> QED BY <1>7, <2>1, <2>2, <2>3
<1>15. DeliveredInv'
  <2> SUFFICES ASSUME NEW n \in Indexes(saved), saved.msgs[n].status = "resolved",
                      n \notin told.cut
               PROVE  /\ routings'[n].stage \in {"none", "deliver"}
                      /\ \A x \in ActiveAssignments(saved.msgs[n]) :
                           x.id \in Turned
                             \/ (routings'[n].stage = "deliver" /\ x.id \in routings'[n].ids)
    BY <1>1, <1>6 DEF DeliveredInv, Stage, Turned
  <2>1. n \in Slots
    BY <1>3
  <2>2. n # m \/ k \notin {"route", "fail"}
    BY <1>3 DEF Change, m, k
  <2>3. routings'[n] = routings[n]
    BY <1>7, <2>1, <2>2
  <2> QED BY <2>3 DEF RoutingInv, DeliveredInv, Stage
<1>16. CompactInv'
  <2>1. /\ compact.stage \in {"none", "asking", "answered", "saving"}
        /\ compact.stage = "saving" <=> k = "compact"
    BY <1>1 DEF RoutingInv, CompactInv, k
  <2>2. CASE k = "compact"
    BY <1>1, <1>4, <2>2 DEF CompactInv, NoCompact
  <2>3. CASE k # "compact"
    <3>1. compact' = compact /\ compact.stage \in {"none", "asking", "answered"}
      BY <1>1, <2>1, <2>3
    <3>2. ASSUME compact.stage \in {"asking", "answered"}
          PROVE  /\ WellFormed(compact.source, fresh) /\ Counted(compact.source)
                 /\ ~told'.overtaken => SummaryIsTrue(compact.source)
                 /\ Active(compact.source) # {} /\ compact.read \in Prompts(compact.source)
                 /\ ~told'.undone => Grows(compact.source, saved)
      <4>1. /\ WellFormed(compact.source, fresh) /\ Counted(compact.source)
            /\ ~told.overtaken => SummaryIsTrue(compact.source)
            /\ Active(compact.source) # {} /\ compact.read \in Prompts(compact.source)
            /\ ~told.undone /\ k # "reroute" => Grows(compact.source, saved)
        BY <1>1, <3>2 DEF RoutingInv, CompactInv, k
      <4> QED BY <1>6, <3>2, <4>1
    <3> QED BY <1>1, <1>2, <1>4, <3>1, <3>2 DEF CompactInv
  <2> QED BY <2>2, <2>3
<1>17. SummaryInv'
  BY <1>1, <1>2, <1>6 DEF RoutingInv, SummaryInv
<1> QED BY <1>8, <1>9, <1>10, <1>12, <1>13, <1>14, <1>15, <1>16, <1>17 DEF RoutingInv

-----------------------------------------------------------------------------
(* The death of the process, and the first state.                          *)

\* refreshLoadedChannelMemory and markInterruptedRuns: what is loaded is sound, its
\* summary true if the saved one was, and nothing is pending.
LEMMA Loaded ==
  ASSUME NEW d, NEW next, WellFormed(d, next), Counted(d),
         \A m \in Indexes(d) : Replaced(d.msgs[m])
  PROVE  LET e == Load(d) IN
         /\ WellFormed(e, next) /\ Counted(e) /\ \A m \in Indexes(e) : Replaced(e.msgs[m])
         /\ Indexes(e) = Indexes(d) /\ Len(e.msgs) = Len(d.msgs)
         /\ SummaryIsTrue(d) => SummaryIsTrue(e)
         /\ \A m \in Indexes(d) : e.msgs[m].status # "pending"
         /\ \A m \in Indexes(d) : d.msgs[m].status = "resolved" => e.msgs[m] = d.msgs[m]
<1> DEFINE e == Load(d)
<1>1. /\ d \in Document /\ Len(d.msgs) \in Nat /\ d.memory \in Memory
           /\ Indexes(d) = 1 .. Len(d.msgs)
      /\ \A m \in Indexes(d) : d.msgs[m] \in Message /\ Routed(d.msgs[m], next)
           /\ Replaced(d.msgs[m])
  BY Places DEF WellFormed, Indexes
<1>2. /\ e.memory = LoadMemory(d)
      /\ e.msgs = [m \in Indexes(d) |-> IF d.msgs[m].status = "pending" THEN Failed(d.msgs[m]) ELSE d.msgs[m]]
      /\ e = [msgs |-> e.msgs, memory |-> e.memory]
  BY DEF Load
<1> HIDE DEF e
<1>3. ASSUME NEW m \in Indexes(d)
      PROVE  /\ e.msgs[m] \in Message /\ Routed(e.msgs[m], next) /\ Replaced(e.msgs[m])
             /\ e.msgs[m].over = d.msgs[m].over /\ e.msgs[m].deleted = d.msgs[m].deleted
             /\ e.msgs[m].corr = d.msgs[m].corr /\ e.msgs[m].as \subseteq d.msgs[m].as
             /\ e.msgs[m].status # "pending"
             /\ d.msgs[m].status = "resolved" => e.msgs[m] = d.msgs[m]
  <2>1. CASE d.msgs[m].status # "pending"
    <3>1. e.msgs[m] = d.msgs[m]
      BY <1>2, <2>1
    <3> QED BY <1>1, <2>1, <3>1
  <2>2. CASE d.msgs[m].status = "pending"
    <3> DEFINE new == Failed(d.msgs[m])
    <3>1. e.msgs[m] = new
      BY <1>2, <2>2
    <3>2. /\ new \in Message /\ new.status = "failed" /\ new.as = {} /\ new.corr = {}
          /\ new.over = d.msgs[m].over /\ new.deleted = d.msgs[m].deleted
      BY <1>1 DEF Failed, Message
    <3>3. d.msgs[m].corr = {}
      BY <1>1, <2>2 DEF Routed
    <3> HIDE DEF new
    <3>4. Routed(new, next) /\ Replaced(new)
      BY <3>2, FS_EmptySet DEF Routed, Replaced, ActiveAssignments, Corrected
    <3> QED BY <2>2, <3>1, <3>2, <3>3, <3>4
  <2> QED BY <2>1, <2>2
<1>4. e.msgs \in Seq(Message) /\ Len(e.msgs) = Len(d.msgs) /\ Indexes(e) = Indexes(d)
  <2>1. e.msgs \in [1 .. Len(d.msgs) -> Message]
    BY <1>1, <1>2, <1>3
  <2>2. e.msgs \in Seq(Message) /\ Len(e.msgs) = Len(d.msgs)
    BY <1>1, <2>1
  <2> QED BY <2>2 DEF Indexes
<1>5. Active(e) = Active(d)
  <2>1. \A n : Superseded(e, n) <=> Superseded(d, n)
    BY <1>3, <1>4 DEF Superseded
  <2>2. Kept(e) = Kept(d)
    BY <1>3, <1>4, <2>1 DEF Kept, Retired
  <2>3. \A n \in Kept(d) : e.msgs[n].corr = d.msgs[n].corr
    BY <1>3 DEF Kept
  <2> QED BY <2>2, <2>3 DEF Active
<1>6. Cardinality(Active(d)) \in Nat
  BY ActiveFinite
<1>7. /\ e.memory \in Memory /\ e.memory.count = Cardinality(Active(d))
      /\ e.memory.status = "empty" <=> Active(d) = {}
      /\ SummaryIsTrue(d) => /\ e.memory.covers \subseteq Ids(Active(d))
                             /\ e.memory.status = "current" =>
                                  /\ e.memory.covers \cup e.memory.beyond = Ids(Active(d))
                                  /\ e.memory.through \in e.memory.covers
  <2>1. CASE Active(d) = {}
    <3>1. e.memory = EmptyMemory
      BY <1>2, <2>1 DEF LoadMemory
    <3>2. EmptyMemory \in Memory /\ Cardinality(Active(d)) = 0
      BY <2>1, FS_EmptySet DEF EmptyMemory, Memory
    <3> QED BY <2>1, <3>1, <3>2 DEF EmptyMemory
  <2>2. CASE Active(d) # {}
    <3> DEFINE count == Cardinality(Active(d))
               still == /\ d.memory.status = "current"
                        /\ d.memory.count = count
                        /\ d.memory.through = LastActive(d)
               before == IF Supported(d) THEN d.memory ELSE EmptyMemory
               status == IF still /\ Supported(d) THEN "current" ELSE "stale"
    <3>1. e.memory = [before EXCEPT !.status = status, !.count = count]
      BY <1>2, <2>2 DEF LoadMemory
    <3>2. before \in Memory
      BY <1>1 DEF EmptyMemory, Memory
    <3>3. /\ before.covers = d.memory.covers \/ before.covers = {}
          /\ status = "current" => before = d.memory /\ d.memory.status = "current"
          /\ status \in {"current", "stale"}
      BY DEF EmptyMemory
    <3> HIDE DEF before, status, count
    <3>4. /\ e.memory \in Memory /\ e.memory.count = count /\ e.memory.status = status
          /\ e.memory.covers = before.covers /\ e.memory.beyond = before.beyond
          /\ e.memory.through = before.through
      BY <1>6, <3>1, <3>2, <3>3 DEF Memory, count
    <3> QED BY <2>2, <3>3, <3>4 DEF count, SummaryIsTrue
  <2> QED BY <2>1, <2>2
<1>8. WellFormed(e, next)
  <2>1. e \in Document
    BY <1>2, <1>4, <1>7 DEF Document
  <2>2. \A m, n \in Indexes(d) : m # n => Ids(e.msgs[m].as) \cap Ids(e.msgs[n].as) = {}
    <3>1. \A m \in Indexes(d) : Ids(e.msgs[m].as) \subseteq Ids(d.msgs[m].as)
      BY <1>3 DEF Ids
    <3>2. \A m, n \in Indexes(d) : m # n => Ids(d.msgs[m].as) \cap Ids(d.msgs[n].as) = {}
      BY DEF WellFormed
    <3> QED BY <3>1, <3>2
  <2> QED BY <1>3, <1>4, <2>1, <2>2 DEF WellFormed
<1>9. Counted(e) /\ (SummaryIsTrue(d) => SummaryIsTrue(e))
  BY <1>5, <1>7 DEF Counted, SummaryIsTrue
<1> QED BY <1>3, <1>4, <1>8, <1>9 DEF e

\* The process dies, with or without the persist under way having been made.
LEMMA CrashKeeps ==
  ASSUME RoutingInv, Crash
  PROVE  RoutingInv'
<1>1. PICK d \in {doc, saved} : (d = saved \/ ~Free) /\ doc' = Load(d) /\ saved' = Load(d)
  BY DEF Crash
<1>2. /\ Spend("crash") /\ holder' = Idle /\ routings' = [m \in Slots |-> NoRun]
      /\ compact' = NoCompact /\ queued' = 0
      /\ told' = [told EXCEPT !.stranded = {}, !.cut = @ \cup Indexes(saved) \cup Indexes(doc)]
      /\ UNCHANGED <<fresh, turns>>
  BY DEF Crash
<1>3. Free' /\ saved' = doc'
  BY <1>1, <1>2 DEF Free
<1>4. /\ WellFormed(d, fresh) /\ Counted(d) /\ \A m \in Indexes(d) : Replaced(d.msgs[m])
      /\ Len(d.msgs) \in Nat /\ Len(d.msgs) <= Len(doc.msgs) /\ Len(doc.msgs) \in Nat
  <2>1. WellFormed(d, fresh) /\ Counted(d) /\ \A m \in Indexes(d) : Replaced(d.msgs[m])
    BY DEF RoutingInv, DocumentInv
  <2>2. Len(saved.msgs) \in Nat /\ Len(doc.msgs) \in Nat
    BY SavedPlaces, Places DEF RoutingInv, DocumentInv, WellFormed
  <2>3. Indexes(saved) \subseteq Indexes(doc)
    BY SavedInDoc DEF RoutingInv
  <2> QED BY <2>1, <2>2, <2>3 DEF Indexes
<1>5. /\ WellFormed(doc', fresh) /\ Counted(doc')
           /\ \A m \in Indexes(doc') : Replaced(doc'.msgs[m])
      /\ Indexes(doc') = Indexes(d) /\ Len(doc'.msgs) = Len(d.msgs)
      /\ SummaryIsTrue(d) => SummaryIsTrue(doc')
      /\ \A m \in Indexes(d) : doc'.msgs[m].status # "pending"
      /\ \A m \in Indexes(d) : d.msgs[m].status = "resolved" => doc'.msgs[m] = d.msgs[m]
  BY <1>1, <1>4, Loaded
<1>6. /\ left' \in [Kinds -> Nat]
      /\ left'["send"] = left["send"] /\ left'["edit"] = left["edit"]
  BY <1>2, SpentElsewhere DEF Kinds
<1>7. DocumentInv'
  <2>1. PICK s \in Starts : Len(doc.msgs) + left["send"] + left["edit"] <= Bound(s)
    BY DEF RoutingInv, DocumentInv
  <2>2. left["send"] \in Nat /\ left["edit"] \in Nat
    BY DEF RoutingInv, RoutingShapeInv, Kinds
  <2>3. Len(d.msgs) + left["send"] + left["edit"] <= Bound(s)
    BY <1>4, <2>1, <2>2, BoundIsNumber
  <2>4. \E t \in Starts : Len(doc'.msgs) + left'["send"] + left'["edit"] <= Bound(t)
    BY <1>5, <1>6, <2>3
  <2> QED BY <1>2, <1>3, <1>5, <2>4 DEF RoutingInv, DocumentInv
<1>8. /\ routings' \in [Slots -> Routes] /\ \A m \in Slots : routings'[m].stage = "none"
  BY <1>2 DEF NoRun, Routes, Stages
<1>9. told' \in Told /\ told'.overtaken = told.overtaken /\ Indexes(d) \subseteq told'.cut
  <2>1. told \in Told
    BY DEF RoutingInv, RoutingShapeInv, Told
  <2>2. Indexes(saved) \subseteq Nat /\ Indexes(doc) \subseteq Nat
    BY DEF Indexes
  <2> QED BY <1>2, <2>1, <2>2 DEF Told
<1>10. RoutingShapeInv'
  BY <1>2, <1>6, <1>8, <1>9 DEF RoutingInv, RoutingShapeInv, Told
<1>11. HolderInv'
  BY <1>3 DEF HolderInv
<1>12. RunInv'
  BY <1>8 DEF RunInv, Stage
<1>13. TurnInv'
  <2>1. \A i \in Turned : \E n \in Indexes(d) : d.msgs[n].status = "resolved"
          /\ i \in Ids(d.msgs[n].as)
    <3>1. CASE d = saved
      BY <3>1 DEF RoutingInv, TurnInv
    <3>2. CASE d = doc /\ ~Free
      BY <3>2, TurnedInDoc
    <3> QED BY <1>1, <3>1, <3>2
  <2>2. \A i \in Turned : \E n \in Indexes(doc') : doc'.msgs[n].status = "resolved"
          /\ i \in Ids(doc'.msgs[n].as)
    BY <1>5, <2>1
  <2> QED BY <1>2, <1>3, <2>2 DEF RoutingInv, TurnInv, Turned
<1>14. OwnerInv' /\ DeliveredInv'
  BY <1>3, <1>5, <1>9 DEF OwnerInv, DeliveredInv
<1>15. CompactInv'
  BY <1>2, <1>3 DEF CompactInv, NoCompact
<1>16. SummaryInv'
  BY <1>3, <1>5, <1>9 DEF RoutingInv, SummaryInv
<1> QED BY <1>7, <1>10, <1>11, <1>12, <1>13, <1>14, <1>15, <1>16 DEF RoutingInv

\* The invariant holds of the first states,
LEMMA InitHolds ==
  ASSUME RoutingInit
  PROVE  RoutingInv
<1>1. PICK s \in Starts :
      /\ doc = [msgs |-> s.msgs, memory |-> s.memory]
      /\ saved = [msgs |-> s.msgs, memory |-> s.memory]
      /\ holder = Idle
      /\ routings = [m \in Slots |-> NoRun]
      /\ compact = NoCompact
      /\ queued = 0
      /\ fresh = s.fresh
      /\ turns = s.turns
      /\ left = s.left
      /\ told = [cut |-> {}, stranded |-> {}, undone |-> FALSE, overtaken |-> FALSE]
  BY DEF RoutingInit
<1>2. /\ fresh \in Nat \ {0} /\ left \in [Kinds -> Nat]
      /\ WellFormed(doc, fresh) /\ Counted(doc) /\ SummaryIsTrue(doc)
      /\ \A m \in Indexes(doc) : doc.msgs[m].status # "pending" /\ Replaced(doc.msgs[m])
      /\ turns \in Seq(Nat) /\ IsInjective(turns)
      /\ Turned = UNION {Ids(doc.msgs[m].as) : m \in Indexes(doc)}
  <2>1. Settled(s)
    BY RoutingAssumption
  <2>2. doc.msgs = s.msgs
    BY <1>1
  <2> QED BY <1>1, <2>1, <2>2 DEF Settled, Turned
<1>3. Free /\ doc = saved
  BY <1>1 DEF Free
<1>4. DocumentInv
  <2>1. doc.msgs = s.msgs
    BY <1>1
  <2>2. Len(doc.msgs) + left["send"] + left["edit"] = Bound(s)
    BY <1>1, <2>1 DEF Bound
  <2>3. Bound(s) <= Bound(s)
    BY BoundIsNumber
  <2> QED BY <1>2, <1>3, <2>2, <2>3 DEF DocumentInv
<1>5. routings \in [Slots -> Routes] /\ \A m \in Slots : routings[m].stage = "none"
  BY <1>1 DEF NoRun, Routes, Stages
<1>6. RoutingShapeInv
  BY <1>1, <1>2, <1>5 DEF RoutingShapeInv
<1>7. HolderInv /\ CompactInv
  BY <1>1, <1>3 DEF HolderInv, CompactInv, NoCompact
<1>8. RunInv
  BY <1>5 DEF RunInv, Stage
<1>9. TurnInv
  <2>1. \A m \in Indexes(doc) : doc.msgs[m].status = "resolved" \/ Ids(doc.msgs[m].as) = {}
    BY <1>2, Places DEF WellFormed, Routed, Message, Ids
  <2> QED BY <1>2, <1>3, <2>1 DEF TurnInv
<1>10. OwnerInv
  BY <1>2, <1>3 DEF OwnerInv
<1>11. DeliveredInv
  <2> SUFFICES ASSUME NEW m \in Indexes(saved)
               PROVE  /\ routings[m].stage \in {"none", "deliver"}
                      /\ \A x \in ActiveAssignments(saved.msgs[m]) : x.id \in Turned
    BY DEF DeliveredInv
  <2>1. m \in Slots
    BY <1>3, <1>4, <1>6, SlotsOfMessages
  <2>2. \A x \in ActiveAssignments(saved.msgs[m]) : x.id \in Ids(doc.msgs[m].as)
    BY <1>3 DEF ActiveAssignments, Ids
  <2> QED BY <1>2, <1>3, <1>5, <2>1, <2>2
<1>12. SummaryInv
  BY <1>2, <1>3 DEF SummaryInv
<1> QED BY <1>4, <1>6, <1>7, <1>8, <1>9, <1>10, <1>11, <1>12 DEF RoutingInv

\* of a step in which nothing happens,
LEMMA StutterKeeps ==
  ASSUME RoutingInv, UNCHANGED routingVars
  PROVE  RoutingInv'
<1>1. UNCHANGED <<doc, saved, holder, routings, compact, queued, fresh, turns, left, told>>
  BY DEF routingVars
<1>2. CompactInv'
  BY <1>1 DEF RoutingInv, CompactInv, Free
<1>3. queued' \in Nat /\ told' \in Told
  BY <1>1 DEF RoutingInv, RoutingShapeInv, Told
<1> QED BY <1>1, <1>2, <1>3, CompactKeeps

\* and of every step.
LEMMA StepKeeps ==
  ASSUME RoutingInv, [RoutingNext]_routingVars
  PROVE  RoutingInv'
<1>1. CASE Request
  BY <1>1, SendKeeps, EditKeeps, DeleteKeeps, RerouteKeeps, RetryKeeps,
       ChangeAgentKeeps DEF Request
<1>2. CASE HostStep
  BY <1>2, StartRoutingKeeps, ClassifiedKeeps, NotClassifiedKeeps, InferredKeeps,
       CommitKeeps,
     CommitFailedKeeps, DeliverKeeps, StartCompactKeeps, CompactedKeeps,
          CommitCompactKeeps
     DEF HostStep, RunStep
<1>3. CASE Saved
  BY <1>3, SavedKeeps
<1>4. CASE Rejected
  BY <1>4, RejectedKeeps
<1>5. CASE Crash
  BY <1>5, CrashKeeps
<1>6. CASE UNCHANGED routingVars
  BY <1>6, StutterKeeps
<1> QED BY <1>1, <1>2, <1>3, <1>4, <1>5, <1>6 DEF RoutingNext

-----------------------------------------------------------------------------
(* What the invariant says of the routing.                                 *)

\* The properties of the states follow from it.
LEMMA InvImpliesConsistent ==
  ASSUME RoutingInv
  PROVE  RoutingConsistent /\ AssignmentsAreDelivered /\ CurrentMemoryIsTrue
<1>1. RoutingTypeOK
  BY DEF RoutingInv, RoutingTypeOK, DocumentInv, HolderInv, RunInv, CompactInv, Stage
<1>2. TurnsAreRecorded
  BY DEF RoutingInv, TurnInv, Turned, TurnsAreRecorded
<1>3. CorrectionsReplace
  BY DEF RoutingInv, DocumentInv, CorrectionsReplace
<1>4. PendingHasOwner
  BY DEF RoutingInv, HolderInv, OwnerInv, PendingHasOwner, IsPending, Stage
<1>5. AssignmentsAreDelivered
  BY DEF RoutingInv, HolderInv, DeliveredInv, AssignmentsAreDelivered, Turned, Stage
<1>6. CurrentMemoryIsTrue
  BY DEF RoutingInv, SummaryInv, SummaryIsTrue, CurrentMemoryIsTrue
<1> QED BY <1>1, <1>2, <1>3, <1>4, <1>5, <1>6 DEF RoutingConsistent

\* What DeletionEndsRouting says of a step, and DecidedAgentsAreCurrent.
DeletionStep ==
    \A m \in Indexes(saved) :
      saved.msgs[m].deleted =>
        /\ \/ saved'.msgs[m] = saved.msgs[m]
           \/ saved'.msgs[m] = Failed(saved.msgs[m]) /\ left'["crash"] < left["crash"]
        /\ saved.msgs[m].status = "pending" =>
             \A a \in saved.msgs[m].as : a.id \notin ToSet(turns')

DecisionStep ==
    \A m \in Slots :
      Stage(m, "saving") /\ routings'[m].stage = "deliver" =>
        \A a \in saved'.msgs[m].as : a.agent \notin routings[m].stale

\* A request changes nothing on disk.
LEMMA RequestsWait ==
  ASSUME Request
  PROVE  saved' = saved /\ Free
<1>1. Send => saved' = saved /\ Free
  BY DEF Send, AcceptMessage
<1>2. ASSUME NEW m \in Indexes(doc)
      PROVE  /\ Edit(m) \/ Delete(m) => saved' = saved /\ Free
             /\ \A a \in doc.msgs[m].as, targets \in Chosen : Reroute(m, a, targets)
                  => saved' = saved /\ Free
             /\ \A names \in Named \cup Chosen : Retry(m, names) => saved' = saved /\ Free
  <2>1. Edit(m) \/ Delete(m) => saved' = saved /\ Free
    BY DEF Edit, AcceptMessage, Delete
  <2>2. \A a \in doc.msgs[m].as, targets \in Chosen : Reroute(m, a, targets)
          => saved' = saved /\ Free
    BY DEF Reroute
  <2>3. \A names \in Named \cup Chosen : Retry(m, names) => saved' = saved /\ Free
    BY DEF Retry
  <2> QED BY <2>1, <2>2, <2>3
<1>3. \A a \in Agents : ChangeAgent(a) => saved' = saved /\ Free
  BY DEF ChangeAgent
<1> QED BY <1>1, <1>2, <1>3 DEF Request

\* Only the end of a persist and a restart do.
LEMMA DiskChanges ==
  ASSUME [RoutingNext]_routingVars, saved' # saved
  PROVE  Saved \/ Crash
<1>1. ~Request
  BY RequestsWait
<1>2. ~HostStep
  BY DEF HostStep, RunStep, StartRouting, Classified, NotClassified, Inferred, Commit,
       CommitFailed,
         Deliver, StartCompact, Compacted, CommitCompact
<1>3. ~Rejected
  BY DEF Rejected
<1> QED BY <1>1, <1>2, <1>3 DEF RoutingNext, routingVars

\* A message that is deleted on disk stays as it is, but for the restart that
\* fails it if it was pending, and no turn of a pending one is started.
LEMMA DeletedIsFinal ==
  ASSUME RoutingInv, RoutingInv', [RoutingNext]_routingVars
  PROVE  DeletionStep
<1> SUFFICES ASSUME NEW m \in Indexes(saved), saved.msgs[m].deleted
             PROVE  /\ \/ saved'.msgs[m] = saved.msgs[m]
                       \/ saved'.msgs[m] = Failed(saved.msgs[m])
                            /\ left'["crash"] < left["crash"]
                    /\ saved.msgs[m].status = "pending" =>
                         \A a \in saved.msgs[m].as : a.id \notin ToSet(turns')
  BY DEF DeletionStep
<1> DEFINE old == saved.msgs[m]
<1>1. ~Free => m \in Indexes(doc) /\ doc.msgs[m] = old
  <2>1. ~Free => holder.msg # m
    BY SectionFacts DEF RoutingInv, HolderInv
  <2> QED BY <2>1, SectionFacts DEF RoutingInv, HolderInv
<1>2. \/ saved'.msgs[m] = old
      \/ saved'.msgs[m] = Failed(old) /\ left'["crash"] < left["crash"] /\ turns' = turns
  <2>1. CASE Saved
    BY <1>1, <2>1 DEF Saved
  <2>2. CASE Crash
    <3>1. PICK d \in {doc, saved} : (d = saved \/ ~Free) /\ saved' = Load(d)
      BY <2>2 DEF Crash
    <3>2. m \in Indexes(d) /\ d.msgs[m] = old
      BY <1>1, <3>1
    <3>3. saved'.msgs[m] = IF old.status = "pending" THEN Failed(old) ELSE old
      BY <3>1, <3>2 DEF Load
    <3>4. left'["crash"] < left["crash"]
      <4>1. left["crash"] \in Nat
        BY DEF RoutingInv, RoutingShapeInv, Kinds
      <4>2. left'["crash"] = left["crash"] - 1
        BY <2>2, Spending DEF Crash, RoutingInv, RoutingShapeInv, Kinds
      <4> QED BY <4>1, <4>2
    <3> QED BY <2>2, <3>3, <3>4 DEF Crash
  <2> QED BY <2>1, <2>2, DiskChanges
<1>3. ASSUME old.status = "pending", NEW a \in old.as
      PROVE  a.id \notin Turned'
  <2>1. a.id \in Ids(old.as)
    BY DEF Ids
  <2>2. CASE saved'.msgs[m] = old
    <3> SUFFICES ASSUME a.id \in Turned' PROVE FALSE
      OBVIOUS
    <3>1. PICK n \in Indexes(saved') : saved'.msgs[n].status = "resolved"
            /\ a.id \in Ids(saved'.msgs[n].as)
      BY DEF RoutingInv, TurnInv
    <3>2. m \in Indexes(saved')
      <4>1. CASE saved' = saved
        BY <4>1
      <4>2. CASE Saved
        BY <1>1, <4>2 DEF Saved
      <4>3. CASE Crash
        <5>1. PICK d \in {doc, saved} : (d = saved \/ ~Free) /\ saved' = Load(d)
          BY <4>3 DEF Crash
        <5>2. WellFormed(d, fresh) /\ Counted(d)
                /\ \A x \in Indexes(d) : Replaced(d.msgs[x])
          BY DEF RoutingInv, DocumentInv
        <5>3. Indexes(saved') = Indexes(d)
          BY <5>1, <5>2, Loaded
        <5> QED BY <1>1, <5>1, <5>3
      <4> QED BY <4>1, <4>2, <4>3, DiskChanges
    <3>3. n # m
      BY <1>3, <2>2, <3>1
    <3>4. Ids(saved'.msgs[n].as) \cap Ids(saved'.msgs[m].as) = {}
      BY <3>1, <3>2, <3>3 DEF RoutingInv, DocumentInv, WellFormed
    <3> QED BY <2>1, <2>2, <3>1, <3>4
  <2>3. CASE turns' = turns
    <3> SUFFICES ASSUME a.id \in Turned PROVE FALSE
      BY <2>3 DEF Turned
    <3>1. PICK n \in Indexes(saved) : saved.msgs[n].status = "resolved"
            /\ a.id \in Ids(saved.msgs[n].as)
      BY DEF RoutingInv, TurnInv
    <3>2. Ids(saved.msgs[n].as) \cap Ids(old.as) = {}
      BY <1>3, <3>1 DEF RoutingInv, DocumentInv, WellFormed
    <3> QED BY <2>1, <3>1, <3>2
  <2> QED BY <1>2, <2>2, <2>3
<1> QED BY <1>2, <1>3 DEF Turned

\* A decision that reaches the disk is for no Agent that has changed meanwhile.
LEMMA DecidedIsCurrent ==
  ASSUME RoutingInv, [RoutingNext]_routingVars
  PROVE  DecisionStep
<1> SUFFICES ASSUME NEW m \in Slots, Stage(m, "saving"), routings'[m].stage = "deliver"
             PROVE  \A a \in saved'.msgs[m].as : a.agent \notin routings[m].stale
  BY DEF DecisionStep
<1>1. ~Free /\ holder.msg = m /\ holder.kind \in {"route", "fail"}
  BY DEF RoutingInv, RunInv
<1>2. routings \in [Slots -> Routes] /\ routings[m].stage = "saving"
        /\ routings'[m].stage # routings[m].stage
  BY DEF RoutingInv, RoutingShapeInv, Stage
<1>3. CASE Saved
  <2>1. holder.kind = "route"
    BY <1>1, <1>3, SavedRuns
  <2>2. \A x \in doc.msgs[m].as : x.agent \notin routings[m].stale
    BY <1>1, <2>1, SectionFacts DEF Change
  <2>3. saved' = doc
    BY <1>3 DEF Saved
  <2> QED BY <2>2, <2>3
<1>4. CASE Rejected
  <2>1. routings' = [routings EXCEPT ![m] = RejectedRun(m)]
          \/ routings' = [routings EXCEPT ![m] = NoRun]
    BY <1>1, <1>4 DEF Rejected
  <2>2. RejectedRun(m).stage = "failing" /\ NoRun.stage = "none"
    BY RunShape, StagedRoute, StageNames DEF RejectedRun, NoRun
  <2> QED BY <1>2, <2>1, <2>2
<1>5. CASE Crash
  BY <1>5 DEF Crash, NoRun
<1>6. ~Request
  BY <1>1, RequestsWait
<1>7. CASE HostStep
  <2>1. ASSUME NEW n \in Slots, RunStep(n)
        PROVE  n # m /\ routings'[m] = routings[m]
    <3>1. routings[n].stage # "saving"
      BY <2>1 DEF RunStep, StartRouting, Classified, NotClassified, Inferred, Commit,
           CommitFailed,
                  Deliver, Stage
    <3>2. \E r : routings' = [routings EXCEPT ![n] = r]
      BY <2>1 DEF RunStep, StartRouting, Classified, NotClassified, Inferred, Commit,
           CommitFailed,
                  Deliver, Decide, Become
    <3> QED BY <1>2, <3>1, <3>2
  <2>2. ASSUME StartCompact \/ Compacted \/ CommitCompact
        PROVE  routings' = routings
    BY <2>2 DEF StartCompact, Compacted, CommitCompact
  <2> QED BY <1>2, <1>7, <2>1, <2>2 DEF HostStep
<1>8. CASE UNCHANGED routingVars
  BY <1>2, <1>8 DEF routingVars
<1> QED BY <1>3, <1>4, <1>5, <1>6, <1>7, <1>8 DEF RoutingNext

\* The invariant holds in every state.
THEOREM RoutingInvariant == RoutingSpec => []RoutingInv
<1>1. RoutingInit => RoutingInv
  BY InitHolds
<1>2. RoutingInv /\ [RoutingNext]_routingVars => RoutingInv'
  BY StepKeeps
<1> QED BY <1>1, <1>2, PTL DEF RoutingSpec

\* However many messages, Agents and corrections, and whatever rejects or dies: a
\* turn is started at most once and for an assignment that is on disk; an Agent
\* has at most one active assignment of a message and somebody has one; and
\* whatever is pending has a run, but for the exception that PendingHasOwner names.
THEOREM RoutingTheorem == RoutingSpec => []RoutingConsistent
<1>1. RoutingInv => RoutingConsistent
  BY InvImpliesConsistent
<1> QED BY <1>1, RoutingInvariant, PTL

\* Whatever was resolved has its turns when its run is over, but for messages of
\* before a restart and those corrected while they were pending.
THEOREM DeliveredTheorem == RoutingSpec => []AssignmentsAreDelivered
<1>1. RoutingInv => AssignmentsAreDelivered
  BY InvImpliesConsistent
<1> QED BY <1>1, RoutingInvariant, PTL

\* The routing memory that is shown as current holds corrections in force only, and
\* all of them but those its prompt had no room for: the number of corrections and the
\* last one suffice for compactRoutingMemory to see whether they have changed, but for
\* edits and unsaved corrections.
THEOREM RoutingMemoryTheorem == RoutingSpec => []CurrentMemoryIsTrue
<1>1. RoutingInv => CurrentMemoryIsTrue
  BY InvImpliesConsistent
<1> QED BY <1>1, RoutingInvariant, PTL

\* A decision that arrives late changes nothing: not a message deleted meanwhile,
\* and not for an Agent that has changed.
THEOREM LateDecisionsTheorem == RoutingSpec => LateDecisionsAreDropped
<1>1. RoutingInv /\ RoutingInv' /\ [RoutingNext]_routingVars => [DeletionStep]_routingVars
        /\ [DecisionStep]_routingVars
  BY DeletedIsFinal, DecidedIsCurrent
<1>2. RoutingSpec => [][DeletionStep]_routingVars /\ [][DecisionStep]_routingVars
  BY <1>1, RoutingInvariant, PTL DEF RoutingSpec
<1> QED BY <1>2 DEF LateDecisionsAreDropped, DeletionEndsRouting,
     DecidedAgentsAreCurrent, DeletionStep, DecisionStep

=============================================================================
