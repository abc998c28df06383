----------------------- MODULE IncidentRemediationProofs -----------------------
(***************************************************************************)
(* Proofs about IncidentRemediation for every length of a plan, any steps  *)
(* that can be undone, any limit of attempts and any number of calls, with *)
(* a ledger that may raise or one that does not.                           *)
(*                                                                         *)
(* The argument: the workflow runs the executor of DagExecutor, so what is *)
(* proved of that executor holds of its nodes.  Each writer but a first one*)
(* that needed no gate answers to an approval of its own, and tries each   *)
(* step once.  Of one batch the steps done are the first of the plan, which*)
(* the undo shortens from its end.  With a ledger that does not raise there*)
(* is one batch: once its writer has started, the executor is at the       *)
(* execute node, or past it, or on its way to an end that no call resumes. *)
(***************************************************************************)
EXTENDS IncidentRemediation, SequenceTheorems, FiniteSetTheorems, TLAPS

Gate       == "approval_gate"
AuditEntry == [action : Dag!Action, node : Name]
Approvals  == Dag!Times("gate.approved", Gate)
Clear      == cp["policy_check"] = "clear"
Authorised == Dag!Logged("gate.approved", Gate) \/ Clear
TimedOut   == Dag!Logged("node.timeout", "execute")
Deadline   == \E n \in Name : Dag!Logged("workflow.deadline", n)
Executing  == pc = "running" /\ pos = 9
Passed(n)  == cp[n] # "absent"
Latest     == writers[Len(writers)]

(* What holds of the executor in every workflow, said of this one: types,  *)
(* a walk along the workflow, and a gate that is passed only when it may be*)
ExecutorInv ==
  /\ pc \in {"idle", "loop", "running", "failing", "undo"}
  /\ cp \in Dag!Cp /\ run.checkpoint \in Dag!Cp /\ pos \in 1..13
  /\ audit \in Seq(AuditEntry) /\ auditMayFail \in BOOLEAN
  /\ pc # "idle" /\ pos > 8 => Passed(Gate)
  /\ pc \in {"running", "failing", "undo"} => pos <= 12 /\ ~Passed(Workflow[pos])
  /\ Passed("execute") => Passed(Gate)
  /\ run.checkpoint["execute"] # "absent" => run.checkpoint[Gate] # "absent"
  /\ pc # "idle" /\ pos > 7 => Passed("policy_check")
  /\ Passed(Gate) => Authorised

Typed ==
  /\ writers \in Seq(Writer)
  /\ saga \in {"off", "reverting", "raised", "done"}
  /\ sagaSteps \in Seq(Steps)
  /\ world \in [Steps -> {"untouched", "applied", "undone"}]
  /\ writes \in [Steps -> Nat]
  /\ stuck \subseteq Undoable /\ lost \subseteq Steps
  /\ toUndo \subseteq {"execute"}

(* What a call finds: it is the first one, or it resumes a run that waits  *)
(* at the gate for an approval it needs; before the gate, a writer can only*)
(* be one that an earlier call left.                                       *)
CallerInv ==
  /\ invocations \in Nat /\ (invocations = 0 => writers = <<>> /\ pc = "idle")
  /\ run.status = "NONE" => run.checkpoint[Gate] = "absent"
  /\ run.status = "PAUSED" =>
       /\ run.checkpoint[Gate] = "absent"
       /\ run.checkpoint["policy_check"] \notin {"absent", "clear"}
  /\ pc # "idle" =>
       /\ run.status \in {"NONE", "PAUSED"}
       /\ run.status = "PAUSED" => cp["policy_check"] = run.checkpoint["policy_check"]
       /\ pos <= 8 => ~Passed(Gate) /\ (writers # <<>> => run.status = "PAUSED")
  /\ pc = "running" => pos # 8

(* Each writer but a first one without a gate answers to an approval of its*)
(* own, and so will the one that is about to start.                        *)
ApprovalInv ==
  /\ writers # <<>> =>
       \/ Len(writers) <= Approvals
       \/ Len(writers) = 1 /\ Clear /\ run.status # "PAUSED"
  /\ pc = "loop" /\ pos = 9 /\ ~Passed("execute") =>
       writers = <<>> \/ Len(writers) < Approvals

(* A writer works behind the executor's back only after a timeout.         *)
WriterInv ==
  /\ \A w \in DOMAIN writers : Live(w) => TimedOut \/ (Executing /\ w = Len(writers))
  /\ Executing => writers # <<>>
  /\ Passed("execute") => writers # <<>> /\ Latest.at = "returned"

(* The saga: it runs while the executor undoes, after the writer returned. *)
SagaInv ==
  /\ saga \in {"reverting", "raised"} => pc = "undo" /\ toUndo = {"execute"}
  /\ saga = "raised" => auditMayFail
  /\ saga # "off" => writers # <<>> /\ Latest.at = "returned"
  /\ pc = "undo" /\ toUndo # {} => Passed("execute")
  /\ pc = "undo" /\ Passed("execute") => toUndo = {"execute"} \/ saga = "done"

(* The steps done are the first ones of the plan; what an undo has still to*)
(* visit are the first ones of them, latest first.                         *)
FirstSteps(list)  == \A k \in 1..Len(list) : list[k] = k
LatestFirst(list) == \A k \in 1..Len(list) : list[k] = Len(list) + 1 - k
ListInv ==
  /\ \A w \in DOMAIN writers :
       /\ Len(writers[w].executed) <= PlanLength
       /\ writers[w].at = "returned" => Len(writers[w].executed) = PlanLength
       /\ FirstSteps(writers[w].executed)
       /\ LatestFirst(writers[w].reverting)
  /\ LatestFirst(sagaSteps)

(* The writers that have made, or tried to make, the call of step s.       *)
Tried(w, s) ==
  \/ s <= Len(writers[w].executed)
  \/ writers[w].at \in {"reverting", "raised"} /\ s = Len(writers[w].executed) + 1
CountInv ==
  \A s \in Steps : writes[s] <= Cardinality({w \in DOMAIN writers : Tried(w, s)})

(* A step that was applied, has an undo and is not accounted for; while one*)
(* batch is all there is, what an undo has not visited holds all of them.  *)
Pending(s) == s \in Undoable /\ world[s] = "applied" /\ s \notin stuck \cup lost
BatchInv ==
  /\ writers = <<>> => \A s \in Steps : world[s] = "untouched"
  /\ Len(writers) = 1 => \A s \in Steps :
       /\ world[s] = "applied" /\ s \notin lost => s <= Len(Latest.executed)
       /\ Pending(s) /\ Latest.at = "reverting" => s <= Len(Latest.reverting)
       /\ Pending(s) /\ saga = "reverting" => s <= Len(sagaSteps)

(* With a ledger that does not raise: from the start of a writer on, the   *)
(* execute node is not entered again, so there is one batch, and how a run *)
(* comes to an end it cannot be resumed from.                              *)
Committed ==
  \/ Passed("execute")
  \/ Executing
  \/ pc \in {"failing", "undo"}
  \/ pc = "idle" /\ ~Dag!Resumable
WriterRaised == writers # <<>> /\ Latest.at = "raised"
ReliableInv ==
  ~auditMayFail =>
    /\ lost = {}
    /\ pc = "idle" => run.checkpoint = cp
    /\ Len(writers) <= 1 /\ (writers # <<>> => Committed)
    /\ pc \in {"failing", "undo"} =>
         writers = <<>> \/ WriterRaised \/ TimedOut \/ Passed("execute")
    /\ run.status \in {"FAILED", "COMPENSATED"} =>
         writers = <<>> \/ WriterRaised \/ TimedOut \/ Deadline \/ saga = "done"
    /\ WriterRaised \/ saga = "done" => \A s \in Steps : ~Pending(s)

IInv == /\ Typed /\ CallerInv /\ ApprovalInv /\ WriterInv /\ SagaInv
        /\ ListInv /\ CountInv /\ BatchInv /\ ReliableInv

-----------------------------------------------------------------------------
(* The workflow.                                                           *)

(* Where the nodes stand that this module is about.                        *)
LEMMA WorkflowFacts ==
  /\ Len(Workflow) = 12
  /\ Workflow[7] = "policy_check" /\ Workflow[8] = Gate /\ Workflow[9] = "execute"
  /\ \A p \in 1..12 :
       /\ Workflow[p] \in Name
       /\ Workflow[p] = "policy_check" => p = 7
       /\ Workflow[p] = Gate => p = 8
       /\ Workflow[p] = "execute" => p = 9
  /\ {"policy_check", Gate, "execute"} \subseteq Name
<1>1. DOMAIN Workflow = 1..12 /\ Len(Workflow) = 12
  BY DEF Workflow
<1>2. \A p \in 1..12 : \/ p = 1 \/ p = 2 \/ p = 3 \/ p = 4 \/ p = 5 \/ p = 6
                       \/ p = 7 \/ p = 8 \/ p = 9 \/ p = 10 \/ p = 11 \/ p = 12
  OBVIOUS
<1>3. \A p \in 1..12 : /\ Workflow[p] = "policy_check" => p = 7
                       /\ Workflow[p] = Gate => p = 8
                       /\ Workflow[p] = "execute" => p = 9
  BY <1>2 DEF Workflow, Gate
<1>4. Workflow[7] = "policy_check" /\ Workflow[8] = Gate /\ Workflow[9] = "execute"
  BY DEF Workflow, Gate
<1>5. \A p \in 1..12 : Workflow[p] \in Name
  BY <1>1 DEF Name
<1>6. {"policy_check", Gate, "execute"} \subseteq Name
  <2>1. Workflow[7] \in Name /\ Workflow[8] \in Name /\ Workflow[9] \in Name
    BY <1>5
  <2>2. QED
    BY <1>4, <2>1
<1>7. QED
  BY <1>1, <1>3, <1>4, <1>5, <1>6

LEMMA AtExecuteIsNine ==
  ASSUME ExecutorInv
  PROVE  AtExecute <=> pos = 9
<1>1. pos \in 1..13
  BY DEF ExecutorInv
<1>2. pos <= Len(Workflow) <=> pos \in 1..12
  BY <1>1, WorkflowFacts
<1>3. QED
  BY <1>1, <1>2, WorkflowFacts DEF AtExecute

(* The workflow runs the executor of DagExecutor: what is proved of it for *)
(* every workflow holds of this one.                                       *)
Executor == INSTANCE DagExecutorProofs WITH
  Node        <- Name,
  Order       <- Workflow,
  Deps        <- Previous,
  GateNode    <- {"approval_gate"},
  GateInput   <- [g \in {"approval_gate"} |-> "policy_check"],
  Bodyless    <- {"approval_gate"},
  MaxAttempts <- [n \in Name |-> IF n = "execute" THEN 1 ELSE MaxAttempts],
  Timed       <- Name \ {"policy_check", "approval_gate", "learn", "postmortem"},
  Compensable <- {"execute"},
  HasDeadline <- TRUE,
  NoNode      <- "none"

(* The twelve nodes of build_workflow() and their dependencies are what    *)
(* DagExecutor assumes of a workflow that passed _topo_sort.               *)
LEMMA WorkflowIsValid == Dag!DagAssumption
<1>1. DOMAIN Workflow = 1..12 /\ Len(Workflow) = 12 /\ Workflow \in Seq(Name)
  <2>1. DOMAIN Workflow = 1..12 /\ Len(Workflow) = 12
    BY DEF Workflow
  <2>2. Workflow = [p \in 1..12 |-> Workflow[p]]
    BY <2>1 DEF Workflow
  <2>3. QED
    BY <2>1, <2>2, WorkflowFacts
<1>2. \A p \in 1..12 : \/ p = 1 \/ p = 2 \/ p = 3 \/ p = 4 \/ p = 5 \/ p = 6
                       \/ p = 7 \/ p = 8 \/ p = 9 \/ p = 10 \/ p = 11 \/ p = 12
  OBVIOUS
<1>3. \A p, q \in 1..12 : Workflow[p] = Workflow[q] => p = q
  BY <1>2 DEF Workflow
<1>4. "none" \notin Name
  BY <1>1, <1>2 DEF Workflow, Name
<1>5. \A n \in Name : \E p \in 1..12 : Workflow[p] = n
  BY <1>1 DEF Name
<1>6. Previous \in [Name -> SUBSET Name]
  BY <1>1, WorkflowFacts DEF Previous
<1>7. \A p \in 1..12 : \A d \in Previous[Workflow[p]] :
        \E q \in 1..12 : q < p /\ Workflow[q] = d
  <2>1. SUFFICES ASSUME NEW p \in 1..12, NEW d \in Previous[Workflow[p]]
                 PROVE  \E q \in 1..12 : q < p /\ Workflow[q] = d
    OBVIOUS
  <2>2. PICK q \in 1..12 : q < 12 /\ Workflow[q + 1] = Workflow[p] /\ Workflow[q] = d
    BY <1>1, WorkflowFacts DEF Previous
  <2>3. q + 1 = p
    BY <1>3, <2>2
  <2>4. QED
    BY <2>2, <2>3
<1>8. [n \in Name |-> IF n = "execute" THEN 1 ELSE MaxAttempts] \in [Name -> Nat \ {0}]
  BY RemediationAssumption
<1>9. [g \in {"approval_gate"} |-> "policy_check"] \in [{"approval_gate"} -> Name]
  BY WorkflowFacts
<1>10. QED
  BY <1>1, <1>3, <1>4, <1>5, <1>6, <1>7, <1>8, <1>9, WorkflowFacts, RemediationAssumption
     DEF Dag!DagAssumption, Gate

(* Every step is a step of the executor or leaves it alone.                *)
LEMMA StepIsExecutors == [Next]_vars => [Dag!Next]_(Dag!vars)
<1>1. CASE Call
  BY <1>1 DEF Call, Dag!Next, Dag!Decision
<1>2. CASE OtherNodes
  BY <1>2 DEF OtherNodes, Dag!Next, Dag!Compensate
<1>3. CASE OtherWorkerEnds
  BY <1>3 DEF OtherWorkerEnds, Dag!Next
<1>4. CASE EnterExecute
  BY <1>4 DEF EnterExecute, Dag!Next, Dag!Loop
<1>5. CASE ExecuteSucceeds
  BY <1>5 DEF ExecuteSucceeds, Dag!Next, Dag!Attempt, Dag!Output
<1>6. CASE ExecuteRaises \/ ExecuteTimesOut
  BY <1>6 DEF ExecuteRaises, ExecuteTimesOut, Dag!Next, Dag!Attempt
<1>7. CASE FinishSaga \/ SagaRaises
  BY <1>7, WorkflowFacts DEF FinishSaga, SagaRaises, Dag!Next, Dag!Compensate
<1>8. CASE AbandonedWriterEnds
  BY <1>8, WorkflowFacts DEF AbandonedWriterEnds, Dag!Next
<1>9. CASE \/ StartSaga \/ SagaReverts \/ UNCHANGED vars
           \/ \E w \in DOMAIN writers : Write(w)
  <2>1. UNCHANGED dagVars
    BY <1>9 DEF StartSaga, SagaReverts, Write, CallStep, CallStepRaises, FinishWriting,
       FinishReverting, Revert, vars
  <2>2. QED
    BY <2>1 DEF dagVars, Dag!vars
<1>10. QED
  BY <1>1, <1>2, <1>3, <1>4, <1>5, <1>6, <1>7, <1>8, <1>9 DEF Next, ExecuteNode, Saga

LEMMA SameExecutor ==
  /\ Dag!Init <=> Executor!Init
  /\ [Dag!Next]_(Dag!vars) <=> [Executor!Next]_(Executor!vars)
BY Zenon DEF
   Dag!Next, Dag!Init, Dag!vars, Dag!Decision, Dag!Invoke, Dag!Loop,
   Dag!Attempt, Dag!Compensate, Dag!AbandonedWorkerEnds, Dag!EmptyCp,
   Dag!Resumable, Dag!SkipCompleted, Dag!ExceedDeadline, Dag!PauseAtGate,
   Dag!DenyAtGate, Dag!PassApprovedGate, Dag!EnterUngated, Dag!FinishRun,
   Dag!Output, Dag!Succeed, Dag!RetryTransient, Dag!ExhaustRetries,
   Dag!FailPermanently, Dag!TimeOut, Dag!Escalate, Dag!UndoSucceeds,
   Dag!UndoFails, Dag!UndoRecordFails, Dag!FinishUndo, Dag!Foreground,
   Dag!EndAttempt, Dag!invocationVars, Dag!undoVars, Dag!Current,
   Dag!Completed, Dag!AtNewNode, Dag!Log, Dag!AuditRaises, Dag!ReturnUnless,
   Dag!MustAsk, Dag!Enter, Dag!Escape, Dag!Needed, Dag!Return,
   Dag!OutputsOf, Dag!Record, Dag!IsLast, Dag!Rec, Dag!StartAttempt,
   Dag!Index, Executor!Next, Executor!Init, Executor!vars,
   Executor!Decision, Executor!Invoke, Executor!Loop, Executor!Attempt,
   Executor!Compensate, Executor!AbandonedWorkerEnds, Executor!EmptyCp,
   Executor!Resumable, Executor!SkipCompleted, Executor!ExceedDeadline,
   Executor!PauseAtGate, Executor!DenyAtGate, Executor!PassApprovedGate,
   Executor!EnterUngated, Executor!FinishRun, Executor!Output,
   Executor!Succeed, Executor!RetryTransient, Executor!ExhaustRetries,
   Executor!FailPermanently, Executor!TimeOut, Executor!Escalate,
   Executor!UndoSucceeds, Executor!UndoFails, Executor!UndoRecordFails,
   Executor!FinishUndo, Executor!Foreground, Executor!EndAttempt,
   Executor!invocationVars, Executor!undoVars, Executor!Current,
   Executor!Completed, Executor!AtNewNode, Executor!Log,
   Executor!AuditRaises, Executor!ReturnUnless, Executor!MustAsk,
   Executor!Enter, Executor!Escape, Executor!Needed, Executor!Return,
   Executor!OutputsOf, Executor!Record, Executor!IsLast, Executor!Rec,
   Executor!StartAttempt, Executor!Index

(* A behaviour of the workflow is one of the executor, run on this graph   *)
(* with one attempt of execute: nothing the writer or the saga does takes  *)
(* a step the executor could not take (run_incident_remediation).          *)
THEOREM RunsTheExecutor == Spec => Executor!Spec
<1>1. Init => Dag!Init
  BY DEF Init
<1>2. QED
  BY <1>1, StepIsExecutors, SameExecutor, PTL DEF Spec, Executor!Spec

(* What its inductive invariant says of this workflow.                     *)
LEMMA ExecutorFacts == Executor!IInv => ExecutorInv
<1>1. SUFFICES ASSUME Executor!IInv PROVE ExecutorInv
  OBVIOUS
<1>2. /\ pc \in {"idle", "loop", "running", "failing", "undo"}
      /\ cp \in Dag!Cp /\ run.checkpoint \in Dag!Cp
      /\ pos \in 1..13 /\ auditMayFail \in BOOLEAN
  <2>1. Executor!TypeOK
    BY <1>1 DEF Executor!IInv
  <2>2. /\ pc \in {"idle", "loop", "running", "failing", "undo"}
        /\ auditMayFail \in BOOLEAN /\ pos \in 1..13
    BY <2>1, WorkflowFacts DEF Executor!TypeOK
  <2>3. Executor!Cp = Dag!Cp
    BY DEF Executor!Cp, Executor!Output, Dag!Cp, Dag!Output
  <2>4. run \in Executor!DagRun /\ cp \in Dag!Cp
    BY <2>1, <2>3 DEF Executor!TypeOK
  <2>5. run.checkpoint \in Dag!Cp
    BY <2>3, <2>4 DEF Executor!DagRun
  <2>6. QED
    BY <2>2, <2>4, <2>5
<1>3. audit \in Seq(AuditEntry)
  BY <1>1 DEF Executor!IInv, Executor!TypeOK, AuditEntry, Executor!Action, Dag!Action
<1>4. /\ \A i, j \in 1..12 : i < j /\ cp[Workflow[j]] # "absent" => cp[Workflow[i]] # "absent"
      /\ \A i, j \in 1..12 : i < j /\ run.checkpoint[Workflow[j]] # "absent" =>
           run.checkpoint[Workflow[i]] # "absent"
  BY <1>1, WorkflowFacts DEF Executor!IInv, Executor!PrefixClosed
<1>5. Passed("execute") => Passed(Gate)
  BY <1>4, WorkflowFacts DEF Passed
<1>6. run.checkpoint["execute"] # "absent" => run.checkpoint[Gate] # "absent"
  BY <1>4, WorkflowFacts
<1>7. pc # "idle" => \A i \in 1..12 : i < pos => Passed(Workflow[i])
  BY <1>1, WorkflowFacts DEF Executor!IInv, Executor!Walked, Passed
<1>8. pc # "idle" /\ pos > 8 => Passed(Gate)
  BY <1>2, <1>7, WorkflowFacts
<1>9. pc # "idle" /\ pos > 7 => Passed("policy_check")
  BY <1>2, <1>7, WorkflowFacts
<1>10. pc \in {"running", "failing", "undo"} => pos <= 12 /\ ~Passed(Workflow[pos])
  BY <1>1, WorkflowFacts DEF Executor!IInv, Executor!AtNode, Executor!Current, Passed
<1>11. Passed(Gate) => Authorised
  BY <1>1 DEF Executor!IInv, Executor!GatesPassed, Executor!GatePassed, Executor!Needed,
     Executor!Logged, Executor!Rec, Dag!Logged, Dag!Rec, Passed, Gate, Authorised, Clear
<1>12. QED
  BY <1>2, <1>3, <1>5, <1>6, <1>8, <1>9, <1>10, <1>11 DEF ExecutorInv

LEMMA ExecutorHolds == Spec => []ExecutorInv
<1>1. Executor!DagAssumption
  BY WorkflowIsValid DEF Dag!DagAssumption, Executor!DagAssumption
<1>2. Executor!Spec => []Executor!IInv
  BY <1>1, Executor!Invariance
<1>3. QED
  BY <1>2, RunsTheExecutor, ExecutorFacts, PTL

-----------------------------------------------------------------------------
(* The audit log.                                                          *)

LogGrows ==
  /\ auditMayFail' = auditMayFail
  /\ \A b, m : Dag!Logged(b, m) => Dag!Logged(b, m)'
  /\ Approvals \in Nat /\ Approvals' \in Nat /\ Approvals <= Approvals'

LEMMA SameCardinality == ASSUME NEW S PROVE Dag!Cardinality(S) = Cardinality(S)
BY DEF Dag!Cardinality, Cardinality

LEMMA ApprovalsAreFinite ==
  ASSUME ExecutorInv
  PROVE  /\ IsFiniteSet({i \in DOMAIN audit : audit[i] = Dag!Rec("gate.approved", Gate)})
         /\ Approvals \in Nat
<1> DEFINE at == {i \in DOMAIN audit : audit[i] = Dag!Rec("gate.approved", Gate)}
<1>1. DOMAIN audit = 1..Len(audit) /\ Len(audit) \in Nat
  BY DEF ExecutorInv
<1>2. at \in SUBSET (1..Len(audit)) /\ IsFiniteSet(1..Len(audit))
  BY <1>1, FS_Interval
<1>3. IsFiniteSet(at) /\ Cardinality(at) \in Nat
  BY <1>2, FS_Subset, FS_CardinalityType
<1>4. QED
  BY <1>3, SameCardinality DEF Approvals, Dag!Times

(* A log that begins with the log before has all of its records.           *)
LEMMA LongerLog ==
  ASSUME ExecutorInv, ExecutorInv', auditMayFail' = auditMayFail,
         Len(audit) <= Len(audit'), \A i \in 1..Len(audit) : audit'[i] = audit[i]
  PROVE  LogGrows
<1> DEFINE at == {i \in DOMAIN audit : audit[i] = Dag!Rec("gate.approved", Gate)}
<1> DEFINE after == {i \in DOMAIN audit' : audit'[i] = Dag!Rec("gate.approved", Gate)}
<1>1. /\ DOMAIN audit = 1..Len(audit) /\ Len(audit) \in Nat
      /\ DOMAIN audit' = 1..Len(audit') /\ Len(audit') \in Nat
  BY DEF ExecutorInv
<1>2. \A b, m : Dag!Logged(b, m) => Dag!Logged(b, m)'
  BY <1>1 DEF Dag!Logged, Dag!Rec
<1>3. at \subseteq after
  BY <1>1
<1>4. IsFiniteSet(after) /\ Cardinality(after) \in Nat
  <2>1. after \in SUBSET (1..Len(audit')) /\ IsFiniteSet(1..Len(audit'))
    BY <1>1, FS_Interval
  <2>2. QED
    BY <2>1, FS_Subset, FS_CardinalityType
<1>5. Approvals = Cardinality(at) /\ Approvals' = Cardinality(after)
  BY SameCardinality DEF Approvals, Dag!Times, Dag!Rec
<1> HIDE DEF at, after
<1>6. IsFiniteSet(at) /\ Cardinality(at) <= Cardinality(after)
  BY <1>3, <1>4, FS_Subset
<1>7. Cardinality(at) \in Nat
  BY <1>6, FS_CardinalityType
<1>8. QED
  BY <1>2, <1>4, <1>5, <1>6, <1>7 DEF LogGrows

LEMMA SameLog ==
  ASSUME ExecutorInv, ExecutorInv', UNCHANGED <<audit, auditMayFail>>
  PROVE  LogGrows
<1>1. Len(audit) \in Nat
  BY DEF ExecutorInv
<1>2. QED
  BY <1>1, LongerLog

(* A record that a step appends is in the log after it.                    *)
LEMMA AppendedIsLogged ==
  ASSUME ExecutorInv, ExecutorInv', auditMayFail' = auditMayFail,
         NEW a, NEW n, Dag!Log(a, n)
  PROVE  LogGrows /\ Dag!Logged(a, n)'
<1>1. audit \in Seq(AuditEntry) /\ audit' = Append(audit, Dag!Rec(a, n))
  BY DEF ExecutorInv, Dag!Log
<1>2. /\ Len(audit) \in Nat /\ Len(audit') = Len(audit) + 1
      /\ \A i \in 1..Len(audit) : audit'[i] = audit[i]
      /\ DOMAIN audit' = 1..(Len(audit) + 1)
      /\ audit'[Len(audit) + 1] = Dag!Rec(a, n)
  BY <1>1
<1>3. LogGrows
  BY <1>2, LongerLog
<1>4. Dag!Logged(a, n)'
  BY <1>2 DEF Dag!Logged, Dag!Rec
<1>5. QED
  BY <1>3, <1>4

LEMMA ApprovalIsCounted ==
  ASSUME ExecutorInv, ExecutorInv', Dag!Log("gate.approved", Gate)
  PROVE  Approvals' = Approvals + 1
<1> DEFINE record == Dag!Rec("gate.approved", Gate)
<1> DEFINE at == {i \in DOMAIN audit : audit[i] = record}
<1> DEFINE after == {i \in DOMAIN audit' : audit'[i] = record}
<1>1. audit \in Seq(AuditEntry) /\ audit' = Append(audit, record)
  BY DEF ExecutorInv, Dag!Log
<1>2. /\ Len(audit) \in Nat /\ DOMAIN audit = 1..Len(audit)
      /\ \A i \in 1..Len(audit) : audit'[i] = audit[i]
      /\ DOMAIN audit' = 1..(Len(audit) + 1)
      /\ audit'[Len(audit) + 1] = record
  BY <1>1
<1>3. after = at \cup {Len(audit) + 1} /\ Len(audit) + 1 \notin at
  BY <1>2
<1>4. IsFiniteSet(at)
  BY ApprovalsAreFinite
<1>5. Approvals = Cardinality(at) /\ Approvals' = Cardinality(after)
  BY SameCardinality DEF Approvals, Dag!Times, Dag!Rec
<1> HIDE DEF at, after, record
<1>6. QED
  BY <1>3, <1>4, <1>5, FS_AddElement

-----------------------------------------------------------------------------
(* What a step does to the executor.                                       *)

SameProgress == UNCHANGED <<run, cp, pos, toUndo, invocations>>

(* A call starts; the loop moves past a node that is checkpointed, a gate  *)
(* that may be passed, or a node that has just succeeded.                  *)
Starts ==
  /\ pc = "idle" /\ Dag!Resumable /\ pc' = "loop" /\ invocations' = invocations + 1
  /\ cp' = run.checkpoint /\ pos' = 1 /\ toUndo' = {} /\ UNCHANGED run
Advances ==
  /\ pc' = "loop" /\ pos \in 1..12 /\ pos' = pos + 1 /\ UNCHANGED <<run, toUndo, invocations>>
Skips ==
  Advances /\ pc = "loop" /\ Passed(Workflow[pos]) /\ UNCHANGED cp
PassesGate ==
  /\ Advances /\ pc = "loop" /\ pos = 8 /\ ~Passed(Gate)
  /\ cp' = [cp EXCEPT ![Gate] = "passed"]
  /\ Approvals' = Approvals + 1 \/ Clear
Succeeds ==
  /\ Advances /\ pc = "running"
  /\ \E output \in Dag!Output \ {"absent"} : cp' = [cp EXCEPT ![Workflow[pos]] = output]

(* The current node starts, is attempted again, or fails the run.          *)
Enters ==
  /\ pc = "loop" /\ pc' = "running" /\ SameProgress
  /\ pos \in 1..12 /\ pos # 8 /\ ~Passed(Workflow[pos])
Retries == pc = "running" /\ pc' = "running" /\ SameProgress
Fails   == pc = "running" /\ pc' = "failing" /\ SameProgress
Undoes ==
  /\ pc = "failing" /\ pc' = "undo"
  /\ toUndo' = {n \in {"execute"} : Passed(n)} /\ UNCHANGED <<run, cp, pos, invocations>>

(* The call returns a DagRun, from the loop or after the undo handlers, or *)
(* an exception of the ledger leaves it.                                   *)
Returns(statuses) ==
  /\ pc' = "idle" /\ run'.checkpoint = cp /\ run'.status \in statuses
  /\ UNCHANGED <<cp, pos, toUndo, invocations>>
LoopReturns ==
  /\ pc = "loop"
  /\ \/ Returns({"SUCCEEDED"})
     \/ Returns({"PAUSED"}) /\ pos = 8 /\ ~Passed(Gate) /\ ~Clear
     \/ Returns({"FAILED"}) /\ (Deadline' \/ (pos = 8 /\ ~Passed(Gate)))
UndoReturns == pc = "undo" /\ toUndo = {} /\ Returns({"FAILED", "COMPENSATED"})
Escapes == auditMayFail /\ pc \in {"loop", "failing"} /\ pc' = "idle" /\ SameProgress

(* Returning hands over the checkpoint; an exception, nothing.             *)
LEMMA ReturnHandsOver ==
  ASSUME NEW status, NEW g, Dag!Return(status, g), UNCHANGED <<cp, pos, toUndo, invocations>>
  PROVE  Returns({status})
BY DEF Dag!Return, Returns

LEMMA LoopEnds ==
  ASSUME NEW status, NEW g, pc = "loop", UNCHANGED <<cp, pos, toUndo, invocations>>,
         \E raises \in Dag!AuditRaises : Dag!ReturnUnless(raises, status, g)
  PROVE  Returns({status}) \/ Escapes
<1>1. CASE Dag!Return(status, g)
  BY <1>1, ReturnHandsOver
<1>2. CASE Dag!Escape /\ auditMayFail
  BY <1>2 DEF Dag!Escape, Escapes, SameProgress
<1>3. QED
  BY <1>1, <1>2 DEF Dag!ReturnUnless, Dag!AuditRaises

(* A turn of the for loop.                                                 *)
LEMMA LoopKinds ==
  ASSUME ExecutorInv, ExecutorInv', Dag!Loop
  PROVE  /\ LogGrows
         /\ Skips \/ PassesGate \/ Enters \/ LoopReturns \/ Escapes
<1>0. pos \in 1..13
  BY DEF ExecutorInv
<1>1. Dag!AtNewNode => /\ pc = "loop" /\ pos \in 1..12 /\ Dag!Current = Workflow[pos]
                       /\ Dag!Current \in Name /\ ~Passed(Workflow[pos])
  <2> SUFFICES ASSUME Dag!AtNewNode
               PROVE  /\ pc = "loop" /\ pos \in 1..12 /\ Dag!Current = Workflow[pos]
                      /\ Dag!Current \in Name /\ ~Passed(Workflow[pos])
    OBVIOUS
  <2>1. pc = "loop" /\ pos \in 1..12 /\ Dag!Current = Workflow[pos]
    BY <1>0, WorkflowFacts DEF Dag!AtNewNode, Dag!Current
  <2>2. Dag!Current \in Name /\ Dag!Current \notin Dag!Completed(cp)
    BY <2>1, WorkflowFacts DEF Dag!AtNewNode
  <2>3. QED
    BY <2>1, <2>2 DEF Dag!Completed, Passed
<1>2. Dag!AtNewNode /\ Dag!Current \in {"approval_gate"} =>
        pos = 8 /\ Dag!Current = Gate /\ ~Passed(Gate)
  BY <1>1, WorkflowFacts DEF Gate
<1>3. CASE Dag!SkipCompleted
  <2>1. /\ pc = "loop" /\ pos \in 1..12 /\ Dag!Current = Workflow[pos]
        /\ Dag!Current \in Dag!Completed(cp) /\ pos' = pos + 1
        /\ UNCHANGED <<run, pc, cp, audit, toUndo, invocations, auditMayFail>>
    BY <1>0, <1>3, WorkflowFacts
    DEF Dag!SkipCompleted, Dag!Current, Dag!invocationVars, Dag!undoVars
  <2>2. Passed(Workflow[pos])
    BY <2>1 DEF Dag!Completed, Passed
  <2>3. QED
    BY <2>1, <2>2, SameLog DEF Skips, Advances
<1>4. CASE Dag!ExceedDeadline
  <2>1. /\ Dag!AtNewNode /\ Dag!Log("workflow.deadline", Dag!Current)
        /\ \E raises \in Dag!AuditRaises : Dag!ReturnUnless(raises, "FAILED", "none")
        /\ UNCHANGED <<cp, pos, toUndo, invocations, auditMayFail>>
    BY <1>4 DEF Dag!ExceedDeadline, Dag!invocationVars, Dag!undoVars
  <2>2. LogGrows /\ Dag!Logged("workflow.deadline", Dag!Current)'
    <3>1. PICK n \in Name : n = Dag!Current
      BY <1>1, <2>1
    <3>2. LogGrows /\ Dag!Logged("workflow.deadline", n)'
      BY <2>1, <3>1, AppendedIsLogged
    <3>3. Dag!Current' = Dag!Current
      BY <2>1 DEF Dag!Current
    <3>4. QED
      BY <3>1, <3>2, <3>3
  <2>3. Deadline'
    <3>1. Dag!Current' \in Name
      BY <1>1, <2>1 DEF Dag!Current
    <3>2. QED
      BY <2>2, <3>1 DEF Deadline
  <2>4. Returns({"FAILED"}) \/ Escapes
    BY <1>1, <2>1, LoopEnds
  <2>5. QED
    BY <1>1, <2>1, <2>2, <2>3, <2>4 DEF LoopReturns
<1>5. CASE Dag!PauseAtGate
  <2>1. /\ Dag!AtNewNode /\ Dag!Log("gate.paused", Dag!Current)
        /\ Dag!Current \in {"approval_gate"} /\ Dag!Needed(Dag!Current, cp)
        /\ \E raises \in Dag!AuditRaises : Dag!ReturnUnless(raises, "PAUSED", Dag!Current)
        /\ UNCHANGED <<cp, pos, toUndo, invocations, auditMayFail>>
    BY <1>5 DEF Dag!PauseAtGate, Dag!MustAsk, Dag!invocationVars, Dag!undoVars
  <2>2. pos = 8 /\ ~Passed(Gate) /\ ~Clear /\ pc = "loop"
    BY <1>1, <1>2, <2>1 DEF Dag!Needed, Clear, Gate
  <2>3. LogGrows
    BY <2>1, AppendedIsLogged
  <2>4. Returns({"PAUSED"}) \/ Escapes
    BY <2>1, <2>2, LoopEnds
  <2>5. QED
    BY <2>2, <2>3, <2>4 DEF LoopReturns
<1>6. CASE Dag!DenyAtGate
  <2>1. /\ Dag!AtNewNode /\ Dag!Log("gate.denied", Dag!Current)
        /\ Dag!Current \in {"approval_gate"}
        /\ \E raises \in Dag!AuditRaises : Dag!ReturnUnless(raises, "FAILED", "none")
        /\ UNCHANGED <<cp, pos, toUndo, invocations, auditMayFail>>
    BY <1>6 DEF Dag!DenyAtGate, Dag!MustAsk, Dag!invocationVars, Dag!undoVars
  <2>2. pos = 8 /\ ~Passed(Gate) /\ pc = "loop"
    BY <1>1, <1>2, <2>1
  <2>3. LogGrows
    BY <2>1, AppendedIsLogged
  <2>4. Returns({"FAILED"}) \/ Escapes
    BY <2>1, <2>2, LoopEnds
  <2>5. QED
    BY <2>2, <2>3, <2>4 DEF LoopReturns
<1>7. CASE Dag!PassApprovedGate
  <2>1. /\ Dag!AtNewNode /\ pos = 8 /\ Dag!Current = Gate /\ ~Passed(Gate)
        /\ Dag!Log("gate.approved", Gate)
        /\ UNCHANGED <<toUndo, invocations, auditMayFail>>
    BY <1>2, <1>7 DEF Dag!PassApprovedGate, Dag!MustAsk, Dag!invocationVars, Dag!undoVars
  <2>2. LogGrows /\ Approvals' = Approvals + 1 /\ pc = "loop"
    BY <1>1, <2>1, AppendedIsLogged, ApprovalIsCounted
  <2>3. CASE Dag!Enter(Gate) /\ UNCHANGED run
    <3>1. Dag!Record(Gate, "passed")
      BY <2>3 DEF Dag!Enter, Gate
    <3>2. QED
      BY <2>1, <2>2, <2>3, <3>1 DEF PassesGate, Advances, Dag!Record
  <2>4. CASE auditMayFail /\ Dag!Escape /\ UNCHANGED <<cp, pos>>
    BY <2>1, <2>2, <2>4 DEF Escapes, Dag!Escape, SameProgress
  <2>5. QED
    BY <1>7, <2>1, <2>3, <2>4 DEF Dag!PassApprovedGate
<1>8. CASE Dag!EnterUngated
  <2>1. Dag!AtNewNode /\ UNCHANGED <<run, audit, auditMayFail, toUndo, invocations>>
        /\ pc = "loop" /\ pos \in 1..12 /\ ~Passed(Workflow[pos])
    BY <1>1, <1>8 DEF Dag!EnterUngated, Dag!invocationVars, Dag!undoVars
  <2>2. LogGrows
    BY <2>1, SameLog
  <2>3. CASE pos = 8
    <3>1. Dag!Current = Gate /\ ~Dag!Needed(Gate, cp) /\ Dag!Record(Gate, "passed")
      BY <1>1, <1>8, <2>1, <2>3, WorkflowFacts DEF Dag!EnterUngated, Dag!Enter, Gate
    <3>2. Clear /\ ~Passed(Gate)
      BY <2>1, <2>3, <3>1, WorkflowFacts DEF Dag!Needed, Gate, Clear
    <3>3. QED
      BY <2>1, <2>2, <2>3, <3>1, <3>2 DEF PassesGate, Advances, Dag!Record
  <2>4. CASE pos # 8
    <3>1. Dag!Current \notin {"approval_gate"}
      BY <1>2, <2>1, <2>4
    <3>2. pc' = "running" /\ SameProgress
      BY <1>8, <2>1, <3>1 DEF Dag!EnterUngated, Dag!Enter, SameProgress
    <3>3. QED
      BY <2>1, <2>2, <2>4, <3>2 DEF Enters
  <2>5. QED
    BY <2>3, <2>4
<1>9. CASE Dag!FinishRun
  <2>1. Returns({"SUCCEEDED"}) /\ pc = "loop" /\ UNCHANGED <<audit, auditMayFail>>
    BY <1>9, ReturnHandsOver DEF Dag!FinishRun, Dag!invocationVars, Dag!undoVars
  <2>2. QED
    BY <2>1, SameLog DEF LoopReturns
<1>10. QED
  BY <1>3, <1>4, <1>5, <1>6, <1>7, <1>8, <1>9 DEF Dag!Loop

-----------------------------------------------------------------------------
(* The steps of the executor that leave the world alone.                   *)

Waits == UNCHANGED pc /\ SameProgress
Move ==
  /\ UNCHANGED worldVars /\ LogGrows
  /\ \/ Starts \/ Skips \/ PassesGate \/ LoopReturns \/ Escapes \/ Undoes \/ UndoReturns
     \/ Retries \/ Waits
     \/ Enters /\ pos # 9
     \/ Succeeds /\ (pos = 9 => Latest.at = "returned")
     \/ Fails /\ (pos = 9 => \/ Latest.at = "raised"
                             \/ TimedOut'
                             \/ (auditMayFail /\ Latest.at = "returned"))

(* The current node's body ends, or is attempted again.                    *)
LEMMA AttemptKinds ==
  ASSUME ExecutorInv, ExecutorInv', Dag!Attempt
  PROVE  /\ LogGrows
         /\ Succeeds \/ Retries \/ Fails
         /\ Dag!TimeOut => Fails /\ (pos = 9 => TimedOut')
         /\ (\E output \in Dag!Output : Dag!Succeed(output)) =>
              Succeeds \/ (Fails /\ auditMayFail)
         /\ Dag!ExhaustRetries \/ Dag!FailPermanently => Fails
<1>1. pc = "running" /\ auditMayFail' = auditMayFail
  BY DEF Dag!Attempt, Dag!Succeed, Dag!RetryTransient, Dag!ExhaustRetries,
     Dag!FailPermanently, Dag!TimeOut, Dag!invocationVars
<1>2. pos \in 1..12 /\ Dag!Current = Workflow[pos] /\ Dag!Current \in Name
  <2>1. pos \in 1..12
    BY <1>1 DEF ExecutorInv
  <2>2. QED
    BY <2>1, WorkflowFacts DEF Dag!Current
<1>3. ASSUME NEW output \in Dag!Output, Dag!Succeed(output)
      PROVE  (Succeeds \/ (Fails /\ auditMayFail)) /\ LogGrows
  <2>1. /\ output \in {"clear", "risky", "plain"}
        /\ Dag!Log("node.succeeded", Dag!Current)
        /\ UNCHANGED <<run, toUndo, invocations>>
    BY <1>3 DEF Dag!Succeed, Dag!OutputsOf, Dag!invocationVars, Dag!undoVars
  <2>2. LogGrows
    BY <1>1, <2>1, AppendedIsLogged
  <2>3. output \in Dag!Output \ {"absent"}
    BY <2>1 DEF Dag!Output
  <2>4. CASE Dag!Record(Dag!Current, output)
    BY <1>1, <1>2, <2>1, <2>2, <2>3, <2>4 DEF Succeeds, Advances, Dag!Record
  <2>5. CASE auditMayFail /\ pc' = "failing" /\ UNCHANGED <<cp, pos>>
    BY <1>1, <2>1, <2>2, <2>5 DEF Fails, SameProgress
  <2>6. QED
    BY <1>3, <2>4, <2>5 DEF Dag!Succeed
<1>4. Dag!RetryTransient => (Retries \/ Fails) /\ LogGrows
  <2>1. SUFFICES ASSUME Dag!RetryTransient PROVE (Retries \/ Fails) /\ LogGrows
    OBVIOUS
  <2>2. Dag!Log("node.retry", Dag!Current) /\ pc' \in {pc, "failing"} /\ SameProgress
    BY <2>1 DEF Dag!RetryTransient, Dag!invocationVars, Dag!undoVars, SameProgress
  <2>3. LogGrows
    BY <1>1, <2>2, AppendedIsLogged
  <2>4. QED
    BY <1>1, <2>2, <2>3 DEF Retries, Fails
<1>5. Dag!ExhaustRetries \/ Dag!FailPermanently => Fails /\ LogGrows
  <2>1. SUFFICES ASSUME Dag!ExhaustRetries \/ Dag!FailPermanently PROVE Fails /\ LogGrows
    OBVIOUS
  <2>2. pc' = "failing" /\ SameProgress /\ UNCHANGED <<audit, auditMayFail>>
    BY <2>1 DEF Dag!ExhaustRetries, Dag!FailPermanently, Dag!invocationVars, Dag!undoVars,
       SameProgress
  <2>3. QED
    BY <1>1, <2>2, SameLog DEF Fails
<1>6. Dag!TimeOut => Fails /\ LogGrows /\ (pos = 9 => TimedOut')
  <2>1. SUFFICES ASSUME Dag!TimeOut PROVE Fails /\ LogGrows /\ (pos = 9 => TimedOut')
    OBVIOUS
  <2>2. Dag!Log("node.timeout", Dag!Current) /\ pc' = "failing" /\ SameProgress
    BY <2>1 DEF Dag!TimeOut, Dag!invocationVars, Dag!undoVars, SameProgress
  <2>3. LogGrows
    BY <1>1, <2>2, AppendedIsLogged
  <2>4. pos = 9 => TimedOut'
    <3>1. SUFFICES ASSUME pos = 9 PROVE TimedOut'
      OBVIOUS
    <3>2. Dag!Log("node.timeout", "execute")
      BY <1>2, <2>2, <3>1, WorkflowFacts
    <3>3. QED
      BY <1>1, <3>2, AppendedIsLogged DEF TimedOut
  <2>5. QED
    BY <1>1, <2>2, <2>3, <2>4 DEF Fails
<1>7. QED
  BY <1>3, <1>4, <1>5, <1>6 DEF Dag!Attempt

(* Whatever the executor does besides entering the execute node is a move, *)
(* and so is the end of an abandoned thread.                               *)
LEMMA MoveKinds ==
  ASSUME ExecutorInv, ExecutorInv',
         \/ Call \/ OtherNodes \/ OtherWorkerEnds \/ AbandonedWriterEnds
         \/ ExecuteSucceeds \/ ExecuteRaises \/ ExecuteTimesOut
  PROVE  Move
<1>0. pos \in 1..13 /\ (AtExecute <=> pos = 9)
  BY AtExecuteIsNine DEF ExecutorInv
<1>1. CASE Call
  <2>1. Starts /\ UNCHANGED <<audit, auditMayFail, worldVars>>
    BY <1>1 DEF Call, Dag!Invoke, Starts
  <2>2. QED
    BY <2>1, SameLog DEF Move
<1>2. CASE OtherNodes
  <2>1. UNCHANGED worldVars
    BY <1>2 DEF OtherNodes
  <2>2. CASE Dag!Loop /\ (AtExecute => pc' # "running")
    BY <1>0, <2>1, <2>2, LoopKinds DEF Move, Enters
  <2>3. CASE ~AtExecute /\ Dag!Attempt
    BY <1>0, <2>1, <2>3, AttemptKinds DEF Move
  <2>4. CASE Dag!Escalate
    <3>1. /\ pc = "failing" /\ Dag!Log("node.failed", Dag!Current)
          /\ UNCHANGED <<cp, pos, invocations, auditMayFail>>
      BY <2>4 DEF Dag!Escalate, Dag!invocationVars
    <3>2. LogGrows
      BY <3>1, AppendedIsLogged
    <3>3. CASE /\ pc' = "undo" /\ toUndo' = Dag!Completed(cp) \cap {"execute"}
               /\ UNCHANGED run
      <4>1. toUndo' = {n \in {"execute"} : Passed(n)}
        BY <3>3, WorkflowFacts DEF Dag!Completed, Passed
      <4>2. QED
        BY <2>1, <3>1, <3>2, <3>3, <4>1 DEF Move, Undoes
    <3>4. CASE auditMayFail /\ Dag!Escape /\ UNCHANGED toUndo
      <4>1. Escapes
        BY <3>1, <3>4 DEF Escapes, Dag!Escape, SameProgress
      <4>2. QED
        BY <2>1, <3>2, <4>1 DEF Move
    <3>5. QED
      BY <2>4, <3>3, <3>4 DEF Dag!Escalate
  <2>5. CASE Dag!FinishUndo
    <3>1. /\ pc = "undo" /\ toUndo = {}
          /\ Returns({IF compensated # <<>> THEN "COMPENSATED" ELSE "FAILED"})
          /\ UNCHANGED <<audit, auditMayFail>>
      BY <2>5, ReturnHandsOver DEF Dag!FinishUndo, Dag!invocationVars, Dag!undoVars
    <3>2. UndoReturns
      BY <3>1 DEF UndoReturns, Returns
    <3>3. QED
      BY <2>1, <3>1, <3>2, SameLog DEF Move
  <2>6. QED
    BY <1>2, <2>2, <2>3, <2>4, <2>5 DEF OtherNodes
<1>3. CASE OtherWorkerEnds \/ AbandonedWriterEnds
  <2>1. Waits /\ UNCHANGED <<audit, auditMayFail, worldVars>>
    BY <1>3 DEF OtherWorkerEnds, AbandonedWriterEnds, Dag!AbandonedWorkerEnds, Waits,
       SameProgress, Dag!invocationVars, Dag!undoVars
  <2>2. QED
    BY <2>1, SameLog DEF Move
<1>4. CASE ExecuteSucceeds
  <2>1. Dag!Succeed("plain") /\ "plain" \in Dag!Output /\ Latest.at = "returned"
        /\ UNCHANGED worldVars
    BY <1>4 DEF ExecuteSucceeds, Dag!Output, Last, Latest
  <2>2. (Succeeds \/ (Fails /\ auditMayFail)) /\ LogGrows
    BY <2>1, AttemptKinds DEF Dag!Attempt
  <2>3. QED
    BY <2>1, <2>2 DEF Move
<1>5. CASE ExecuteRaises
  <2>1. (Dag!ExhaustRetries \/ Dag!FailPermanently) /\ Latest.at = "raised"
        /\ UNCHANGED worldVars
    BY <1>5 DEF ExecuteRaises, Last, Latest
  <2>2. Fails /\ LogGrows
    BY <2>1, AttemptKinds DEF Dag!Attempt
  <2>3. QED
    BY <2>1, <2>2 DEF Move
<1>6. CASE ExecuteTimesOut
  <2>1. Dag!TimeOut /\ pos = 9 /\ UNCHANGED worldVars
    BY <1>0, <1>6 DEF ExecuteTimesOut
  <2>2. Fails /\ LogGrows /\ TimedOut'
    BY <2>1, AttemptKinds DEF Dag!Attempt
  <2>3. QED
    BY <2>1, <2>2 DEF Move
<1>7. QED
  BY <1>1, <1>2, <1>3, <1>4, <1>5, <1>6

-----------------------------------------------------------------------------
(* The moves keep the invariant.                                           *)

LEMMA MoveKeepsLog ==
  ASSUME LogGrows
  PROVE  /\ TimedOut => TimedOut'
         /\ Deadline => Deadline'
         /\ Approvals \in Nat /\ Approvals' \in Nat /\ Approvals <= Approvals'
         /\ auditMayFail' = auditMayFail
BY DEF LogGrows, TimedOut, Deadline

(* What is checkpointed stays during a call, and is added node by node.    *)
LEMMA MoveCheckpoint ==
  ASSUME ExecutorInv, Move
  PROVE  /\ Starts \/ \A n \in Name : Passed(n) => Passed(n)' /\ cp'[n] = cp[n]
         /\ Starts \/ \A n \in Name : Passed(n)' => \/ Passed(n)
                                                    \/ PassesGate /\ n = Gate
                                                    \/ Succeeds /\ n = Workflow[pos]
         /\ Succeeds => cp'[Workflow[pos]] # "absent"
<1>0. cp \in [Name -> Dag!Output] /\ Gate \in Name
  BY WorkflowFacts DEF ExecutorInv, Dag!Cp
<1>1. CASE UNCHANGED cp /\ ~Succeeds
  BY <1>1 DEF Passed
<1>2. CASE PassesGate
  <2>1. cp' = [cp EXCEPT ![Gate] = "passed"] /\ ~Passed(Gate) /\ ~Succeeds
    BY <1>2 DEF PassesGate, Succeeds
  <2>2. \A n \in Name \ {Gate} : cp'[n] = cp[n]
    BY <1>0, <2>1
  <2>3. QED
    BY <1>2, <2>1, <2>2 DEF Passed
<1>3. CASE Succeeds
  <2>1. PICK output \in Dag!Output \ {"absent"} : cp' = [cp EXCEPT ![Workflow[pos]] = output]
    BY <1>3 DEF Succeeds
  <2>2. pos \in 1..12 /\ Workflow[pos] \in Name /\ ~Passed(Workflow[pos])
    BY <1>3, WorkflowFacts DEF Succeeds, Advances, ExecutorInv
  <2>3. cp'[Workflow[pos]] # "absent" /\ \A n \in Name \ {Workflow[pos]} : cp'[n] = cp[n]
    BY <1>0, <2>1, <2>2
  <2>4. QED
    BY <1>3, <2>2, <2>3 DEF Passed
<1>4. CASE Starts
  BY <1>4 DEF Starts, Succeeds
<1>5. QED
  BY <1>1, <1>2, <1>3, <1>4 DEF Move, Skips, LoopReturns, Escapes, Undoes, UndoReturns,
     Retries, Waits, Enters, Fails, Returns, SameProgress

LEMMA MoveTyped == ASSUME Typed, Move PROVE Typed'
<1>1. toUndo' \subseteq {"execute"}
  <2>1. toUndo \subseteq {"execute"}
    BY DEF Typed
  <2>2. QED
    BY <2>1 DEF Move, Starts, Undoes, Skips, PassesGate, Succeeds, Advances, LoopReturns,
       UndoReturns, Returns, Retries, Waits, Enters, Fails, Escapes, SameProgress
<1>2. QED
  BY <1>1 DEF Typed, Move, worldVars

LEMMA MoveCallerInv ==
  ASSUME ExecutorInv, ExecutorInv', CallerInv, Move
  PROVE  CallerInv'
<1>0. /\ UNCHANGED writers /\ {"policy_check", Gate, "execute"} \subseteq Name
      /\ pos \in 1..13 /\ Gate # "policy_check" /\ Workflow[7] = "policy_check"
  BY WorkflowFacts DEF Move, worldVars, ExecutorInv, Gate
<1>1. CASE Starts
  <2>1. /\ pc' = "loop" /\ pos' = 1 /\ cp' = run.checkpoint /\ run' = run
        /\ invocations' = invocations + 1 /\ invocations \in Nat
        /\ run.status = "PAUSED" \/ (run.status = "NONE" /\ writers = <<>>)
        /\ run.checkpoint[Gate] = "absent"
    BY <1>1 DEF Starts, Dag!Resumable, CallerInv
  <2>2. invocations' \in Nat /\ invocations' # 0
    BY <2>1
  <2>3. QED
    BY <1>0, <2>1, <2>2 DEF CallerInv, Passed
<1>2. CASE Skips
  <2>1. /\ pc = "loop" /\ pc' = "loop" /\ pos' = pos + 1 /\ UNCHANGED <<run, cp, invocations>>
        /\ pos \in 1..12
    BY <1>2 DEF Skips, Advances
  <2>2. pos' <= 8 => pos <= 8
    BY <2>1
  <2>3. QED
    BY <1>0, <2>1, <2>2 DEF CallerInv, Passed
<1>3. CASE PassesGate
  <2>1. /\ pc = "loop" /\ pc' = "loop" /\ pos' = 9 /\ UNCHANGED <<run, invocations>>
        /\ cp'["policy_check"] = cp["policy_check"]
    <3>1. cp' = [cp EXCEPT ![Gate] = "passed"] /\ cp \in [Name -> Dag!Output]
      BY <1>3 DEF PassesGate, ExecutorInv, Dag!Cp
    <3>2. QED
      BY <1>0, <1>3, <3>1 DEF PassesGate, Advances
  <2>2. QED
    BY <1>0, <2>1 DEF CallerInv
<1>4. CASE Succeeds
  <2>1. /\ pc = "running" /\ pc' = "loop" /\ pos \in 1..12 /\ pos' = pos + 1 /\ pos # 8
        /\ UNCHANGED <<run, invocations>>
    BY <1>4 DEF Succeeds, Advances, CallerInv
  <2>2. ~Starts
    BY <2>1 DEF Starts
  <2>3. run.status = "PAUSED" => cp'["policy_check"] = run.checkpoint["policy_check"]
    <3>1. run.status = "PAUSED" => /\ cp["policy_check"] = run.checkpoint["policy_check"]
                                   /\ Passed("policy_check")
      BY <2>1 DEF CallerInv, Passed
    <3>2. QED
      BY <1>0, <2>2, <3>1, MoveCheckpoint
  <2>4. pos' <= 8 => ~Passed(Gate)'
    <3>1. pos' <= 8 => pos <= 8 /\ pos # 8 /\ Workflow[pos] # Gate /\ ~Passed(Gate)
      BY <1>0, <2>1, WorkflowFacts DEF CallerInv
    <3>2. ~PassesGate
      BY <2>1 DEF PassesGate
    <3>3. QED
      BY <1>0, <2>2, <3>1, <3>2, MoveCheckpoint
  <2>5. QED
    BY <1>0, <2>1, <2>3, <2>4 DEF CallerInv
<1>5. CASE LoopReturns
  <2>1. /\ pc = "loop" /\ pc' = "idle" /\ run'.checkpoint = cp
        /\ run'.status \in {"SUCCEEDED", "PAUSED", "FAILED"}
        /\ run'.status = "PAUSED" => pos = 8 /\ ~Passed(Gate) /\ ~Clear
        /\ UNCHANGED invocations
    BY <1>5 DEF LoopReturns, Returns
  <2>2. run'.status = "PAUSED" => cp["policy_check"] \notin {"absent", "clear"}
    BY <2>1 DEF ExecutorInv, Passed, Clear
  <2>3. QED
    BY <1>0, <2>1, <2>2 DEF CallerInv, Passed
<1>6. CASE UndoReturns
  BY <1>0, <1>6 DEF UndoReturns, Returns, CallerInv
<1>7. CASE Escapes
  BY <1>0, <1>7 DEF Escapes, SameProgress, CallerInv
<1>8. CASE Undoes \/ Retries \/ Waits \/ Enters \/ Fails
  <2>1. /\ UNCHANGED <<run, cp, pos, invocations>>
        /\ pc' = "idle" <=> pc = "idle"
        /\ pc' = "running" => pos # 8
    BY <1>8 DEF Undoes, Retries, Waits, Enters, Fails, SameProgress, CallerInv
  <2>2. QED
    BY <1>0, <2>1 DEF CallerInv, Passed
<1>9. QED
  BY <1>1, <1>2, <1>3, <1>4, <1>5, <1>6, <1>7, <1>8 DEF Move

(* A gate is passed with an approval of its own, or by a first writer.     *)
LEMMA MoveApprovalInv ==
  ASSUME ExecutorInv, ExecutorInv', Typed, CallerInv, ApprovalInv, Move
  PROVE  ApprovalInv'
<1>0. /\ UNCHANGED writers /\ {"policy_check", Gate, "execute"} \subseteq Name
      /\ pos \in 1..13 /\ Gate # "policy_check" /\ Len(writers) \in Nat
      /\ Approvals \in Nat /\ Approvals' \in Nat /\ Approvals <= Approvals'
  BY WorkflowFacts, MoveKeepsLog DEF Move, worldVars, ExecutorInv, Gate, Typed
<1>1. CASE writers = <<>>
  BY <1>0, <1>1 DEF ApprovalInv
<1>2. CASE PassesGate
  <2>1. /\ pc = "loop" /\ pos = 8 /\ UNCHANGED run
        /\ Approvals' = Approvals + 1 \/ Clear
    BY <1>2 DEF PassesGate, Advances
  <2>2. writers # <<>> => run.status = "PAUSED" /\ ~Clear
    BY <2>1 DEF CallerInv, Clear
  <2>3. QED
    BY <1>0, <2>1, <2>2 DEF ApprovalInv
<1>3. CASE Starts /\ writers # <<>>
  <2>1. /\ run.status = "PAUSED" \/ (run.status = "NONE" /\ invocations = 0)
        /\ UNCHANGED run /\ pos' = 1
    BY <1>3 DEF Starts, Dag!Resumable
  <2>2. run.status = "PAUSED"
    BY <1>3, <2>1 DEF CallerInv
  <2>3. QED
    BY <1>0, <1>3, <2>1, <2>2 DEF ApprovalInv
<1>4. CASE ~PassesGate /\ ~Starts /\ writers # <<>>
  <2>1. Clear => Clear'
    <3>1. Clear => Passed("policy_check")
      BY DEF Clear, Passed
    <3>2. QED
      BY <1>0, <1>4, <3>1, MoveCheckpoint DEF Clear
  <2>2. run'.status = "PAUSED" => run.status = "PAUSED" \/ ~Clear
    BY DEF Move, Starts, Undoes, Skips, PassesGate, Succeeds, Advances, LoopReturns,
       UndoReturns, Returns, Retries, Waits, Enters, Fails, Escapes, SameProgress
  <2>3. \/ Len(writers) <= Approvals'
        \/ Len(writers) = 1 /\ Clear' /\ run'.status # "PAUSED"
    BY <1>0, <1>4, <2>1, <2>2 DEF ApprovalInv
  <2>4. ASSUME pc' = "loop", pos' = 9, ~Passed("execute")' PROVE Len(writers) < Approvals'
    <3>1. CASE Skips
      <4>1. pos = 8 /\ Passed(Gate) /\ pc = "loop"
        BY <2>4, <3>1, WorkflowFacts DEF Skips, Advances
      <4>2. QED
        BY <4>1 DEF CallerInv
    <3>2. CASE Succeeds
      <4>1. pos = 8 /\ pc = "running"
        BY <2>4, <3>2 DEF Succeeds, Advances
      <4>2. QED
        BY <4>1 DEF CallerInv
    <3>3. CASE Waits
      <4>1. pc = "loop" /\ pos = 9 /\ ~Passed("execute")
        BY <2>4, <3>3 DEF Waits, SameProgress, Passed
      <4>2. QED
        BY <1>0, <1>4, <4>1 DEF ApprovalInv
    <3>4. QED
      BY <1>4, <2>4, <3>1, <3>2, <3>3 DEF Move, Undoes, LoopReturns, UndoReturns, Returns,
         Retries, Enters, Fails, Escapes
  <2>5. QED
    BY <1>0, <2>3, <2>4 DEF ApprovalInv
<1>5. QED
  BY <1>1, <1>2, <1>3, <1>4

(* How the execute node ends.                                              *)
LEMMA MoveFromExecute ==
  ASSUME ExecutorInv, Move
  PROVE  /\ Executing' => Executing
         /\ Executing => \/ Executing'
                         \/ Succeeds /\ Latest.at = "returned" /\ Passed("execute")'
                         \/ /\ Fails
                            /\ \/ Latest.at = "raised"
                               \/ TimedOut'
                               \/ (auditMayFail /\ Latest.at = "returned")
         /\ ~Starts /\ Passed("execute")' =>
              Passed("execute") \/ (Executing /\ Latest.at = "returned")
<1>0. "execute" \in Name /\ "execute" # Gate /\ Workflow[9] = "execute" /\ pos \in 1..13
      /\ \A p \in 1..12 : Workflow[p] = "execute" => p = 9
  BY WorkflowFacts DEF Gate, ExecutorInv
<1>1. Executing' => Executing
  BY DEF Executing, Move, Starts, Skips, PassesGate, LoopReturns, Undoes, Escapes,
     UndoReturns, Retries, Waits, Enters, Succeeds, Fails, Advances, Returns, SameProgress
<1>2. Executing => \/ Executing'
                   \/ Succeeds /\ Latest.at = "returned"
                   \/ /\ Fails
                      /\ \/ Latest.at = "raised"
                         \/ TimedOut'
                         \/ (auditMayFail /\ Latest.at = "returned")
  BY DEF Executing, Move, Starts, Skips, PassesGate, LoopReturns, Undoes, Escapes,
     UndoReturns, Retries, Waits, Enters, Returns, SameProgress
<1>3. Executing /\ Succeeds => Passed("execute")'
  BY <1>0, MoveCheckpoint DEF Executing, Passed
<1>4. ASSUME ~Starts, Passed("execute")', ~Passed("execute")
      PROVE  Executing /\ Latest.at = "returned"
  <2>1. Succeeds /\ "execute" = Workflow[pos]
    BY <1>0, <1>4, MoveCheckpoint
  <2>2. pos = 9 /\ pc = "running"
    BY <1>0, <2>1 DEF Succeeds, Advances
  <2>3. QED
    BY <2>1, <2>2 DEF Move, Executing, Starts, Skips, PassesGate, LoopReturns, Undoes, Escapes,
       UndoReturns, Retries, Waits, Enters, Fails, Returns, Succeeds, Advances
<1>5. QED
  BY <1>1, <1>2, <1>3, <1>4

LEMMA MoveWriterInv ==
  ASSUME ExecutorInv, ExecutorInv', CallerInv, WriterInv, Move
  PROVE  WriterInv'
<1>0. UNCHANGED writers /\ (TimedOut => TimedOut')
  BY MoveKeepsLog DEF Move, worldVars
<1>1. ASSUME NEW w \in DOMAIN writers, Live(w)
      PROVE  TimedOut' \/ (Executing' /\ w = Len(writers))
  BY <1>0, <1>1, MoveFromExecute DEF WriterInv, Live, Latest
<1>2. Executing' => writers # <<>>
  BY MoveFromExecute DEF WriterInv
<1>3. Passed("execute")' => writers # <<>> /\ Latest.at = "returned"
  <2>1. CASE Starts
    <3>1. run.checkpoint[Gate] = "absent" /\ cp' = run.checkpoint
      BY <2>1 DEF Starts, Dag!Resumable, CallerInv
    <3>2. QED
      BY <3>1 DEF ExecutorInv, Passed
  <2>2. CASE ~Starts
    BY <2>2, MoveFromExecute DEF WriterInv
  <2>3. QED
    BY <2>1, <2>2
<1>4. QED
  BY <1>0, <1>1, <1>2, <1>3 DEF WriterInv, Live, Latest

(* The saga under a move.                                                  *)
LEMMA MoveSagaInv ==
  ASSUME ExecutorInv, SagaInv, Move
  PROVE  SagaInv'
<1>1. /\ UNCHANGED <<writers, saga, auditMayFail>> /\ "execute" \in Name
      /\ pc = "undo" => UndoReturns \/ Waits
  BY WorkflowFacts DEF Move, LogGrows, worldVars, Starts, Skips, PassesGate, LoopReturns,
     Undoes, Retries, Enters, Succeeds, Fails, Escapes
<1>2. saga \in {"reverting", "raised"} => pc' = "undo" /\ toUndo' = {"execute"}
  BY <1>1 DEF SagaInv, UndoReturns, Waits, SameProgress
<1>3. pc' = "undo" => Undoes \/ (pc = "undo" /\ Waits)
  BY <1>1 DEF Move, Starts, Skips, PassesGate, LoopReturns, UndoReturns, Escapes,
     Returns, Retries, Enters, Succeeds, Fails, Advances, Waits
<1>4. pc' = "undo" /\ Passed("execute")' => toUndo' = {"execute"} \/ saga = "done"
  <2>1. CASE Undoes
    BY <2>1 DEF Undoes, Passed
  <2>2. CASE pc = "undo" /\ Waits
    BY <2>2 DEF Waits, SameProgress, SagaInv, Passed
  <2>3. QED
    BY <1>3, <2>1, <2>2
<1>5. pc' = "undo" /\ toUndo' # {} => Passed("execute")'
  <2>1. CASE Undoes
    BY <2>1 DEF Undoes, Passed
  <2>2. CASE pc = "undo" /\ Waits
    BY <2>2 DEF Waits, SameProgress, SagaInv, Passed
  <2>3. QED
    BY <1>3, <2>1, <2>2
<1>6. QED
  BY <1>1, <1>2, <1>4, <1>5 DEF SagaInv, Latest

(* With a ledger that does not raise, a run that has a writer stays on its *)
(* way to an end.                                                          *)
LEMMA MoveCommitted ==
  ASSUME ExecutorInv, CallerInv, ReliableInv, Move, Committed, ~auditMayFail
  PROVE  Committed'
<1>0. "execute" \in Name
  BY WorkflowFacts
<1>1. CASE Passed("execute")
  <2>1. CASE Starts
    <3>1. run.checkpoint["execute"] = "absent" /\ pc = "idle"
      BY <2>1 DEF Starts, Dag!Resumable, CallerInv, ExecutorInv
    <3>2. QED
      BY <1>1, <3>1 DEF ReliableInv, Passed
  <2>2. CASE ~Starts
    BY <1>0, <1>1, <2>2, MoveCheckpoint DEF Committed
  <2>3. QED
    BY <2>1, <2>2
<1>2. CASE Executing
  <2>1. Executing' \/ Passed("execute")' \/ Fails
    BY <1>2, MoveFromExecute
  <2>2. QED
    BY <2>1 DEF Committed, Fails
<1>3. CASE pc \in {"failing", "undo"}
  <2>1. CASE UndoReturns
    <3>1. pc' = "idle" /\ run'.status \in {"FAILED", "COMPENSATED"}
      BY <2>1 DEF UndoReturns, Returns
    <3>2. QED
      BY <3>1 DEF Committed, Dag!Resumable
  <2>2. CASE ~UndoReturns
    BY <1>3, <2>2 DEF Committed, Move, Starts, Skips, PassesGate, LoopReturns, Escapes,
       Undoes, Retries, Waits, Enters, Succeeds, Fails
  <2>3. QED
    BY <2>1, <2>2
<1>4. CASE pc = "idle" /\ ~Dag!Resumable
  <2>1. Waits
    BY <1>4 DEF Move, Starts, Skips, PassesGate, LoopReturns, Undoes, Escapes,
       UndoReturns, Retries, Enters, Succeeds, Fails
  <2>2. pc' = "idle" /\ UNCHANGED <<run, invocations>>
    BY <1>4, <2>1 DEF Waits, SameProgress
  <2>3. QED
    BY <1>4, <2>2 DEF Committed, Dag!Resumable
<1>5. QED
  BY <1>1, <1>2, <1>3, <1>4 DEF Committed

LEMMA MoveReliableInv ==
  ASSUME ExecutorInv, ExecutorInv', Typed, CallerInv, WriterInv, SagaInv, ReliableInv, Move
  PROVE  ReliableInv'
<1>0. /\ TimedOut => TimedOut'
      /\ Deadline => Deadline'
      /\ auditMayFail' = auditMayFail
      /\ UNCHANGED <<writers, saga, world, stuck, lost>>
      /\ "execute" \in Name
  BY WorkflowFacts, MoveKeepsLog DEF Move, worldVars
<1>1. SUFFICES ASSUME ~auditMayFail PROVE ReliableInv'
  BY <1>0 DEF ReliableInv
<1>2. ASSUME pc' = "idle" PROVE run'.checkpoint = cp'
  <2>1. CASE Returns({"SUCCEEDED"}) \/ Returns({"PAUSED"}) \/ Returns({"FAILED"})
             \/ UndoReturns
    BY <2>1 DEF UndoReturns, Returns
  <2>2. CASE Waits
    BY <1>1, <1>2, <2>2 DEF Waits, SameProgress, ReliableInv
  <2>3. QED
    BY <1>1, <1>2, <2>1, <2>2 DEF Move, Starts, Skips, PassesGate, LoopReturns, Undoes,
       Escapes, Retries, Enters, Succeeds, Fails, Advances
<1>3. ASSUME pc' \in {"failing", "undo"}
      PROVE  writers = <<>> \/ WriterRaised \/ TimedOut' \/ Passed("execute")'
  <2>1. CASE Fails
    <3>1. CASE pos = 9
      <4>1. Executing
        BY <2>1, <3>1 DEF Fails, Executing
      <4>2. Latest.at = "raised" \/ TimedOut'
        BY <1>1, <2>1, <4>1, MoveFromExecute DEF Executing, Fails, Succeeds, Advances
      <4>3. QED
        BY <4>2 DEF WriterRaised
    <3>2. CASE pos # 9
      <4>1. writers # <<>> => Passed("execute")
        BY <1>1, <2>1, <3>2 DEF Fails, ReliableInv, Committed, Executing
      <4>2. Passed("execute")' <=> Passed("execute")
        BY <2>1 DEF Fails, SameProgress, Passed
      <4>3. QED
        BY <4>1, <4>2
    <3>3. QED
      BY <3>1, <3>2
  <2>2. CASE Undoes \/ (Waits /\ pc \in {"failing", "undo"})
    BY <1>0, <1>1, <2>2 DEF Undoes, Waits, SameProgress, ReliableInv, Passed
  <2>3. QED
    BY <1>0, <1>3, <2>1, <2>2 DEF Move, Starts, Skips, PassesGate, LoopReturns, UndoReturns,
       Escapes, Returns, Retries, Enters, Succeeds, Advances, Waits
<1>4. ASSUME run'.status \in {"FAILED", "COMPENSATED"}
      PROVE  writers = <<>> \/ WriterRaised \/ TimedOut' \/ Deadline' \/ saga = "done"
  <2>1. CASE LoopReturns
    <3>1. pc = "loop" /\ (Deadline' \/ (pos = 8 /\ ~Passed(Gate)))
      BY <1>4, <2>1 DEF LoopReturns, Returns
    <3>2. ~Passed(Gate) => ~Passed("execute")
      BY DEF ExecutorInv
    <3>3. QED
      BY <1>1, <3>1, <3>2 DEF ReliableInv, Committed, Executing
  <2>2. CASE UndoReturns
    <3>1. pc = "undo" /\ toUndo = {}
      BY <2>2 DEF UndoReturns
    <3>2. writers = <<>> \/ WriterRaised \/ TimedOut \/ Passed("execute")
      BY <1>1, <3>1 DEF ReliableInv
    <3>3. Passed("execute") => saga = "done"
      BY <3>1 DEF SagaInv
    <3>4. QED
      BY <1>0, <3>2, <3>3
  <2>3. CASE ~LoopReturns /\ ~UndoReturns
    <3>1. UNCHANGED run
      BY <2>3 DEF Move, Starts, Skips, PassesGate, Undoes, Retries, Waits, Enters, Escapes,
         Succeeds, Fails, Advances, SameProgress
    <3>2. QED
      BY <1>0, <1>1, <1>4, <3>1 DEF ReliableInv
  <2>4. QED
    BY <2>1, <2>2, <2>3
<1>5. lost' = {} /\ Len(writers') <= 1 /\ (writers' # <<>> => Committed')
  <2>1. writers # <<>> => Committed
    BY <1>1 DEF ReliableInv
  <2>2. writers # <<>> => Committed'
    BY <1>1, <2>1, MoveCommitted
  <2>3. QED
    BY <1>0, <1>1, <2>2 DEF ReliableInv
<1>6. WriterRaised' \/ saga' = "done" => \A s \in Steps : ~Pending(s)'
  BY <1>0, <1>1 DEF ReliableInv, WriterRaised, Latest, Pending
<1>7. WriterRaised' <=> WriterRaised
  BY <1>0 DEF WriterRaised, Latest
<1>8. QED
  BY <1>0, <1>2, <1>3, <1>4, <1>5, <1>6, <1>7 DEF ReliableInv

LEMMA MoveIInv == ASSUME IInv, ExecutorInv, ExecutorInv', Move PROVE IInv'
<1>1. UNCHANGED worldVars
  BY DEF Move
<1>2. ListInv' /\ CountInv' /\ BatchInv'
  <2>1. ListInv'
    BY <1>1 DEF IInv, ListInv, FirstSteps, LatestFirst, worldVars
  <2>2. CountInv'
    BY <1>1 DEF IInv, CountInv, Tried, worldVars
  <2>3. BatchInv'
    BY <1>1 DEF IInv, BatchInv, Pending, Latest, worldVars
  <2>4. QED
    BY <2>1, <2>2, <2>3
<1>3. QED
  BY <1>2, MoveTyped, MoveCallerInv, MoveApprovalInv, MoveWriterInv, MoveSagaInv,
     MoveReliableInv DEF IInv

-----------------------------------------------------------------------------
(* The writers and the saga.                                               *)

(* The undo visits the steps done from the last one to the first.          *)
LEMMA ReverseFacts ==
  ASSUME NEW list \in Seq(Steps), FirstSteps(list)
  PROVE  /\ Reverse(list) \in Seq(Steps) /\ Len(Reverse(list)) = Len(list)
         /\ LatestFirst(Reverse(list))
<1> DEFINE rest == Reverse(list)
<1>1. /\ Len(list) \in Nat
      /\ \A k \in 1..Len(list) : list[k] = k /\ list[k] \in Steps
  BY DEF FirstSteps
<1>2. rest = [k \in 1..Len(list) |-> list[(Len(list) - k) + 1]]
  BY DEF Reverse
<1>3. \A k \in 1..Len(list) : (Len(list) - k) + 1 \in 1..Len(list)
  BY <1>1
<1>4. \A k \in 1..Len(list) : rest[k] = Len(list) + 1 - k /\ rest[k] \in Steps
  BY <1>1, <1>2, <1>3
<1>5. rest \in [1..Len(list) -> Steps]
  BY <1>2, <1>4
<1>6. rest \in Seq(Steps) /\ Len(rest) = Len(list)
  BY <1>1, <1>5, SeqDef, LenProperties
<1>7. QED
  BY <1>4, <1>6 DEF LatestFirst

(* One turn of the undo takes the last step that is still to be visited.   *)
LEMMA TailFacts ==
  ASSUME NEW list \in Seq(Steps), list # <<>>, LatestFirst(list)
  PROVE  /\ Head(list) \in Steps /\ Head(list) = Len(list)
         /\ Len(list) \in Nat \ {0}
         /\ Tail(list) \in Seq(Steps) /\ Len(Tail(list)) = Len(list) - 1
         /\ LatestFirst(Tail(list))
<1>1. /\ Len(list) \in Nat \ {0}
      /\ Head(list) \in Steps
      /\ Head(list) = list[1]
      /\ Tail(list) \in Seq(Steps)
      /\ Len(Tail(list)) = Len(list) - 1
      /\ \A k \in 1..Len(Tail(list)) : Tail(list)[k] = list[k + 1]
  BY EmptySeq, HeadTailProperties, LenProperties
<1>2. Head(list) = Len(list)
  BY <1>1 DEF LatestFirst
<1>3. \A k \in 1..Len(Tail(list)) : Tail(list)[k] = Len(Tail(list)) + 1 - k
  BY <1>1 DEF LatestFirst
<1>4. QED
  BY <1>1, <1>2, <1>3 DEF LatestFirst

(* What is said of the executor alone is true after a step that leaves the *)
(* executor where it is.                                                   *)
LEMMA ExecutorStays ==
  ASSUME UNCHANGED dagVars
  PROVE  /\ UNCHANGED <<run, pc, cp, pos, toUndo, audit, auditMayFail, invocations>>
         /\ TimedOut' <=> TimedOut
         /\ Deadline' <=> Deadline
         /\ Executing' <=> Executing
         /\ Committed' <=> Committed
         /\ Clear' <=> Clear
         /\ Approvals' = Approvals
         /\ \A n : Passed(n)' <=> Passed(n)
<1>1. UNCHANGED <<run, pc, cp, pos, toUndo, audit, auditMayFail, invocations>>
  BY DEF dagVars
<1>2. \A n : Passed(n)' <=> Passed(n)
  BY <1>1 DEF Passed
<1>3. (TimedOut' <=> TimedOut) /\ (Deadline' <=> Deadline)
  BY <1>1 DEF TimedOut, Deadline, Dag!Logged
<1>4. Executing' <=> Executing
  BY <1>1 DEF Executing
<1>5. Committed' <=> Committed
  BY <1>1, <1>2, <1>4 DEF Committed, Dag!Resumable
<1>6. (Clear' <=> Clear) /\ Approvals' = Approvals
  BY <1>1 DEF Clear, Approvals, Dag!Times, Dag!Rec
<1>7. QED
  BY <1>1, <1>2, <1>3, <1>4, <1>5, <1>6

LEMMA BecomesFacts ==
  ASSUME Typed, NEW w \in DOMAIN writers, NEW next \in Writer, Becomes(w, next)
  PROVE  /\ writers' \in Seq(Writer) /\ Len(writers') = Len(writers)
         /\ DOMAIN writers = 1..Len(writers) /\ DOMAIN writers' = 1..Len(writers)
         /\ Len(writers) \in Nat \ {0} /\ writers # <<>> /\ writers' # <<>>
         /\ writers'[w] = next
         /\ \A v \in DOMAIN writers : v # w => writers'[v] = writers[v]
         /\ Latest' = writers'[Len(writers)]
<1>1. /\ writers \in Seq(Writer) /\ Len(writers) \in Nat /\ DOMAIN writers = 1..Len(writers)
      /\ writers' = [writers EXCEPT ![w] = next]
  BY DEF Typed, Becomes
<1>2. /\ DOMAIN writers' = 1..Len(writers) /\ writers'[w] = next
      /\ \A v \in DOMAIN writers : v # w => writers'[v] = writers[v]
  BY <1>1
<1>3. writers' \in Seq(Writer) /\ Len(writers') = Len(writers)
  BY <1>1, ExceptSeq
<1>4. Len(writers) \in Nat \ {0} /\ writers # <<>> /\ writers' # <<>>
  BY <1>1, <1>3, EmptySeq
<1>5. QED
  BY <1>1, <1>2, <1>3, <1>4 DEF Latest

(* A live writer that goes on, or ends, leaves the executor and what the   *)
(* executor knows of a writer that returned.                               *)
LEMMA WriterGoesOn ==
  ASSUME IInv, UNCHANGED dagVars, UNCHANGED <<saga, sagaSteps>>,
         NEW w \in DOMAIN writers, Live(w), NEW next \in Writer, Becomes(w, next)
  PROVE  CallerInv' /\ ApprovalInv' /\ WriterInv' /\ SagaInv'
<1>1. /\ Len(writers') = Len(writers) /\ DOMAIN writers' = DOMAIN writers
      /\ writers # <<>> /\ writers' # <<>> /\ DOMAIN writers = 1..Len(writers)
      /\ \A v \in DOMAIN writers : v # w => writers'[v] = writers[v]
      /\ Len(writers) \in DOMAIN writers
      /\ Latest' = writers'[Len(writers)]
  BY BecomesFacts DEF IInv
<1>2. Latest.at = "returned" => Latest' = Latest
  BY <1>1 DEF Live, Latest
<1>3. CallerInv'
  BY <1>1, ExecutorStays DEF IInv, CallerInv
<1>4. ApprovalInv'
  BY <1>1, ExecutorStays DEF IInv, ApprovalInv
<1>5. WriterInv'
  <2>1. ASSUME NEW v \in DOMAIN writers, Live(v)'
        PROVE  TimedOut \/ (Executing /\ v = Len(writers))
    <3>1. Live(v)
      BY <1>1, <2>1 DEF Live
    <3>2. QED
      BY <3>1 DEF IInv, WriterInv
  <2>2. Passed("execute") => Latest'.at = "returned"
    BY <1>2 DEF IInv, WriterInv
  <2>3. QED
    BY <1>1, <2>1, <2>2, ExecutorStays DEF WriterInv
<1>6. SagaInv'
  BY <1>1, <1>2, ExecutorStays DEF IInv, SagaInv
<1>7. QED
  BY <1>3, <1>4, <1>5, <1>6

(* No write is made that is not the first try of its writer.               *)
LEMMA CountKept ==
  ASSUME Typed, CountInv, Typed', DOMAIN writers \subseteq DOMAIN writers',
         \A v \in DOMAIN writers, s \in Steps : Tried(v, s) => Tried(v, s)',
         \A s \in Steps :
           \/ writes'[s] = writes[s]
           \/ /\ writes'[s] = writes[s] + 1
              /\ \E v \in DOMAIN writers' : Tried(v, s)' /\ ~(v \in DOMAIN writers /\ Tried(v, s))
  PROVE  CountInv'
<1> SUFFICES ASSUME NEW s \in Steps
             PROVE  writes'[s] <= Cardinality({v \in DOMAIN writers' : Tried(v, s)'})
  BY DEF CountInv
<1> DEFINE before == {v \in DOMAIN writers : Tried(v, s)}
<1> DEFINE after == {v \in DOMAIN writers' : Tried(v, s)'}
<1>1. IsFiniteSet(after)
  <2>1. after \in SUBSET (1..Len(writers')) /\ Len(writers') \in Nat
    BY DEF Typed
  <2>2. QED
    BY <2>1, FS_Interval, FS_Subset
<1>2. before \subseteq after
  OBVIOUS
<1>3. writes[s] <= Cardinality(before) /\ writes[s] \in Nat
  BY DEF CountInv, Typed
<1>4. writes'[s] = writes[s] \/ (writes'[s] = writes[s] + 1 /\ \E v \in after : v \notin before)
  OBVIOUS
<1> HIDE DEF before, after
<1>5. /\ IsFiniteSet(before) /\ Cardinality(before) <= Cardinality(after)
      /\ Cardinality(before) \in Nat /\ Cardinality(after) \in Nat
  BY <1>1, <1>2, FS_Subset, FS_CardinalityType
<1>6. CASE writes'[s] = writes[s]
  BY <1>3, <1>5, <1>6 DEF after
<1>7. CASE writes'[s] = writes[s] + 1 /\ \E v \in after : v \notin before
  <2>1. PICK v \in after : v \notin before
    BY <1>7
  <2>2. before \cup {v} \subseteq after /\ IsFiniteSet(before \cup {v})
        /\ Cardinality(before \cup {v}) = Cardinality(before) + 1
    BY <1>2, <1>5, <2>1, FS_AddElement
  <2>3. Cardinality(before) + 1 <= Cardinality(after)
    BY <1>1, <2>2, FS_Subset
  <2>4. writes'[s] <= Cardinality(after)
    BY <1>3, <1>5, <1>7, <2>3
  <2>5. QED
    BY <2>4 DEF after
<1>8. QED
  BY <1>4, <1>6, <1>7

(* With a ledger that does not raise, the only writer is the latest one,   *)
(* and while it is at work there has been no saga.                         *)
LEMMA ReliableGoesOn ==
  ASSUME IInv, UNCHANGED dagVars, UNCHANGED <<saga, sagaSteps>>,
         NEW w \in DOMAIN writers, Live(w), NEW next \in Writer, Becomes(w, next),
         ~auditMayFail => lost' = {},
         ~auditMayFail /\ next.at = "raised" => \A s \in Steps : ~Pending(s)'
  PROVE  ReliableInv'
<1>1. /\ Len(writers') = Len(writers) /\ writers # <<>> /\ writers' # <<>>
      /\ DOMAIN writers = 1..Len(writers) /\ Len(writers) \in Nat \ {0}
      /\ writers'[w] = next /\ Latest' = writers'[Len(writers)]
  BY BecomesFacts DEF IInv
<1>2. SUFFICES ASSUME ~auditMayFail PROVE ReliableInv'
  BY ExecutorStays DEF ReliableInv
<1>3. w = Len(writers) /\ Len(writers) = 1
  BY <1>1, <1>2 DEF IInv, ReliableInv
<1>4. Latest' = next /\ ~WriterRaised /\ Latest.at # "returned"
  BY <1>1, <1>3 DEF Latest, WriterRaised, Live
<1>5. saga' = saga /\ saga = "off"
  BY <1>4 DEF IInv, SagaInv
<1>6. WriterRaised' => \A s \in Steps : ~Pending(s)'
  BY <1>2, <1>4 DEF WriterRaised
<1>7. /\ pc \in {"failing", "undo"} => TimedOut \/ Passed("execute")
      /\ run.status \in {"FAILED", "COMPENSATED"} => TimedOut \/ Deadline
      /\ pc = "idle" => run.checkpoint = cp
      /\ Committed
  BY <1>1, <1>2, <1>4, <1>5 DEF IInv, ReliableInv
<1>8. QED
  BY <1>1, <1>2, <1>3, <1>5, <1>6, <1>7, ExecutorStays DEF ReliableInv

(* A call of a connector applies the next step of its writer's plan.       *)
LEMMA AppliedStep ==
  ASSUME Typed, NEW w \in DOMAIN writers, Writing(w), Apply(NextStep(w))
  PROVE  /\ NextStep(w) \in Steps
         /\ world' \in [Steps -> {"untouched", "applied", "undone"}]
         /\ writes' \in [Steps -> Nat]
         /\ writes'[NextStep(w)] = writes[NextStep(w)] + 1
         /\ world'[NextStep(w)] = "applied"
         /\ \A s \in Steps \ {NextStep(w)} : writes'[s] = writes[s] /\ world'[s] = world[s]
<1>1. writers[w] \in Writer
  BY DEF Typed
<1>2. Len(writers[w].executed) \in Nat /\ PlanLength \in Nat
  BY <1>1, RemediationAssumption DEF Writer
<1>3. NextStep(w) \in Steps
  BY <1>2 DEF Writing, NextStep, Steps
<1>4. /\ world \in [Steps -> {"untouched", "applied", "undone"}]
      /\ writes \in [Steps -> Nat]
  BY DEF Typed
<1>5. QED
  BY <1>3, <1>4 DEF Apply

LEMMA CallStepIInv == ASSUME IInv, NEW w \in DOMAIN writers, CallStep(w) PROVE IInv'
<1>0. PICK step : step = NextStep(w)
  OBVIOUS
<1> DEFINE next == [writers[w] EXCEPT !.executed = Append(@, NextStep(w))]
<1>1. /\ Writing(w) /\ Apply(step) /\ Becomes(w, next) /\ writers[w].at = "writing"
      /\ UNCHANGED <<saga, sagaSteps, stuck, lost>> /\ UNCHANGED dagVars
      /\ step <= PlanLength /\ Typed
  BY <1>0 DEF CallStep, Writing, IInv
<1>2. /\ step \in Steps
      /\ world' \in [Steps -> {"untouched", "applied", "undone"}]
      /\ writes' \in [Steps -> Nat]
      /\ writes'[step] = writes[step] + 1 /\ world'[step] = "applied"
      /\ \A s \in Steps \ {step} : writes'[s] = writes[s] /\ world'[s] = world[s]
  BY <1>0, <1>1, AppliedStep
<1>3. /\ writers[w] \in Writer /\ writers[w].executed \in Seq(Steps)
      /\ Len(writers[w].executed) \in Nat /\ step = Len(writers[w].executed) + 1
      /\ writers[w].reverting \in Seq(Steps)
  <2>1. writers[w] \in Writer
    BY <1>1 DEF Typed
  <2>2. QED
    BY <1>0, <2>1 DEF Writer, NextStep
<1>4. /\ next \in Writer /\ next.at = "writing"
      /\ next.executed = Append(writers[w].executed, step)
      /\ next.reverting = writers[w].reverting
      /\ next.executed \in Seq(Steps) /\ Len(next.executed) = step
      /\ next.executed[step] = step
      /\ \A k \in 1..Len(writers[w].executed) : next.executed[k] = writers[w].executed[k]
  <2>1. /\ next.at = "writing" /\ next.executed = Append(writers[w].executed, step)
        /\ next.reverting = writers[w].reverting
    BY <1>0, <1>1, <1>3 DEF Writer
  <2>2. next.executed \in Seq(Steps) /\ Len(next.executed) = step
        /\ next.executed[step] = step
        /\ \A k \in 1..Len(writers[w].executed) : next.executed[k] = writers[w].executed[k]
    BY <1>2, <1>3, <2>1
  <2>3. next \in Writer
    BY <1>0, <1>3, <2>1, <2>2 DEF Writer
  <2>4. QED
    BY <2>1, <2>2, <2>3
<1> HIDE DEF next
<1>5. /\ writers' \in Seq(Writer) /\ Len(writers') = Len(writers)
      /\ DOMAIN writers = 1..Len(writers) /\ DOMAIN writers' = 1..Len(writers)
      /\ Len(writers) \in Nat \ {0} /\ writers' # <<>> /\ writers'[w] = next
      /\ \A v \in DOMAIN writers : v # w => writers'[v] = writers[v]
      /\ Latest' = writers'[Len(writers)]
  BY <1>1, <1>4, BecomesFacts
<1>6. Typed'
  <2>1. toUndo' = toUndo
    BY <1>1 DEF dagVars
  <2>2. QED
    BY <1>1, <1>2, <1>5, <2>1 DEF Typed
<1>7. CallerInv' /\ ApprovalInv' /\ WriterInv' /\ SagaInv'
  BY <1>1, <1>4, WriterGoesOn DEF Live
<1>8. ListInv'
  <2>1. FirstSteps(next.executed)
    <3>1. FirstSteps(writers[w].executed)
      BY DEF IInv, ListInv
    <3>2. QED
      BY <1>3, <1>4, <3>1 DEF FirstSteps
  <2>2. LatestFirst(next.reverting)
    BY <1>4 DEF IInv, ListInv
  <2>3. ASSUME NEW v \in DOMAIN writers
        PROVE  /\ Len(writers'[v].executed) <= PlanLength
               /\ writers'[v].at = "returned" => Len(writers'[v].executed) = PlanLength
               /\ FirstSteps(writers'[v].executed)
               /\ LatestFirst(writers'[v].reverting)
    <3>1. CASE v = w
      BY <1>1, <1>4, <1>5, <2>1, <2>2, <3>1
    <3>2. CASE v # w
      BY <1>5, <3>2 DEF IInv, ListInv
    <3>3. QED
      BY <3>1, <3>2
  <2>4. LatestFirst(sagaSteps') /\ DOMAIN writers' = DOMAIN writers
    BY <1>1, <1>5 DEF IInv, ListInv
  <2>5. QED
    BY <2>3, <2>4 DEF ListInv
<1>9. CountInv'
  <2>1. \A v \in DOMAIN writers, s \in Steps : Tried(v, s) => Tried(v, s)'
    <3>1. SUFFICES ASSUME NEW v \in DOMAIN writers, NEW s \in Steps, Tried(v, s)
                   PROVE  Tried(v, s)'
      OBVIOUS
    <3>2. s \in Nat
      BY DEF Steps
    <3>3. CASE v = w
      BY <1>1, <1>3, <1>4, <1>5, <3>1, <3>2, <3>3 DEF Tried
    <3>4. CASE v # w
      BY <1>5, <3>1, <3>4 DEF Tried
    <3>5. QED
      BY <3>3, <3>4
  <2>2. Tried(w, step)' /\ ~Tried(w, step)
    BY <1>1, <1>3, <1>4, <1>5 DEF Tried
  <2>3. \A s \in Steps :
          \/ writes'[s] = writes[s]
          \/ /\ writes'[s] = writes[s] + 1
             /\ \E v \in DOMAIN writers' : Tried(v, s)' /\ ~(v \in DOMAIN writers /\ Tried(v, s))
    BY <1>2, <1>5, <2>2
  <2>4. DOMAIN writers \subseteq DOMAIN writers'
    BY <1>5
  <2>5. QED
    BY <1>6, <2>1, <2>3, <2>4, CountKept DEF IInv
<1>10. BatchInv'
  <2>1. ASSUME Len(writers) = 1, NEW s \in Steps
        PROVE  /\ world'[s] = "applied" /\ s \notin lost => s <= Len(Latest'.executed)
               /\ Latest'.at = "writing" /\ saga = "off"
    <3>1. w = 1 /\ Latest' = next /\ Latest = writers[w]
      BY <1>5, <2>1 DEF Latest
    <3>2. saga = "off"
      BY <1>1, <3>1 DEF IInv, SagaInv
    <3>3. world[s] = "applied" /\ s \notin lost => s <= Len(writers[w].executed)
      BY <2>1, <3>1 DEF IInv, BatchInv
    <3>4. s \in Nat
      BY DEF Steps
    <3>5. QED
      BY <1>2, <1>3, <1>4, <3>1, <3>2, <3>3, <3>4
  <2>2. QED
    BY <1>1, <1>5, <2>1 DEF BatchInv
<1>11. ReliableInv'
  BY <1>1, <1>4, ReliableGoesOn DEF Live, IInv, ReliableInv
<1>12. QED
  BY <1>6, <1>7, <1>8, <1>9, <1>10, <1>11 DEF IInv

(* A call that raises starts the undo of what its writer has done.         *)
LEMMA CallStepRaisesIInv ==
  ASSUME IInv, NEW w \in DOMAIN writers, CallStepRaises(w), auditMayFail \in BOOLEAN
  PROVE  IInv'
<1>0. PICK step : step = NextStep(w)
  OBVIOUS
<1> DEFINE next == [writers[w] EXCEPT !.at = "reverting",
                                      !.reverting = Reverse(writers[w].executed)]
<1>1. /\ Writing(w) /\ Becomes(w, next) /\ writers[w].at = "writing"
      /\ UNCHANGED <<saga, sagaSteps, stuck>> /\ UNCHANGED dagVars
      /\ step <= PlanLength /\ Typed /\ CallIsLost(w)
  BY <1>0 DEF CallStepRaises, Writing, IInv
<1>2. /\ world' \in [Steps -> {"untouched", "applied", "undone"}]
      /\ writes' \in [Steps -> Nat]
      /\ lost \subseteq lost' /\ lost' \subseteq Steps
      /\ ~auditMayFail => lost' = lost
      /\ \A s \in Steps : \/ writes'[s] = writes[s] /\ world'[s] = world[s]
                          \/ writes'[s] = writes[s] + 1 /\ s \in lost' /\ s = step
  <2>1. lost \subseteq Steps
    BY <1>1 DEF Typed
  <2>2. CASE UNCHANGED <<world, writes, lost>>
    BY <1>1, <2>2 DEF Typed
  <2>3. CASE auditMayFail /\ Apply(step) /\ lost' = lost \cup {step}
    BY <1>0, <1>1, <2>1, <2>3, AppliedStep
  <2>4. QED
    BY <1>0, <1>1, <2>2, <2>3 DEF CallIsLost
<1>3. /\ writers[w] \in Writer /\ writers[w].executed \in Seq(Steps)
      /\ Len(writers[w].executed) \in Nat /\ step = Len(writers[w].executed) + 1
      /\ FirstSteps(writers[w].executed)
  <2>1. writers[w] \in Writer /\ FirstSteps(writers[w].executed)
    BY <1>1 DEF Typed, IInv, ListInv
  <2>2. QED
    BY <1>0, <2>1 DEF Writer, NextStep
<1>4. /\ Reverse(writers[w].executed) \in Seq(Steps)
      /\ Len(Reverse(writers[w].executed)) = Len(writers[w].executed)
      /\ LatestFirst(Reverse(writers[w].executed))
  BY <1>3, ReverseFacts
<1>5. /\ next \in Writer /\ next.at = "reverting"
      /\ next.executed = writers[w].executed
      /\ next.reverting = Reverse(writers[w].executed)
  <2>1. /\ next.at = "reverting" /\ next.executed = writers[w].executed
        /\ next.reverting = Reverse(writers[w].executed)
    BY <1>3 DEF Writer
  <2>2. next \in Writer
    BY <1>3, <1>4 DEF Writer
  <2>3. QED
    BY <2>1, <2>2
<1> HIDE DEF next
<1>6. /\ writers' \in Seq(Writer) /\ Len(writers') = Len(writers)
      /\ DOMAIN writers = 1..Len(writers) /\ DOMAIN writers' = 1..Len(writers)
      /\ Len(writers) \in Nat \ {0} /\ writers' # <<>> /\ writers'[w] = next
      /\ \A v \in DOMAIN writers : v # w => writers'[v] = writers[v]
      /\ Latest' = writers'[Len(writers)]
  BY <1>1, <1>5, BecomesFacts
<1>7. Typed'
  <2>1. toUndo' = toUndo
    BY <1>1 DEF dagVars
  <2>2. QED
    BY <1>1, <1>2, <1>6, <2>1 DEF Typed
<1>8. CallerInv' /\ ApprovalInv' /\ WriterInv' /\ SagaInv'
  BY <1>1, <1>5, WriterGoesOn DEF Live
<1>9. ListInv'
  BY <1>1, <1>3, <1>4, <1>5, <1>6 DEF IInv, ListInv
<1>10. CountInv'
  <2>1. \A v \in DOMAIN writers, s \in Steps : Tried(v, s) => Tried(v, s)'
    <3>1. SUFFICES ASSUME NEW v \in DOMAIN writers, NEW s \in Steps, Tried(v, s)
                   PROVE  Tried(v, s)'
      OBVIOUS
    <3>2. CASE v = w
      BY <1>1, <1>3, <1>5, <1>6, <3>1, <3>2 DEF Tried
    <3>3. CASE v # w
      BY <1>6, <3>1, <3>3 DEF Tried
    <3>4. QED
      BY <3>2, <3>3
  <2>2. Tried(w, step)' /\ ~Tried(w, step)
    BY <1>1, <1>3, <1>5, <1>6 DEF Tried
  <2>3. \A s \in Steps :
          \/ writes'[s] = writes[s]
          \/ /\ writes'[s] = writes[s] + 1
             /\ \E v \in DOMAIN writers' : Tried(v, s)' /\ ~(v \in DOMAIN writers /\ Tried(v, s))
    BY <1>2, <1>6, <2>2
  <2>4. DOMAIN writers \subseteq DOMAIN writers'
    BY <1>6
  <2>5. QED
    BY <1>7, <2>1, <2>3, <2>4, CountKept DEF IInv
<1>11. BatchInv'
  <2>1. ASSUME Len(writers) = 1, NEW s \in Steps
        PROVE  /\ world'[s] = "applied" /\ s \notin lost' => s <= Len(Latest'.executed)
               /\ Len(Latest'.reverting) = Len(Latest'.executed)
               /\ saga = "off"
    <3>1. w = 1 /\ Latest' = next /\ Latest = writers[w]
      BY <1>6, <2>1 DEF Latest
    <3>2. saga = "off"
      BY <1>1, <3>1 DEF IInv, SagaInv
    <3>3. world[s] = "applied" /\ s \notin lost => s <= Len(writers[w].executed)
      BY <2>1, <3>1 DEF IInv, BatchInv
    <3>4. QED
      BY <1>2, <1>4, <1>5, <3>1, <3>2, <3>3
  <2>2. QED
    BY <1>1, <1>6, <2>1 DEF BatchInv, Pending
<1>12. ReliableInv'
  BY <1>1, <1>2, <1>5, ReliableGoesOn DEF Live, IInv, ReliableInv
<1>13. QED
  BY <1>7, <1>8, <1>9, <1>10, <1>11, <1>12 DEF IInv

(* The batch is complete, or its undo is.                                  *)
LEMMA FinishIInv ==
  ASSUME IInv, NEW w \in DOMAIN writers, FinishWriting(w) \/ FinishReverting(w)
  PROVE  IInv'
<1>0. PICK end \in {"returned", "raised"} :
        /\ Becomes(w, [writers[w] EXCEPT !.at = end])
        /\ \/ /\ writers[w].at = "writing" /\ end = "returned"
              /\ NextStep(w) > PlanLength
           \/ writers[w].at = "reverting" /\ end = "raised" /\ writers[w].reverting = <<>>
  BY DEF FinishWriting, FinishReverting
<1> DEFINE next == [writers[w] EXCEPT !.at = end]
<1>1. /\ UNCHANGED <<saga, sagaSteps, world, writes, stuck, lost>> /\ UNCHANGED dagVars
      /\ Live(w) /\ Typed /\ Becomes(w, next)
  BY <1>0 DEF FinishWriting, FinishReverting, Live, IInv
<1>2. /\ next \in Writer /\ next.at = end
      /\ next.executed = writers[w].executed /\ next.reverting = writers[w].reverting
      /\ Len(writers[w].executed) \in Nat
  <2>1. writers[w] \in Writer
    BY <1>1 DEF Typed
  <2>2. QED
    BY <2>1 DEF Writer
<1> HIDE DEF next
<1>3. /\ writers' \in Seq(Writer) /\ Len(writers') = Len(writers)
      /\ DOMAIN writers = 1..Len(writers) /\ DOMAIN writers' = 1..Len(writers)
      /\ Len(writers) \in Nat \ {0} /\ writers' # <<>> /\ writers'[w] = next
      /\ \A v \in DOMAIN writers : v # w => writers'[v] = writers[v]
      /\ Latest' = writers'[Len(writers)]
  BY <1>1, <1>2, BecomesFacts
<1>4. Typed'
  <2>1. toUndo' = toUndo
    BY <1>1 DEF dagVars
  <2>2. QED
    BY <1>1, <1>3, <2>1 DEF Typed
<1>5. CallerInv' /\ ApprovalInv' /\ WriterInv' /\ SagaInv'
  BY <1>1, <1>2, WriterGoesOn
<1>6. ListInv'
  <2>1. end = "returned" => Len(writers[w].executed) = PlanLength
    <3>1. Len(writers[w].executed) <= PlanLength
      BY DEF IInv, ListInv
    <3>2. QED
      BY <1>0, <1>2, <3>1, RemediationAssumption DEF NextStep
  <2>2. ASSUME NEW v \in DOMAIN writers
        PROVE  /\ Len(writers'[v].executed) <= PlanLength
               /\ writers'[v].at = "returned" => Len(writers'[v].executed) = PlanLength
               /\ FirstSteps(writers'[v].executed)
               /\ LatestFirst(writers'[v].reverting)
    <3>1. CASE v = w
      BY <1>2, <1>3, <2>1, <3>1 DEF IInv, ListInv
    <3>2. CASE v # w
      BY <1>3, <3>2 DEF IInv, ListInv
    <3>3. QED
      BY <3>1, <3>2
  <2>3. LatestFirst(sagaSteps') /\ DOMAIN writers' = DOMAIN writers
    BY <1>1, <1>3 DEF IInv, ListInv
  <2>4. QED
    BY <2>2, <2>3 DEF ListInv
<1>7. CountInv'
  <2>1. ASSUME NEW v \in DOMAIN writers, NEW s \in Steps, Tried(v, s) PROVE Tried(v, s)'
    <3>1. CASE v = w
      BY <1>0, <1>2, <1>3, <2>1, <3>1 DEF Tried
    <3>2. CASE v # w
      BY <1>3, <2>1, <3>2 DEF Tried
    <3>3. QED
      BY <3>1, <3>2
  <2>2. DOMAIN writers \subseteq DOMAIN writers' /\ \A s \in Steps : writes'[s] = writes[s]
    BY <1>1, <1>3
  <2>3. QED
    BY <1>4, <2>1, <2>2, CountKept DEF IInv
<1>8. BatchInv'
  <2>1. ASSUME Len(writers) = 1
        PROVE  Latest'.at # "reverting" /\ Latest'.executed = Latest.executed /\ saga = "off"
    <3>1. w = 1 /\ Latest' = next /\ Latest = writers[w]
      BY <1>3, <2>1 DEF Latest
    <3>2. saga = "off"
      BY <1>1, <3>1 DEF IInv, SagaInv, Live
    <3>3. QED
      BY <1>0, <1>2, <3>1, <3>2
  <2>2. QED
    BY <1>1, <1>3, <2>1 DEF IInv, BatchInv
<1>9. ReliableInv'
  <2>1. ASSUME ~auditMayFail, end = "raised", NEW s \in Steps, Pending(s)' PROVE FALSE
    <3>1. Pending(s) /\ s \in Nat \ {0}
      BY <1>1, <2>1 DEF Pending, Steps
    <3>2. Len(writers) = 1
      BY <1>3, <2>1 DEF IInv, ReliableInv
    <3>3. w = 1 /\ Latest = writers[w]
      BY <1>3, <3>2 DEF Latest
    <3>4. Latest.at = "reverting" /\ Len(Latest.reverting) = 0
      BY <1>0, <2>1, <3>3
    <3>5. s <= 0
      BY <3>1, <3>2, <3>4 DEF IInv, BatchInv
    <3>6. QED
      BY <3>1, <3>5
  <2>2. lost' = lost /\ (~auditMayFail => lost = {})
    BY <1>1 DEF IInv, ReliableInv
  <2>3. QED
    BY <1>1, <1>2, <2>1, <2>2, ReliableGoesOn
<1>10. QED
  BY <1>4, <1>5, <1>6, <1>7, <1>8, <1>9 DEF IInv

(* One turn of an undo leaves one step less to account for.                *)
LEMMA VisitFacts ==
  ASSUME Typed, NEW s \in Steps, NEW aborts, VisitStep(s, aborts), UNCHANGED lost
  PROVE  /\ world' \in [Steps -> {"untouched", "applied", "undone"}]
         /\ stuck' \subseteq Undoable
         /\ \A t \in Steps : /\ world'[t] = "applied" => world[t] = "applied"
                             /\ world[t] = "untouched" => world'[t] = "untouched" \/ t = s
                             /\ Pending(t)' => Pending(t) /\ t # s
         /\ aborts => auditMayFail
<1>1. world \in [Steps -> {"untouched", "applied", "undone"}] /\ stuck \subseteq Undoable
  BY DEF Typed
<1>2. CASE s \in Undoable /\ world' = [world EXCEPT ![s] = "undone"] /\ UNCHANGED stuck
  BY <1>1, <1>2 DEF Pending, VisitStep
<1>3. CASE s \in Undoable /\ stuck' = stuck \cup {s} /\ UNCHANGED world
  BY <1>1, <1>3 DEF Pending, VisitStep
<1>4. CASE s \notin Undoable /\ UNCHANGED <<world, stuck>>
  BY <1>1, <1>4 DEF Pending, VisitStep
<1>5. QED
  BY <1>2, <1>3, <1>4 DEF VisitStep

LEMMA RevertIInv == ASSUME IInv, NEW w \in DOMAIN writers, Revert(w) PROVE IInv'
<1>0. /\ writers[w].at = "reverting" /\ writers[w].reverting # <<>>
      /\ UNCHANGED <<saga, sagaSteps, writes, lost>> /\ UNCHANGED dagVars
      /\ Live(w) /\ Typed
  BY DEF Revert, Live, IInv
<1>1. PICK aborts \in BOOLEAN :
        /\ VisitStep(Head(writers[w].reverting), aborts)
        /\ Becomes(w, [writers[w] EXCEPT !.at = IF aborts THEN "raised" ELSE @,
                                         !.reverting = Tail(@)])
  BY DEF Revert
<1> DEFINE last == Head(writers[w].reverting)
<1> DEFINE next == [writers[w] EXCEPT !.at = IF aborts THEN "raised" ELSE @,
                                      !.reverting = Tail(@)]
<1>2. writers[w] \in Writer /\ writers[w].reverting \in Seq(Steps)
      /\ LatestFirst(writers[w].reverting) /\ writers[w].executed \in Seq(Steps)
  <2>1. writers[w] \in Writer /\ LatestFirst(writers[w].reverting)
    BY <1>0 DEF Typed, IInv, ListInv
  <2>2. QED
    BY <2>1 DEF Writer
<1>3. /\ last \in Steps /\ last = Len(writers[w].reverting)
      /\ Len(writers[w].reverting) \in Nat \ {0}
      /\ Tail(writers[w].reverting) \in Seq(Steps)
      /\ Len(Tail(writers[w].reverting)) = Len(writers[w].reverting) - 1
      /\ LatestFirst(Tail(writers[w].reverting))
  BY <1>0, <1>2, TailFacts
<1>4. /\ world' \in [Steps -> {"untouched", "applied", "undone"}]
      /\ stuck' \subseteq Undoable
      /\ \A t \in Steps : /\ world'[t] = "applied" => world[t] = "applied"
                          /\ Pending(t)' => Pending(t) /\ t # last
      /\ aborts => auditMayFail
  BY <1>0, <1>1, <1>3, VisitFacts
<1>5. /\ next \in Writer /\ next.at = (IF aborts THEN "raised" ELSE "reverting")
      /\ next.executed = writers[w].executed
      /\ next.reverting = Tail(writers[w].reverting)
  <2>1. /\ next.at = (IF aborts THEN "raised" ELSE "reverting")
        /\ next.executed = writers[w].executed
        /\ next.reverting = Tail(writers[w].reverting)
    BY <1>0, <1>2 DEF Writer
  <2>2. next \in Writer
    BY <1>0, <1>2, <1>3 DEF Writer
  <2>3. QED
    BY <2>1, <2>2
<1>6. Becomes(w, next)
  BY <1>1
<1> HIDE DEF next
<1>7. /\ writers' \in Seq(Writer) /\ Len(writers') = Len(writers)
      /\ DOMAIN writers = 1..Len(writers) /\ DOMAIN writers' = 1..Len(writers)
      /\ Len(writers) \in Nat \ {0} /\ writers' # <<>> /\ writers'[w] = next
      /\ \A v \in DOMAIN writers : v # w => writers'[v] = writers[v]
      /\ Latest' = writers'[Len(writers)]
  BY <1>0, <1>5, <1>6, BecomesFacts
<1>8. Typed'
  <2>1. toUndo' = toUndo
    BY <1>0 DEF dagVars
  <2>2. QED
    BY <1>0, <1>4, <1>7, <2>1 DEF Typed
<1>9. CallerInv' /\ ApprovalInv' /\ WriterInv' /\ SagaInv'
  BY <1>0, <1>5, <1>6, WriterGoesOn
<1>10. ListInv'
  <2>1. ASSUME NEW v \in DOMAIN writers
        PROVE  /\ Len(writers'[v].executed) <= PlanLength
               /\ writers'[v].at = "returned" => Len(writers'[v].executed) = PlanLength
               /\ FirstSteps(writers'[v].executed)
               /\ LatestFirst(writers'[v].reverting)
    <3>1. CASE v = w
      BY <1>3, <1>5, <1>7, <3>1 DEF IInv, ListInv
    <3>2. CASE v # w
      BY <1>7, <3>2 DEF IInv, ListInv
    <3>3. QED
      BY <3>1, <3>2
  <2>2. LatestFirst(sagaSteps') /\ DOMAIN writers' = DOMAIN writers
    BY <1>0, <1>7 DEF IInv, ListInv
  <2>3. QED
    BY <2>1, <2>2 DEF ListInv
<1>11. CountInv'
  <2>1. ASSUME NEW v \in DOMAIN writers, NEW s \in Steps, Tried(v, s) PROVE Tried(v, s)'
    <3>1. CASE v = w
      BY <1>0, <1>5, <1>7, <2>1, <3>1 DEF Tried
    <3>2. CASE v # w
      BY <1>7, <2>1, <3>2 DEF Tried
    <3>3. QED
      BY <3>1, <3>2
  <2>2. DOMAIN writers \subseteq DOMAIN writers' /\ \A s \in Steps : writes'[s] = writes[s]
    BY <1>0, <1>7
  <2>3. QED
    BY <1>8, <2>1, <2>2, CountKept DEF IInv
<1>12. BatchInv'
  <2>1. ASSUME Len(writers) = 1, NEW s \in Steps
        PROVE  /\ world'[s] = "applied" /\ s \notin lost => s <= Len(Latest'.executed)
               /\ Pending(s)' => s <= Len(Latest'.reverting)
               /\ saga = "off"
    <3>1. w = 1 /\ Latest' = next /\ Latest = writers[w]
      BY <1>7, <2>1 DEF Latest
    <3>2. saga = "off"
      BY <1>0, <3>1 DEF IInv, SagaInv
    <3>3. world[s] = "applied" /\ s \notin lost => s <= Len(writers[w].executed)
      BY <2>1, <3>1 DEF IInv, BatchInv
    <3>4. Pending(s)' => s <= Len(writers[w].reverting) /\ s # Len(writers[w].reverting)
      BY <1>0, <1>3, <1>4, <2>1, <3>1 DEF IInv, BatchInv
    <3>5. s \in Nat
      BY DEF Steps
    <3>6. Len(Latest'.reverting) = Len(writers[w].reverting) - 1
          /\ Latest'.executed = writers[w].executed
      BY <1>3, <1>5, <3>1
    <3>7. Pending(s)' => s <= Len(Latest'.reverting)
      BY <1>3, <3>4, <3>5, <3>6
    <3>8. QED
      BY <1>4, <3>2, <3>3, <3>6, <3>7
  <2>2. QED
    BY <1>0, <1>7, <2>1 DEF BatchInv
<1>13. ReliableInv'
  <2>1. lost' = lost /\ (~auditMayFail => lost = {} /\ next.at # "raised")
    BY <1>0, <1>4, <1>5 DEF IInv, ReliableInv
  <2>2. QED
    BY <1>0, <1>5, <1>6, <2>1, ReliableGoesOn
<1>14. QED
  BY <1>8, <1>9, <1>10, <1>11, <1>12, <1>13 DEF IInv

LEMMA StartSagaIInv == ASSUME IInv, StartSaga PROVE IInv'
<1>1. /\ pc = "undo" /\ "execute" \in toUndo
      /\ saga = "off" /\ saga' = "reverting" /\ sagaSteps' = Reverse(Latest.executed)
      /\ UNCHANGED <<writers, world, writes, stuck, lost>> /\ UNCHANGED dagVars
  BY DEF StartSaga, Dag!IsLast, Last, Latest
<1>2. Passed("execute") /\ toUndo = {"execute"} /\ writers # <<>> /\ Latest.at = "returned"
  BY <1>1 DEF IInv, SagaInv, Typed, WriterInv
<1>3. Latest' = Latest /\ Len(writers) \in DOMAIN writers /\ Latest \in Writer
  <2>1. writers \in Seq(Writer)
    BY DEF IInv, Typed
  <2>2. Len(writers) \in DOMAIN writers
    BY <1>2, <2>1, EmptySeq
  <2>3. QED
    BY <1>1, <2>1, <2>2 DEF Latest
<1>4. /\ sagaSteps' \in Seq(Steps) /\ Len(sagaSteps') = Len(Latest.executed)
      /\ LatestFirst(sagaSteps')
  <2>1. Latest.executed \in Seq(Steps) /\ FirstSteps(Latest.executed)
    BY <1>3 DEF Writer, IInv, ListInv, Latest
  <2>2. QED
    BY <1>1, <2>1, ReverseFacts
<1>5. Typed'
  <2>1. toUndo' = toUndo
    BY <1>1 DEF dagVars
  <2>2. QED
    BY <1>1, <1>4, <2>1 DEF IInv, Typed
<1>6. CallerInv' /\ ApprovalInv' /\ WriterInv' /\ SagaInv'
  <2>1. CallerInv'
    BY <1>1, ExecutorStays DEF IInv, CallerInv
  <2>2. ApprovalInv'
    BY <1>1, ExecutorStays DEF IInv, ApprovalInv
  <2>3. WriterInv'
    BY <1>1, <1>3, ExecutorStays DEF IInv, WriterInv, Live
  <2>4. SagaInv'
    BY <1>1, <1>2, <1>3, ExecutorStays DEF SagaInv
  <2>5. QED
    BY <2>1, <2>2, <2>3, <2>4
<1>7. ListInv' /\ CountInv'
  <2>1. ListInv'
    BY <1>1, <1>4 DEF IInv, ListInv
  <2>2. CountInv'
    BY <1>1 DEF IInv, CountInv, Tried
  <2>3. QED
    BY <2>1, <2>2
<1>8. BatchInv'
  BY <1>1, <1>2, <1>3, <1>4 DEF IInv, BatchInv, Pending
<1>9. ReliableInv'
  <2>1. WriterRaised' <=> WriterRaised
    BY <1>1, <1>3 DEF WriterRaised
  <2>2. \A s \in Steps : Pending(s)' <=> Pending(s)
    BY <1>1 DEF Pending
  <2>3. QED
    BY <1>1, <2>1, <2>2, ExecutorStays DEF IInv, ReliableInv
<1>10. QED
  BY <1>5, <1>6, <1>7, <1>8, <1>9 DEF IInv

LEMMA SagaRevertsIInv == ASSUME IInv, SagaReverts PROVE IInv'
<1>0. /\ saga = "reverting" /\ sagaSteps # <<>> /\ sagaSteps' = Tail(sagaSteps)
      /\ UNCHANGED <<writers, writes, lost>> /\ UNCHANGED dagVars
      /\ Typed
  BY DEF SagaReverts, IInv
<1>1. PICK aborts \in BOOLEAN : /\ VisitStep(Head(sagaSteps), aborts)
                                /\ saga' = IF aborts THEN "raised" ELSE saga
  BY DEF SagaReverts
<1>2. /\ Head(sagaSteps) \in Steps /\ Head(sagaSteps) = Len(sagaSteps)
      /\ Len(sagaSteps) \in Nat \ {0}
      /\ sagaSteps' \in Seq(Steps)
      /\ Len(sagaSteps') = Len(sagaSteps) - 1
      /\ LatestFirst(sagaSteps')
  <2>1. sagaSteps \in Seq(Steps) /\ LatestFirst(sagaSteps)
    BY <1>0 DEF Typed, IInv, ListInv
  <2>2. QED
    BY <1>0, <2>1, TailFacts
<1>3. /\ world' \in [Steps -> {"untouched", "applied", "undone"}]
      /\ stuck' \subseteq Undoable
      /\ \A t \in Steps : /\ world'[t] = "applied" => world[t] = "applied"
                          /\ Pending(t)' => Pending(t) /\ t # Len(sagaSteps)
      /\ saga' \in {"reverting", "raised"} /\ (saga' = "raised" => auditMayFail)
  BY <1>0, <1>1, <1>2, VisitFacts
<1>4. Typed'
  <2>1. toUndo' = toUndo
    BY <1>0 DEF dagVars
  <2>2. QED
    BY <1>0, <1>2, <1>3, <2>1 DEF Typed
<1>5. CallerInv' /\ ApprovalInv' /\ WriterInv' /\ SagaInv' /\ Latest' = Latest
  <2>0. Latest' = Latest
    BY <1>0 DEF Latest
  <2>1. CallerInv'
    BY <1>0, ExecutorStays DEF IInv, CallerInv
  <2>2. ApprovalInv'
    BY <1>0, ExecutorStays DEF IInv, ApprovalInv
  <2>3. WriterInv'
    BY <1>0, <2>0, ExecutorStays DEF IInv, WriterInv, Live
  <2>4. SagaInv'
    BY <1>0, <1>3, <2>0, ExecutorStays DEF IInv, SagaInv
  <2>5. QED
    BY <2>0, <2>1, <2>2, <2>3, <2>4
<1>6. ListInv' /\ CountInv'
  <2>1. ListInv'
    BY <1>0, <1>2 DEF IInv, ListInv
  <2>2. CountInv'
    BY <1>0 DEF IInv, CountInv, Tried
  <2>3. QED
    BY <2>1, <2>2
<1>7. BatchInv'
  <2>1. writers # <<>>
    BY <1>0 DEF IInv, SagaInv
  <2>2. ASSUME Len(writers) = 1, NEW s \in Steps
        PROVE  /\ world'[s] = "applied" /\ s \notin lost => s <= Len(Latest.executed)
               /\ Pending(s)' /\ Latest.at = "reverting" => s <= Len(Latest.reverting)
               /\ Pending(s)' => s <= Len(sagaSteps')
    <3>1. /\ world[s] = "applied" /\ s \notin lost => s <= Len(Latest.executed)
          /\ Pending(s) /\ Latest.at = "reverting" => s <= Len(Latest.reverting)
          /\ Pending(s) => s <= Len(sagaSteps)
      BY <1>0, <2>2 DEF IInv, BatchInv
    <3>2. s \in Nat
      BY DEF Steps
    <3>3. QED
      BY <1>2, <1>3, <3>1, <3>2
  <2>3. QED
    BY <1>0, <1>5, <2>1, <2>2 DEF BatchInv
<1>8. ReliableInv'
  <2>1. WriterRaised' <=> WriterRaised
    BY <1>0, <1>5 DEF WriterRaised
  <2>2. \A s \in Steps : Pending(s)' => Pending(s)
    BY <1>3
  <2>3. QED
    BY <1>0, <1>3, <2>1, <2>2, ExecutorStays DEF IInv, ReliableInv
<1>9. QED
  BY <1>4, <1>5, <1>6, <1>7, <1>8 DEF IInv

(* The saga is over: the executor has recorded it, or an exception of the  *)
(* ledger has left the executor.                                           *)
LEMMA SagaEnds ==
  ASSUME Typed, ExecutorInv, ExecutorInv', FinishSaga \/ SagaRaises
  PROVE  /\ LogGrows /\ pc = "undo" /\ saga' = "done" /\ toUndo' = {}
         /\ pc' = "undo" \/ (pc' = "idle" /\ auditMayFail)
         /\ UNCHANGED <<run, cp, pos, invocations>>
         /\ UNCHANGED <<writers, sagaSteps, world, writes, stuck, lost>>
         /\ (saga = "reverting" /\ sagaSteps = <<>>) \/ saga = "raised"
<1>1. CASE FinishSaga
  <2>1. /\ pc = "undo" /\ saga' = "done" /\ toUndo' = toUndo \ {"execute"}
        /\ UNCHANGED <<cp, pos, invocations, auditMayFail>>
        /\ UNCHANGED <<writers, sagaSteps, world, writes, stuck, lost>>
        /\ saga = "reverting" /\ sagaSteps = <<>>
        /\ (UNCHANGED <<run, pc>> \/ (auditMayFail /\ pc' = "idle" /\ UNCHANGED run))
        /\ \/ Dag!Log("node.compensated", "execute")
           \/ audit' = audit \o <<Dag!Rec("node.compensated", "execute"),
                                  Dag!Rec("compensation.failed", "execute")>>
    BY <1>1 DEF FinishSaga, Dag!UndoSucceeds, Dag!UndoRecordFails, Dag!Escape, Dag!invocationVars
  <2>2. CASE Dag!Log("node.compensated", "execute")
    <3>1. LogGrows
      BY <2>1, <2>2, AppendedIsLogged
    <3>2. QED
      BY <2>1, <3>1 DEF Typed
  <2>3. CASE audit' = audit \o <<Dag!Rec("node.compensated", "execute"),
                                 Dag!Rec("compensation.failed", "execute")>>
    <3>1. audit \in Seq(AuditEntry) /\ audit' \in Seq(AuditEntry)
      BY DEF ExecutorInv
    <3>2. PICK r1, r2 : audit' = audit \o <<r1, r2>>
      BY <2>3
    <3>3. Len(audit) \in Nat /\ Len(audit') = Len(audit) + 2
          /\ \A i \in 1..Len(audit) : audit'[i] = audit[i]
      BY <3>1, <3>2
    <3>4. LogGrows
      BY <2>1, <3>3, LongerLog
    <3>5. QED
      BY <2>1, <3>4 DEF Typed
  <2>4. QED
    BY <2>1, <2>2, <2>3
<1>2. CASE SagaRaises
  <2>1. /\ pc = "undo" /\ saga' = "done" /\ toUndo' = toUndo \ {"execute"}
        /\ UNCHANGED <<run, cp, pos, invocations, auditMayFail>>
        /\ UNCHANGED <<writers, sagaSteps, world, writes, stuck, lost>>
        /\ saga = "raised" /\ Dag!Log("compensation.failed", "execute")
        /\ pc' = pc \/ (auditMayFail /\ pc' = "idle")
    BY <1>2 DEF SagaRaises, Dag!UndoFails, Dag!Escape, Dag!invocationVars
  <2>2. LogGrows
    BY <2>1, AppendedIsLogged
  <2>3. QED
    BY <2>1, <2>2 DEF Typed
<1>3. QED
  BY <1>1, <1>2

LEMMA SagaEndsIInv ==
  ASSUME IInv, ExecutorInv, ExecutorInv', FinishSaga \/ SagaRaises
  PROVE  IInv'
<1>0. /\ LogGrows /\ pc = "undo" /\ saga' = "done" /\ toUndo' = {}
      /\ pc' = "undo" \/ (pc' = "idle" /\ auditMayFail)
      /\ UNCHANGED <<run, cp, pos, invocations>>
      /\ UNCHANGED <<writers, sagaSteps, world, writes, stuck, lost>>
      /\ (saga = "reverting" /\ sagaSteps = <<>>) \/ saga = "raised"
  BY SagaEnds DEF IInv
<1>1. /\ Approvals \in Nat /\ Approvals' \in Nat /\ Approvals <= Approvals'
      /\ TimedOut => TimedOut'
      /\ auditMayFail' = auditMayFail /\ Latest' = Latest
      /\ \A n : Passed(n)' <=> Passed(n)
      /\ Clear' <=> Clear
      /\ \A s \in Steps : Pending(s)' <=> Pending(s)
  BY <1>0, MoveKeepsLog DEF Latest, Passed, Clear, Pending
<1>2. Typed'
  BY <1>0 DEF IInv, Typed
<1>3. CallerInv'
  BY <1>0 DEF IInv, CallerInv, Passed
<1>4. ApprovalInv'
  <2>1. Len(writers) \in Nat
    BY DEF IInv, Typed
  <2>2. QED
    BY <1>0, <1>1, <2>1 DEF IInv, ApprovalInv
<1>5. WriterInv'
  BY <1>0, <1>1 DEF IInv, WriterInv, Live, Executing
<1>6. SagaInv'
  BY <1>0, <1>1 DEF IInv, SagaInv
<1>7. ListInv' /\ CountInv'
  <2>1. ListInv'
    BY <1>0 DEF IInv, ListInv
  <2>2. CountInv'
    BY <1>0 DEF IInv, CountInv, Tried
  <2>3. QED
    BY <2>1, <2>2
<1>8. BatchInv'
  BY <1>0, <1>1 DEF IInv, BatchInv
<1>9. ReliableInv'
  <2>1. SUFFICES ASSUME ~auditMayFail PROVE ReliableInv'
    BY <1>1 DEF ReliableInv
  <2>2. saga = "reverting" /\ Len(sagaSteps) = 0 /\ pc' = "undo" /\ writers # <<>>
    BY <1>0, <2>1 DEF IInv, SagaInv
  <2>3. Len(writers) = 1
    <3>1. writers \in Seq(Writer) /\ Len(writers) <= 1
      BY <2>1 DEF IInv, Typed, ReliableInv
    <3>2. PICK n \in Nat : n = Len(writers) /\ n # 0 /\ n <= 1
      BY <2>2, <3>1, EmptySeq
    <3>3. n = 1
      BY <3>2
    <3>4. QED
      BY <3>2, <3>3
  <2>4. ASSUME NEW s \in Steps, Pending(s) PROVE FALSE
    <3>1. s <= 0 /\ s \in Nat \ {0}
      BY <2>2, <2>3, <2>4 DEF IInv, BatchInv, Steps
    <3>2. QED
      BY <3>1
  <2>5. writers = <<>> \/ WriterRaised \/ TimedOut \/ Passed("execute")
    BY <1>0, <2>1 DEF IInv, ReliableInv
  <2>6. (WriterRaised' <=> WriterRaised) /\ Committed'
    BY <1>0, <1>1, <2>2 DEF WriterRaised, Committed
  <2>7. QED
    BY <1>0, <1>1, <2>1, <2>2, <2>3, <2>4, <2>5, <2>6 DEF IInv, ReliableInv
<1>10. QED
  BY <1>2, <1>3, <1>4, <1>5, <1>6, <1>7, <1>8, <1>9 DEF IInv

(* A writer starts: the first one, or one more than there were, with an    *)
(* approval that no other writer had.                                      *)
LEMMA EnterExecuteIInv ==
  ASSUME IInv, ExecutorInv, ExecutorInv', EnterExecute
  PROVE  IInv'
<1>0. /\ pos = 9 /\ writers' = Append(writers, NewWriter) /\ saga' = "off"
      /\ Dag!EnterUngated
      /\ UNCHANGED <<sagaSteps, world, writes, stuck, lost>>
      /\ Workflow[9] = "execute" /\ "execute" \in Name /\ "execute" # Gate
      /\ PlanLength \in Nat \ {0}
  BY AtExecuteIsNine, WorkflowFacts, RemediationAssumption DEF EnterExecute, Gate
<1>1. /\ pc = "loop" /\ pc' = "running" /\ ~Passed("execute")
      /\ UNCHANGED <<run, cp, pos, toUndo, audit, auditMayFail, invocations>>
  <2>1. Dag!Current = "execute" /\ Dag!AtNewNode /\ Dag!Enter("execute")
    BY <1>0 DEF Dag!EnterUngated, Dag!Current
  <2>2. "execute" \notin {"approval_gate"}
    OBVIOUS
  <2>3. QED
    BY <1>0, <2>1, <2>2 DEF Dag!EnterUngated, Dag!AtNewNode, Dag!Enter, Dag!Completed,
       Passed, Dag!invocationVars, Dag!undoVars
<1>2. /\ \A n : Passed(n)' <=> Passed(n)
      /\ (TimedOut' <=> TimedOut) /\ (Clear' <=> Clear) /\ Approvals' = Approvals
  BY <1>1 DEF Passed, TimedOut, Clear, Approvals, Dag!Logged, Dag!Times, Dag!Rec
<1>3. /\ writers \in Seq(Writer) /\ Len(writers) \in Nat
      /\ DOMAIN writers = 1..Len(writers)
      /\ NewWriter \in Writer /\ NewWriter.at = "writing"
      /\ NewWriter.executed = <<>> /\ NewWriter.reverting = <<>>
  BY DEF IInv, Typed, NewWriter, Writer
<1>4. /\ writers' \in Seq(Writer) /\ Len(writers') = Len(writers) + 1
      /\ DOMAIN writers' = 1..(Len(writers) + 1)
      /\ writers'[Len(writers) + 1] = NewWriter
      /\ \A w \in 1..Len(writers) : writers'[w] = writers[w]
      /\ writers' # <<>> /\ Latest' = NewWriter
  <2>1. /\ writers' \in Seq(Writer) /\ Len(writers') = Len(writers) + 1
        /\ DOMAIN writers' = 1..(Len(writers) + 1)
        /\ writers'[Len(writers) + 1] = NewWriter
        /\ \A w \in 1..Len(writers) : writers'[w] = writers[w]
    BY <1>0, <1>3
  <2>2. QED
    BY <1>3, <2>1, EmptySeq DEF Latest
<1>5. Typed'
  BY <1>0, <1>1, <1>4 DEF IInv, Typed
<1>6. CallerInv'
  BY <1>0, <1>1 DEF IInv, CallerInv
<1>7. ApprovalInv'
  <2>1. Approvals \in Nat
    BY ApprovalsAreFinite
  <2>2. CASE writers # <<>>
    <3>1. Len(writers) < Approvals
      BY <1>0, <1>1, <2>2 DEF IInv, ApprovalInv
    <3>2. QED
      BY <1>1, <1>2, <1>3, <1>4, <2>1, <3>1 DEF ApprovalInv
  <2>3. CASE writers = <<>>
    <3>1. Len(writers') = 1
      BY <1>4, <2>3
    <3>2. Authorised
      BY <1>0, <1>1 DEF ExecutorInv
    <3>3. Dag!Logged("gate.approved", Gate) => 1 <= Approvals
      <4>1. SUFFICES ASSUME Dag!Logged("gate.approved", Gate) PROVE Approvals # 0
        BY <2>1
      <4>2. /\ {i \in DOMAIN audit : audit[i] = Dag!Rec("gate.approved", Gate)} # {}
            /\ IsFiniteSet({i \in DOMAIN audit : audit[i] = Dag!Rec("gate.approved", Gate)})
        BY <4>1, ApprovalsAreFinite DEF Dag!Logged
      <4>3. Cardinality({i \in DOMAIN audit : audit[i] = Dag!Rec("gate.approved", Gate)}) # 0
        BY <4>2, FS_EmptySet
      <4>4. QED
        BY <4>3, SameCardinality DEF Approvals, Dag!Times
    <3>4. Clear => run.status # "PAUSED"
      BY <1>1 DEF IInv, CallerInv, Clear
    <3>5. QED
      BY <1>1, <1>2, <3>1, <3>2, <3>3, <3>4 DEF ApprovalInv, Authorised
  <2>4. QED
    BY <2>2, <2>3
<1>8. WriterInv'
  <2>1. ASSUME NEW w \in DOMAIN writers', Live(w)'
        PROVE  TimedOut' \/ (Executing' /\ w = Len(writers'))
    <3>1. CASE w = Len(writers) + 1
      BY <1>0, <1>1, <1>4, <3>1 DEF Executing
    <3>2. CASE w # Len(writers) + 1
      <4>1. w \in DOMAIN writers /\ Live(w)
        BY <1>3, <1>4, <2>1, <3>2 DEF Live
      <4>2. TimedOut
        BY <1>1, <4>1 DEF IInv, WriterInv, Executing
      <4>3. QED
        BY <1>2, <4>2
    <3>3. QED
      BY <3>1, <3>2
  <2>2. QED
    BY <1>1, <1>2, <1>4, <2>1 DEF WriterInv
<1>9. SagaInv'
  BY <1>0, <1>1 DEF SagaInv
<1>10. ListInv'
  <2>1. ASSUME NEW w \in DOMAIN writers'
        PROVE  /\ Len(writers'[w].executed) <= PlanLength
               /\ writers'[w].at = "returned" => Len(writers'[w].executed) = PlanLength
               /\ FirstSteps(writers'[w].executed)
               /\ LatestFirst(writers'[w].reverting)
    <3>1. CASE w = Len(writers) + 1
      BY <1>0, <1>3, <1>4, <3>1 DEF FirstSteps, LatestFirst
    <3>2. CASE w # Len(writers) + 1
      <4>1. w \in DOMAIN writers /\ writers'[w] = writers[w]
        BY <1>3, <1>4, <2>1, <3>2
      <4>2. QED
        BY <4>1 DEF IInv, ListInv
    <3>3. QED
      BY <3>1, <3>2
  <2>2. QED
    BY <1>0, <2>1 DEF IInv, ListInv
<1>11. CountInv'
  <2>1. DOMAIN writers \subseteq DOMAIN writers'
    BY <1>3, <1>4
  <2>2. \A w \in DOMAIN writers, s \in Steps : Tried(w, s) => Tried(w, s)'
    BY <1>3, <1>4 DEF Tried
  <2>3. \A s \in Steps : writes'[s] = writes[s]
    BY <1>0
  <2>4. QED
    BY <1>5, <2>1, <2>2, <2>3, CountKept DEF IInv
<1>12. BatchInv'
  <2>1. Len(writers') = 1 => writers = <<>>
    BY <1>3, <1>4, EmptySeq
  <2>2. QED
    BY <1>0, <1>3, <1>4, <2>1 DEF IInv, BatchInv, Pending
<1>13. ReliableInv'
  <2>1. SUFFICES ASSUME ~auditMayFail PROVE ReliableInv'
    BY <1>1 DEF ReliableInv
  <2>2. writers = <<>>
    BY <1>1, <2>1 DEF IInv, ReliableInv, Committed, Executing
  <2>3. Len(writers') <= 1
    BY <1>3, <1>4, <2>2
  <2>4. Committed' /\ ~WriterRaised'
    BY <1>0, <1>1, <1>3, <1>4 DEF Committed, Executing, WriterRaised
  <2>5. run.status \notin {"FAILED", "COMPENSATED"}
    BY <1>1 DEF IInv, CallerInv
  <2>6. lost' = {}
    BY <1>0, <2>1 DEF IInv, ReliableInv
  <2>7. QED
    BY <1>0, <1>1, <2>3, <2>4, <2>5, <2>6 DEF ReliableInv
<1>14. QED
  BY <1>5, <1>6, <1>7, <1>8, <1>9, <1>10, <1>11, <1>12, <1>13 DEF IInv

LEMMA InitIInv == Init => IInv
<1>1. SUFFICES ASSUME Init PROVE IInv
  OBVIOUS
<1>2. /\ run.status = "NONE" /\ run.checkpoint = cp /\ pc = "idle"
      /\ toUndo = {} /\ invocations = 0
      /\ cp = [n \in Name |-> "absent"]
      /\ writers = <<>> /\ saga = "off" /\ sagaSteps = <<>>
      /\ stuck = {} /\ lost = {}
      /\ world = [s \in Steps |-> "untouched"] /\ writes = [s \in Steps |-> 0]
  BY <1>1 DEF Init, Dag!Init, Dag!EmptyCp
<1>3. ~Passed(Gate) /\ ~Passed("execute") /\ cp[Gate] = "absent"
  BY <1>2, WorkflowFacts DEF Passed
<1>4. Len(writers) = 0 /\ Len(sagaSteps) = 0 /\ DOMAIN writers = {}
  BY <1>2
<1>5. Typed
  BY <1>2 DEF Typed
<1>6. CallerInv /\ ApprovalInv /\ WriterInv /\ SagaInv
  BY <1>2, <1>3, <1>4 DEF CallerInv, ApprovalInv, WriterInv, SagaInv, Executing
<1>7. ListInv /\ BatchInv
  BY <1>2, <1>4 DEF ListInv, LatestFirst, BatchInv
<1>8. CountInv
  <2>1. SUFFICES ASSUME NEW s \in Steps
                 PROVE  writes[s] <= Cardinality({w \in DOMAIN writers : Tried(w, s)})
    BY DEF CountInv
  <2>2. {w \in DOMAIN writers : Tried(w, s)} = {} /\ writes[s] = 0
    BY <1>2, <1>4
  <2>3. QED
    BY <2>2, FS_EmptySet
<1>9. ReliableInv
  BY <1>2, <1>4 DEF ReliableInv, WriterRaised
<1>10. QED
  BY <1>5, <1>6, <1>7, <1>8, <1>9 DEF IInv

(* What the executor does besides entering the execute node.               *)
Moves ==
  \/ Call \/ OtherNodes \/ OtherWorkerEnds \/ AbandonedWriterEnds
  \/ ExecuteSucceeds \/ ExecuteRaises \/ ExecuteTimesOut

LEMMA NextKinds ==
  ASSUME ExecutorInv, ExecutorInv', [Next]_vars
  PROVE  \/ Move
         \/ EnterExecute
         \/ StartSaga
         \/ SagaReverts
         \/ FinishSaga \/ SagaRaises
         \/ \E w \in DOMAIN writers : Write(w)
<1>1. CASE Moves
  BY <1>1, MoveKinds DEF Moves
<1>2. CASE UNCHANGED vars
  <2>1. UNCHANGED worldVars /\ UNCHANGED dagVars
    BY <1>2 DEF vars
  <2>2. UNCHANGED <<pc, run, cp, pos, toUndo, invocations, audit, auditMayFail>>
    BY <2>1 DEF dagVars
  <2>3. QED
    BY <2>1, <2>2, SameLog DEF Move, Waits, SameProgress
<1>3. QED
  BY <1>1, <1>2 DEF Next, Moves, ExecuteNode, Saga

LEMMA NextIInv == IInv /\ ExecutorInv /\ ExecutorInv' /\ [Next]_vars => IInv'
<1>1. SUFFICES ASSUME IInv, ExecutorInv, ExecutorInv', [Next]_vars PROVE IInv'
  OBVIOUS
<1>2. CASE \E w \in DOMAIN writers : Write(w)
  <2>1. PICK w \in DOMAIN writers : Write(w)
    BY <1>2
  <2>2. auditMayFail \in BOOLEAN
    BY <1>1 DEF ExecutorInv
  <2>3. QED
    BY <1>1, <2>1, <2>2, CallStepIInv, CallStepRaisesIInv, FinishIInv, RevertIInv DEF Write
<1>3. QED
  BY <1>1, <1>2, NextKinds, MoveIInv, EnterExecuteIInv, StartSagaIInv, SagaRevertsIInv,
     SagaEndsIInv

-----------------------------------------------------------------------------
(* The invariant, and what it says.                                        *)

(* In every state the executor, the writers and the saga are where IInv    *)
(* says (_execute, _compensate_execute and the executor that calls them).  *)
THEOREM Invariance == Spec => []IInv
<1>1. Init => IInv
  BY InitIInv
<1>2. QED
  BY <1>1, NextIInv, ExecutorHolds, PTL DEF Spec

(* No step is written by more writers than there are.                      *)
LEMMA WritesNeedWriters ==
  ASSUME IInv, NEW s \in Steps
  PROVE  /\ writes[s] \in Nat /\ Len(writers) \in Nat
         /\ writes[s] <= Len(writers)
         /\ (\A w \in DOMAIN writers : ~Tried(w, s)) => writes[s] = 0
<1> DEFINE tried == {w \in DOMAIN writers : Tried(w, s)}
<1>1. /\ writes[s] \in Nat /\ Len(writers) \in Nat /\ DOMAIN writers = 1..Len(writers)
      /\ writes[s] <= Cardinality(tried)
  BY DEF IInv, Typed, CountInv
<1>2. tried \subseteq 1..Len(writers) /\ IsFiniteSet(1..Len(writers))
      /\ Cardinality(1..Len(writers)) = Len(writers)
  <2>1. PICK n \in Nat : n = Len(writers)
    BY <1>1
  <2>2. IsFiniteSet(1..n) /\ Cardinality(1..n) = n
    BY FS_Interval
  <2>3. QED
    BY <1>1, <2>1, <2>2
<1>3. (\A w \in DOMAIN writers : ~Tried(w, s)) => tried = {}
  OBVIOUS
<1> HIDE DEF tried
<1>4. Cardinality(tried) \in Nat /\ Cardinality(tried) <= Len(writers)
  BY <1>2, FS_Subset, FS_CardinalityType
<1>5. tried = {} => Cardinality(tried) = 0
  BY FS_EmptySet
<1>6. QED
  BY <1>1, <1>3, <1>4, <1>5

(* Nothing is written to production unless a human approved the gate or    *)
(* policy asked for no approval, whoever runs _execute and however long,   *)
(* whether or not the ledger raises.                                       *)
THEOREM WritesAreAuthorised == Spec => []WritesAuthorised
<1>1. IInv /\ ExecutorInv => WritesAuthorised
  <2>1. SUFFICES ASSUME IInv, ExecutorInv, NEW s \in Steps, writes[s] > 0
                 PROVE  Authorised
    BY DEF WritesAuthorised, Authorised, Clear, Gate
  <2>2. Len(writers) \in Nat /\ Len(writers) > 0
    BY <2>1, WritesNeedWriters
  <2>3. Len(writers) <= Approvals \/ Clear
    BY <2>1, <2>2 DEF IInv, ApprovalInv
  <2>4. Approvals > 0 => Dag!Logged("gate.approved", Gate)
    <3>1. SUFFICES ASSUME ~Dag!Logged("gate.approved", Gate) PROVE Approvals = 0
      BY <2>1, ApprovalsAreFinite
    <3>2. {i \in DOMAIN audit : audit[i] = Dag!Rec("gate.approved", Gate)} = {}
      BY <3>1 DEF Dag!Logged
    <3>3. QED
      BY <3>2, FS_EmptySet, SameCardinality DEF Approvals, Dag!Times
  <2>5. Approvals \in Nat
    BY <2>1, ApprovalsAreFinite
  <2>6. QED
    BY <2>2, <2>3, <2>4, <2>5 DEF Authorised
<1>2. QED
  BY <1>1, Invariance, ExecutorHolds, PTL

(* With a ledger that does not raise, no write of the plan is made twice,  *)
(* by a resume, by an abandoned writer or after a batch that failed; with  *)
(* one that may, a write is made again at most once per further approval.  *)
THEOREM BatchesAreNotReplayed == Spec => []NoStepReplayed
<1>1. IInv /\ ExecutorInv => NoStepReplayed
  <2>1. SUFFICES ASSUME IInv, ExecutorInv, NEW s \in Steps, ~(writes[s] <= 1)
                 PROVE  auditMayFail /\ writes[s] <= Approvals
    BY DEF NoStepReplayed, Approvals, Gate
  <2>2. writes[s] \in Nat /\ Len(writers) \in Nat /\ writes[s] <= Len(writers)
    BY <2>1, WritesNeedWriters
  <2>3. Approvals \in Nat
    BY <2>1, ApprovalsAreFinite
  <2>4. writers # <<>> /\ Len(writers) # 1 /\ ~(Len(writers) <= 1)
    <3>1. PICK n \in Nat : n = Len(writers) /\ n # 0 /\ n # 1 /\ ~(n <= 1)
      BY <2>1, <2>2
    <3>2. QED
      BY <3>1
  <2>5. Len(writers) <= Approvals
    BY <2>1, <2>4 DEF IInv, ApprovalInv
  <2>6. auditMayFail
    BY <2>1, <2>4 DEF IInv, ReliableInv
  <2>7. QED
    BY <2>2, <2>3, <2>5, <2>6
<1>2. QED
  BY <1>1, Invariance, ExecutorHolds, PTL

(* With a ledger that does not raise, a run that did not succeed leaves an *)
(* undoable write behind only when its undo failed, the execute node timed *)
(* out or the deadline struck after it.                                    *)
THEOREM ResidueIsExplained == Spec => []ResidueExplained
<1>1. IInv => ResidueExplained
  <2>1. SUFFICES ASSUME IInv, ~auditMayFail, Finished, WritersOver,
                        NEW s \in Residue, s \notin stuck, ~TimedOut, ~Deadline
                 PROVE  FALSE
    BY DEF ResidueExplained, TimedOut, Deadline
  <2>2. lost = {} /\ s \in Steps /\ Pending(s)
    BY <2>1, RemediationAssumption DEF Residue, Pending, IInv, ReliableInv
  <2>3. writers # <<>>
    BY <2>1, <2>2 DEF IInv, BatchInv, Pending
  <2>4. WriterRaised \/ saga = "done"
    BY <2>1, <2>3 DEF IInv, ReliableInv, Finished
  <2>5. QED
    BY <2>1, <2>2, <2>4 DEF IInv, ReliableInv
<1>2. QED
  BY <1>1, Invariance, PTL

(* What changes production: a call of a live writer, or an undo of the last*)
(* step that a live writer, or the saga, has still to visit.               *)
LEMMA WorldChanges ==
  ASSUME IInv, ExecutorInv, ExecutorInv', [Next]_vars, world' # world
  PROVE  \/ \E w \in DOMAIN writers : Live(w) /\ (CallStep(w) \/ CallStepRaises(w))
         \/ \E w \in DOMAIN writers :
              /\ writers[w].at = "reverting" /\ writers[w].reverting # <<>>
              /\ world' = [world EXCEPT ![Len(writers[w].reverting)] = "undone"]
         \/ /\ saga = "reverting" /\ sagaSteps # <<>>
            /\ world' = [world EXCEPT ![Len(sagaSteps)] = "undone"]
<1>1. CASE Move \/ EnterExecute \/ StartSaga \/ FinishSaga \/ SagaRaises
  BY <1>1 DEF Move, worldVars, EnterExecute, StartSaga, FinishSaga, SagaRaises
<1>2. CASE SagaReverts
  <2>1. PICK aborts : VisitStep(Head(sagaSteps), aborts)
    BY <1>2 DEF SagaReverts
  <2>2. Head(sagaSteps) = Len(sagaSteps) /\ saga = "reverting" /\ sagaSteps # <<>>
    BY <1>2, TailFacts DEF SagaReverts, IInv, Typed, ListInv
  <2>3. QED
    BY <2>1, <2>2 DEF VisitStep
<1>3. ASSUME NEW w \in DOMAIN writers, Write(w)
      PROVE  \/ Live(w) /\ (CallStep(w) \/ CallStepRaises(w))
             \/ /\ writers[w].at = "reverting" /\ writers[w].reverting # <<>>
                /\ world' = [world EXCEPT ![Len(writers[w].reverting)] = "undone"]
  <2>1. CASE FinishWriting(w) \/ FinishReverting(w)
    BY <2>1 DEF FinishWriting, FinishReverting
  <2>2. CASE CallStep(w) \/ CallStepRaises(w)
    BY <2>2 DEF CallStep, CallStepRaises, Writing, Live
  <2>3. CASE Revert(w)
    <3>1. PICK aborts : VisitStep(Head(writers[w].reverting), aborts)
      BY <2>3 DEF Revert
    <3>2. writers[w].reverting \in Seq(Steps) /\ LatestFirst(writers[w].reverting)
      <4>1. writers[w] \in Writer
        BY DEF IInv, Typed
      <4>2. QED
        BY <4>1 DEF IInv, ListInv, Writer
    <3>3. /\ Head(writers[w].reverting) = Len(writers[w].reverting)
          /\ writers[w].at = "reverting" /\ writers[w].reverting # <<>>
      BY <2>3, <3>2, TailFacts DEF Revert
    <3>4. QED
      BY <3>1, <3>3 DEF VisitStep
  <2>4. QED
    BY <1>3, <2>1, <2>2, <2>3 DEF Write
<1>4. QED
  BY <1>1, <1>2, <1>3, NextKinds

(* The writes of one batch are undone most recent first: when one is       *)
(* undone, every later one that has an undo was undone before it or is     *)
(* accounted for.                                                          *)
THEOREM UndoesInReverse == Spec => UndoneInReverse
<1> DEFINE A == Len(writers) = 1 =>
                  \A s \in Steps : world[s] = "applied" /\ world'[s] = "undone" =>
                    \A t \in Undoable : t > s => world[t] # "applied" \/ t \in stuck \cup lost
<1>1. ASSUME IInv, ExecutorInv, ExecutorInv', [Next]_vars PROVE A
  <2>1. SUFFICES ASSUME Len(writers) = 1, NEW s \in Steps, world[s] = "applied",
                        world'[s] = "undone", NEW t \in Undoable, t > s, Pending(t)
                 PROVE  FALSE
    BY DEF Pending
  <2>2. /\ s \in Nat /\ t \in Steps /\ t \in Nat
        /\ world \in [Steps -> {"untouched", "applied", "undone"}]
        /\ DOMAIN writers = {1}
    <3>1. writers \in Seq(Writer) /\ DOMAIN writers = 1..1
      BY <1>1, <2>1 DEF IInv, Typed
    <3>2. QED
      BY <1>1, <3>1, RemediationAssumption DEF IInv, Typed, Steps
  <2>3. ASSUME NEW list, world' = [world EXCEPT ![Len(list)] = "undone"] PROVE s = Len(list)
    BY <2>1, <2>2, <2>3
  <2>4. CASE \E w \in DOMAIN writers : CallStep(w) \/ CallStepRaises(w)
    <3>1. PICK step : world' = world \/ world' = [world EXCEPT ![step] = "applied"]
      BY <2>4 DEF CallStep, CallStepRaises, CallIsLost, Apply
    <3>2. QED
      BY <2>1, <2>2, <3>1
  <2>5. CASE \E w \in DOMAIN writers :
               /\ writers[w].at = "reverting"
               /\ world' = [world EXCEPT ![Len(writers[w].reverting)] = "undone"]
    <3>1. /\ Latest.at = "reverting"
          /\ world' = [world EXCEPT ![Len(Latest.reverting)] = "undone"]
      BY <2>1, <2>2, <2>5 DEF Latest
    <3>2. t <= Len(Latest.reverting) /\ s = Len(Latest.reverting)
      BY <1>1, <2>1, <2>2, <2>3, <3>1 DEF IInv, BatchInv
    <3>3. QED
      BY <2>1, <2>2, <3>2
  <2>6. CASE saga = "reverting" /\ world' = [world EXCEPT ![Len(sagaSteps)] = "undone"]
    <3>1. t <= Len(sagaSteps) /\ s = Len(sagaSteps)
      BY <1>1, <2>1, <2>2, <2>3, <2>6 DEF IInv, BatchInv
    <3>2. QED
      BY <2>1, <2>2, <3>1
  <2>7. world' # world
    BY <2>1
  <2>8. QED
    BY <1>1, <2>4, <2>5, <2>6, <2>7, WorldChanges
<1>2. QED
  BY <1>1, Invariance, ExecutorHolds, PTL DEF Spec, UndoneInReverse

(* Once the call has returned or raised, production changes only by the    *)
(* hand of a writer that the executor timed out, whether or not the ledger *)
(* raises.                                                                 *)
THEOREM StaysQuiet == Spec => QuietAfterReturn
<1> DEFINE A == pc = "idle" /\ world' # world => Dag!Logged("node.timeout", "execute")
<1>1. ASSUME IInv, ExecutorInv, ExecutorInv', [Next]_vars PROVE A
  <2>1. SUFFICES ASSUME pc = "idle", world' # world PROVE TimedOut
    BY DEF TimedOut
  <2>2. saga # "reverting"
    BY <1>1, <2>1 DEF IInv, SagaInv
  <2>3. PICK w \in DOMAIN writers : Live(w)
    BY <1>1, <2>1, <2>2, WorldChanges DEF Live
  <2>4. QED
    BY <1>1, <2>1, <2>3 DEF IInv, WriterInv, Executing
<1>2. QED
  BY <1>1, Invariance, ExecutorHolds, PTL DEF Spec, QuietAfterReturn

(* No node of the workflow starts before the one it depends on, nothing    *)
(* past the gate runs without an approval or a clear verdict; and, if the  *)
(* ledger does not raise, no body runs twice at once or succeeds twice     *)
(* however often the run is resumed, the outcome returned is the one the   *)
(* log tells, and undo handlers run in the reverse of the order of success.*)
THEOREM WorkflowKeepsOrder ==
  Spec => [](/\ Executor!DependenciesFirst
             /\ Executor!GatesRespected
             /\ Executor!NoRacingAttempts
             /\ Executor!NoReplay
             /\ Executor!OutcomeMatchesHistory
             /\ Executor!UndoReversesCompletion)
<1>1. Executor!DagAssumption
  BY WorkflowIsValid DEF Dag!DagAssumption, Executor!DagAssumption
<1>2. {"execute"} \cap {"approval_gate"} = {}
  OBVIOUS
<1>3. Spec => /\ []Executor!DependenciesFirst
             /\ []Executor!GatesRespected
             /\ []Executor!NoRacingAttempts
             /\ []Executor!NoReplay
             /\ []Executor!OutcomeMatchesHistory
             /\ []Executor!UndoReversesCompletion
  BY RunsTheExecutor, <1>1, <1>2, Executor!DependenciesFirstHolds,
     Executor!GatesRespectedHolds, Executor!NoRacingAttemptsHolds,
     Executor!NothingIsReplayed, Executor!OutcomeTellsHistory,
     Executor!UndoGoesBackwards, PTL
<1>4. QED
  BY <1>3, PTL

(* What the caller of run_incident_remediation sees of a run is a          *)
(* DurableWorkflow: progress that is closed under dependencies and only    *)
(* grows, pauses at gates that are not done, one end.                      *)
THEOREM WorkflowIsDurable == Spec => Executor!ImplementsDurableWorkflow
<1>1. Executor!DagAssumption
  BY WorkflowIsValid DEF Dag!DagAssumption, Executor!DagAssumption
<1>2. QED
  BY RunsTheExecutor, <1>1, Executor!Refinement, PTL

-----------------------------------------------------------------------------
(* A run that succeeded.                                                   *)

(* With a ledger that does not raise, what the writer did stands until it  *)
(* is undone; the saga runs only on the way to a failure.                  *)
CompleteInv == ~auditMayFail =>
  /\ saga = "off" /\ Len(writers) = 1 /\ Latest.at \in {"writing", "returned"} =>
       \A i \in 1..Len(Latest.executed) : world[i] = "applied" /\ writes[i] = 1
  /\ saga # "off" =>
       pc = "undo" \/ (pc = "idle" /\ run.status \in {"FAILED", "COMPENSATED"})

(* With a ledger that does not raise, a run that succeeded has every step  *)
(* of its plan in production, each applied once and none undone.           *)
SuccessIsComplete ==
  ~auditMayFail /\ run.status = "SUCCEEDED" =>
    \A s \in Steps : world[s] = "applied" /\ writes[s] = 1

LEMMA MoveCompleteInv == ASSUME IInv, CompleteInv, Move PROVE CompleteInv'
<1>1. Move /\ UNCHANGED worldVars /\ auditMayFail' = auditMayFail
  BY MoveKeepsLog DEF Move
<1>2. ASSUME ~auditMayFail, saga # "off"
      PROVE  pc' = "undo" \/ (pc' = "idle" /\ run'.status \in {"FAILED", "COMPENSATED"})
  <2>1. pc = "undo" \/ (pc = "idle" /\ ~Dag!Resumable /\ run.status \in {"FAILED", "COMPENSATED"})
    BY <1>2 DEF CompleteInv, Dag!Resumable
  <2>2. Waits \/ UndoReturns
    BY <1>1, <2>1 DEF Move, Starts, Skips, PassesGate, Succeeds, Advances, Enters, Retries,
       Fails, Undoes, LoopReturns, Escapes
  <2>3. QED
    BY <2>1, <2>2 DEF Waits, SameProgress, UndoReturns, Returns
<1>3. QED
  BY <1>1, <1>2 DEF CompleteInv, worldVars, Latest

LEMMA CallStepCompleteInv ==
  ASSUME IInv, CompleteInv, NEW w \in DOMAIN writers, CallStep(w)
  PROVE  CompleteInv'
<1>1. /\ UNCHANGED <<run, pc, auditMayFail, saga>>
      /\ Writing(w) /\ Apply(NextStep(w)) /\ writers[w].at = "writing"
      /\ Becomes(w, [writers[w] EXCEPT !.executed = Append(@, NextStep(w))])
  BY DEF CallStep, dagVars, Writing
<1>2. PICK step : step = NextStep(w)
  OBVIOUS
<1>3. PICK next : next = [writers[w] EXCEPT !.executed = Append(@, step)]
  OBVIOUS
<1>4. /\ writers[w] \in Writer /\ step \in Steps
      /\ world' \in [Steps -> {"untouched", "applied", "undone"}]
      /\ writes' \in [Steps -> Nat] /\ writes \in [Steps -> Nat]
      /\ writes'[step] = writes[step] + 1 /\ world'[step] = "applied"
      /\ \A s \in Steps \ {step} : writes'[s] = writes[s] /\ world'[s] = world[s]
  BY <1>1, <1>2, AppliedStep DEF IInv, Typed
<1>5. /\ writers[w].executed \in Seq(Steps) /\ Len(writers[w].executed) \in Nat
      /\ step = Len(writers[w].executed) + 1
      /\ next \in Writer /\ Len(next.executed) = step
  <2>1. writers[w].executed \in Seq(Steps) /\ Len(writers[w].executed) \in Nat
    BY <1>4 DEF Writer
  <2>2. step = Len(writers[w].executed) + 1
    BY <1>2 DEF NextStep
  <2>3. PICK list : list = Append(writers[w].executed, step)
    OBVIOUS
  <2>4. list \in Seq(Steps) /\ Len(list) = step
    BY <1>4, <2>1, <2>2, <2>3
  <2>5. next = [writers[w] EXCEPT !.executed = list]
    BY <1>3, <2>3
  <2>6. next \in Writer /\ next.executed = list
    BY <1>4, <2>4, <2>5 DEF Writer
  <2>7. QED
    BY <2>1, <2>2, <2>4, <2>6
<1>6. Len(writers') = Len(writers) /\ DOMAIN writers = 1..Len(writers)
      /\ writers'[w] = next /\ Latest' = writers'[Len(writers)]
  BY <1>1, <1>2, <1>3, <1>5, BecomesFacts DEF IInv
<1>7. ASSUME ~auditMayFail, saga = "off", Len(writers) = 1,
             NEW i \in 1..Len(next.executed)
      PROVE  world'[i] = "applied" /\ writes'[i] = 1
  <2>1. w = 1 /\ Latest = writers[w]
    BY <1>6, <1>7 DEF Latest
  <2>2. \A v \in DOMAIN writers : ~Tried(v, step)
    BY <1>1, <1>5, <1>6, <1>7, <2>1 DEF Tried
  <2>3. writes[step] = 0
    BY <1>4, <2>2, WritesNeedWriters
  <2>4. CASE i = step
    BY <1>4, <2>3, <2>4
  <2>5. CASE i # step
    <3>1. i \in 1..Len(writers[w].executed) /\ i \in Steps
      BY <1>4, <1>5, <1>7, <2>5, RemediationAssumption DEF Steps
    <3>2. world[i] = "applied" /\ writes[i] = 1
      BY <1>1, <1>7, <2>1, <3>1 DEF CompleteInv
    <3>3. QED
      BY <1>4, <2>5, <3>1, <3>2
  <2>6. QED
    BY <2>4, <2>5
<1>8. Len(writers) = 1 => Latest' = next
  BY <1>6
<1>9. QED
  BY <1>1, <1>6, <1>7, <1>8 DEF CompleteInv

LEMMA WriterCompleteInv ==
  ASSUME IInv, CompleteInv, NEW w \in DOMAIN writers, Write(w)
  PROVE  CompleteInv'
<1>1. CASE CallStep(w)
  BY <1>1, CallStepCompleteInv
<1>2. ASSUME NEW next \in Writer, Becomes(w, next), UNCHANGED dagVars, UNCHANGED saga,
             next.at \in {"reverting", "raised"} \/
               (UNCHANGED <<world, writes>> /\ writers[w].at = "writing"
                  /\ next.executed = writers[w].executed)
      PROVE  CompleteInv'
  <2>1. Len(writers') = Len(writers) /\ DOMAIN writers = 1..Len(writers)
        /\ writers'[w] = next /\ Latest' = writers'[Len(writers)]
    BY <1>2, BecomesFacts DEF IInv
  <2>2. UNCHANGED <<run, pc, auditMayFail>>
    BY <1>2 DEF dagVars
  <2>3. Len(writers) = 1 => w = 1 /\ Latest' = next /\ Latest = writers[w]
    BY <2>1 DEF Latest
  <2>4. QED
    BY <1>2, <2>1, <2>2, <2>3 DEF CompleteInv
<1>3. writers[w] \in Writer /\ writers[w].executed \in Seq(Steps)
      /\ FirstSteps(writers[w].executed)
  <2>1. writers[w] \in Writer /\ FirstSteps(writers[w].executed)
    BY DEF IInv, Typed, ListInv
  <2>2. QED
    BY <2>1 DEF Writer
<1>4. CASE CallStepRaises(w)
  <2>1. [writers[w] EXCEPT !.at = "reverting", !.reverting = Reverse(writers[w].executed)] \in Writer
    BY <1>3, ReverseFacts DEF Writer
  <2>2. QED
    BY <1>2, <1>3, <1>4, <2>1 DEF CallStepRaises, Writer
<1>5. CASE FinishWriting(w) \/ FinishReverting(w)
  <2>1. PICK end \in {"returned", "raised"} :
          /\ Becomes(w, [writers[w] EXCEPT !.at = end])
          /\ end = "raised" \/ writers[w].at = "writing"
    BY <1>5 DEF FinishWriting, FinishReverting
  <2>2. UNCHANGED <<world, writes>> /\ UNCHANGED dagVars /\ UNCHANGED saga
    BY <1>5 DEF FinishWriting, FinishReverting
  <2>3. PICK next : next = [writers[w] EXCEPT !.at = end]
    OBVIOUS
  <2>4. next \in Writer /\ next.at = end /\ next.executed = writers[w].executed
    BY <1>3, <2>3 DEF Writer
  <2>5. QED
    BY <1>2, <2>1, <2>2, <2>3, <2>4
<1>6. CASE Revert(w)
  <2>1. PICK aborts \in BOOLEAN :
          Becomes(w, [writers[w] EXCEPT !.at = IF aborts THEN "raised" ELSE @,
                                        !.reverting = Tail(@)])
    BY <1>6 DEF Revert
  <2>2. writers[w].at = "reverting" /\ UNCHANGED dagVars /\ UNCHANGED saga
        /\ Tail(writers[w].reverting) \in Seq(Steps)
    <3>1. /\ writers[w].at = "reverting" /\ writers[w].reverting # <<>>
          /\ UNCHANGED dagVars /\ UNCHANGED saga
      BY <1>6 DEF Revert
    <3>2. writers[w].reverting \in Seq(Steps) /\ LatestFirst(writers[w].reverting)
      BY <1>3 DEF IInv, ListInv, Writer
    <3>3. QED
      BY <3>1, <3>2, TailFacts
  <2>3. PICK next : next = [writers[w] EXCEPT !.at = IF aborts THEN "raised" ELSE @,
                                              !.reverting = Tail(@)]
    OBVIOUS
  <2>4. next \in Writer /\ next.at \in {"reverting", "raised"}
    BY <1>3, <2>2, <2>3 DEF Writer
  <2>5. QED
    BY <1>2, <2>1, <2>2, <2>3, <2>4
<1>7. QED
  BY <1>1, <1>4, <1>5, <1>6 DEF Write

LEMMA NextCompleteInv ==
  IInv /\ CompleteInv /\ ExecutorInv /\ ExecutorInv' /\ [Next]_vars => CompleteInv'
<1>1. SUFFICES ASSUME IInv, CompleteInv, ExecutorInv, ExecutorInv', [Next]_vars
               PROVE  CompleteInv'
  OBVIOUS
<1>2. CASE EnterExecute
  <2>1. IInv' /\ saga' = "off" /\ writers' = Append(writers, NewWriter)
    BY <1>1, <1>2, EnterExecuteIInv DEF EnterExecute
  <2>2. Len(writers') \in Nat /\ Latest' = NewWriter
    <3>1. writers \in Seq(Writer) /\ NewWriter \in Writer
      BY <1>1 DEF IInv, Typed, NewWriter, Writer
    <3>2. QED
      BY <2>1, <3>1 DEF Latest
  <2>3. QED
    BY <2>1, <2>2 DEF CompleteInv, NewWriter
<1>3. CASE StartSaga \/ SagaReverts
  <2>1. /\ saga' # "off" /\ UNCHANGED <<pc, run, auditMayFail>>
        /\ pc = "undo"
    BY <1>1, <1>3 DEF StartSaga, SagaReverts, dagVars, IInv, SagaInv
  <2>2. QED
    BY <2>1 DEF CompleteInv
<1>4. CASE FinishSaga \/ SagaRaises
  <2>1. /\ saga' = "done" /\ auditMayFail' = auditMayFail
        /\ pc' = "undo" \/ auditMayFail
    BY <1>1, <1>4, SagaEnds, MoveKeepsLog DEF IInv
  <2>2. QED
    BY <2>1 DEF CompleteInv
<1>5. QED
  BY <1>1, <1>2, <1>3, <1>4, NextKinds, MoveCompleteInv, WriterCompleteInv

(* With a ledger that does not raise, SUCCEEDED means that the plan stands *)
(* in production: every step applied, once, and none undone, nor ever will *)
(* be (_execute and the executor).                                         *)
THEOREM SuccessMeansApplied == Spec => []SuccessIsComplete
<1>1. Init => CompleteInv
  <2>1. SUFFICES ASSUME Init PROVE CompleteInv
    OBVIOUS
  <2>2. Len(writers) = 0 /\ saga = "off"
    BY <2>1 DEF Init
  <2>3. QED
    BY <2>2 DEF CompleteInv
<1>2. IInv /\ CompleteInv /\ ExecutorInv /\ Executor!OutcomeMatchesHistory => SuccessIsComplete
  <2>1. SUFFICES ASSUME IInv, CompleteInv, Executor!OutcomeMatchesHistory, ~auditMayFail,
                        run.status = "SUCCEEDED", NEW s \in Steps
                 PROVE  world[s] = "applied" /\ writes[s] = 1
    BY DEF SuccessIsComplete
  <2>2. pc = "idle"
    BY <2>1 DEF IInv, CallerInv
  <2>3. run.checkpoint = cp
    BY <2>1, <2>2 DEF IInv, ReliableInv
  <2>4. Executor!Completed(run.checkpoint) = Name
    BY <2>1 DEF Executor!OutcomeMatchesHistory
  <2>5. Passed("execute")
    BY <2>3, <2>4, WorkflowFacts DEF Executor!Completed, Passed
  <2>6. writers # <<>> /\ Latest.at = "returned" /\ Len(writers) <= 1 /\ saga = "off"
    BY <2>1, <2>2, <2>5 DEF IInv, WriterInv, ReliableInv, CompleteInv
  <2>7. Len(writers) = 1 /\ 1 \in DOMAIN writers
    <3>1. PICK n \in Nat : n = Len(writers) /\ n # 0 /\ n <= 1 /\ DOMAIN writers = 1..n
      BY <2>1, <2>6, EmptySeq DEF IInv, Typed
    <3>2. n = 1
      BY <3>1
    <3>3. QED
      BY <3>1, <3>2
  <2>8. Len(Latest.executed) = PlanLength
    BY <2>1, <2>6, <2>7 DEF IInv, ListInv, Latest
  <2>9. QED
    BY <2>1, <2>6, <2>7, <2>8 DEF CompleteInv, Steps
<1>3. QED
  BY <1>1, <1>2, NextCompleteInv, Invariance, ExecutorHolds, WorkflowKeepsOrder, PTL DEF Spec

=============================================================================
