-------------------------- MODULE IncidentRemediation --------------------------
(***************************************************************************)
(* The incident-remediation workflow (workflows/incident_remediation.py)   *)
(* on the executor of module DagExecutor, and what its execute node does   *)
(* to production: the planned writes, the undo of a failed batch, and the  *)
(* saga that undoes a completed one.  A writer is a worker thread that runs*)
(* _execute; a timeout abandons it and it goes on, so that the writer of a *)
(* later call may find it at work.  The other bodies keep the outcomes     *)
(* DagExecutor gives every body.  Connectors, compensator and executor     *)
(* write to one AuditLog: with auditMayFail, any of their records may raise*)
(* once it is in memory.                                                   *)
(***************************************************************************)
EXTENDS Naturals, Sequences, FiniteSets, SequencesExt

CONSTANTS
  PlanLength,     \* the plan's steps are 1..PlanLength
  Undoable,       \* steps whose result carries an undo descriptor
  MaxAttempts,    \* RetryPolicy's default max_attempts
  MaxInvocations  \* bound: calls of run_incident_remediation

Steps == 1..PlanLength

ASSUME RemediationAssumption ==
  /\ PlanLength \in Nat \ {0}
  /\ Undoable \subseteq Steps
  /\ MaxAttempts \in Nat \ {0}
  /\ MaxInvocations \in Nat

VARIABLES run, pc, cp, pos, approvals, attempt, toUndo, compensated, workers,
          audit, invocations, auditMayFail

VARIABLES
  writers,   \* the threads that entered _execute, first to last
  saga,      \* _compensate_execute() as called by the executor
  sagaSteps, \* steps the saga has not visited yet
  world,     \* world[s]: what step s has done to production
  writes,    \* times step s was applied
  stuck,     \* steps whose undo failed
  lost       \* steps applied by a call that raised

dagVars   == <<run, pc, cp, pos, approvals, attempt, toUndo, compensated,
               workers, audit, invocations, auditMayFail>>
worldVars == <<writers, saga, sagaSteps, world, writes, stuck, lost>>
vars      == <<dagVars, worldVars>>

(* Fault: execute stands before the gate.                                  *)
UngatedWorkflow == <<"triage", "gather_evidence", "security_screen", "diagnose",
                     "plan", "review", "policy_check", "execute", "approval_gate",
                     "verify", "learn", "postmortem">>

(* build_workflow().                                                       *)
Workflow == <<"triage", "gather_evidence", "security_screen", "diagnose", "plan",
              "review", "policy_check", "approval_gate", "execute", "verify",
              "learn", "postmortem">>
Name     == {Workflow[i] : i \in DOMAIN Workflow}
Previous == [n \in Name |->
               {Workflow[i] : i \in {j \in DOMAIN Workflow :
                                       j < Len(Workflow) /\ Workflow[j + 1] = n}}]

Dag == INSTANCE DagExecutor WITH
  Node        <- Name,
  Order       <- Workflow,
  Deps        <- Previous,
  GateNode    <- {"approval_gate"},
  GateInput   <- [g \in {"approval_gate"} |-> "policy_check"],
  Bodyless    <- {"approval_gate"},
  MaxAttempts <- [n \in Name |-> IF n = "execute" THEN 1 ELSE MaxAttempts],
  Timed       <- Name \ {"policy_check", "approval_gate", "learn", "postmortem"},
  Compensable <- {"execute"},
  HasDeadline <- TRUE,
  NoNode      <- "none"

AtExecute == pos <= Len(Workflow) /\ Workflow[pos] = "execute"

(* One run of _execute: where it stands, its list of steps done, and, once *)
(* a call has raised, the steps _compensate_execute has not visited yet.   *)
Writer == [at        : {"writing", "reverting", "returned", "raised"},
           executed  : Seq(Steps),
           reverting : Seq(Steps)]
NewWriter == [at |-> "writing", executed |-> <<>>, reverting |-> <<>>]
Live(w)   == writers[w].at \in {"writing", "reverting"}

TypeOK ==
  /\ Dag!TypeOK
  /\ writers \in Seq(Writer)
  /\ \A w \in DOMAIN writers : Len(writers[w].executed) <= PlanLength
  /\ saga \in {"off", "reverting", "raised", "done"}
  /\ sagaSteps \in Seq(Steps)
  /\ world \in [Steps -> {"untouched", "applied", "undone"}]
  /\ writes \in [Steps -> Nat]
  /\ stuck \subseteq Undoable /\ lost \subseteq Steps

Init ==
  /\ Dag!Init
  /\ writers = <<>>
  /\ saga = "off" /\ sagaSteps = <<>>
  /\ world = [s \in Steps |-> "untouched"]
  /\ writes = [s \in Steps |-> 0]
  /\ stuck = {} /\ lost = {}

-----------------------------------------------------------------------------
(* A writer: _execute().                                                   *)

EnterExecute ==
  /\ AtExecute
  /\ Dag!EnterUngated
  /\ writers' = Append(writers, NewWriter)
  /\ saga' = "off"
  /\ UNCHANGED <<sagaSteps, world, writes, stuck, lost>>

Becomes(w, next) == writers' = [writers EXCEPT ![w] = next]

NextStep(w) == Len(writers[w].executed) + 1
Writing(w)  == writers[w].at = "writing" /\ NextStep(w) <= PlanLength
Apply(s) ==
  /\ world' = [world EXCEPT ![s] = "applied"]
  /\ writes' = [writes EXCEPT ![s] = @ + 1]

CallStep(w) ==
  /\ Writing(w)
  /\ Apply(NextStep(w))
  /\ Becomes(w, [writers[w] EXCEPT !.executed = Append(@, NextStep(w))])
  /\ UNCHANGED <<dagVars, saga, sagaSteps, stuck, lost>>

(* The call raises before it has written, or in recording what it wrote.   *)
CallIsLost(w) ==
  \/ UNCHANGED <<world, writes, lost>>
  \/ auditMayFail /\ Apply(NextStep(w)) /\ lost' = lost \cup {NextStep(w)}

(* Fault: a failed batch is started again.                                 *)
CallStepRetriesBatch(w) ==
  /\ Writing(w)
  /\ CallIsLost(w)
  /\ Becomes(w, NewWriter)
  /\ UNCHANGED <<dagVars, saga, sagaSteps, stuck>>

(* Fault: a failed batch is not undone.                                    *)
CallStepJustRaises(w) ==
  /\ Writing(w)
  /\ CallIsLost(w)
  /\ Becomes(w, [writers[w] EXCEPT !.at = "reverting"])
  /\ UNCHANGED <<dagVars, saga, sagaSteps, stuck>>

(* The call raises: undo what is done, then raise.                         *)
CallStepRaises(w) ==
  /\ Writing(w)
  /\ CallIsLost(w)
  /\ Becomes(w, [writers[w] EXCEPT !.at = "reverting",
                                   !.reverting = Reverse(writers[w].executed)])
  /\ UNCHANGED <<dagVars, saga, sagaSteps, stuck>>

FinishWriting(w) ==
  /\ writers[w].at = "writing"
  /\ NextStep(w) > PlanLength
  /\ Becomes(w, [writers[w] EXCEPT !.at = "returned"])
  /\ UNCHANGED <<dagVars, saga, sagaSteps, world, writes, stuck, lost>>

(* One turn of the loop of _compensate_execute(), in either caller: the    *)
(* undo works, raises and is audited, or the step has none.  The loop goes *)
(* on, unless recording the undo raised and recording that raises as well, *)
(* or recording that the undo did not work raises.                         *)
VisitStep(s, aborts) ==
  /\ aborts => auditMayFail /\ s \in Undoable
  /\ \/ s \in Undoable /\ world' = [world EXCEPT ![s] = "undone"] /\ UNCHANGED stuck
     \/ s \in Undoable /\ stuck' = stuck \cup {s} /\ UNCHANGED world
     \/ s \notin Undoable /\ UNCHANGED <<world, stuck>>

Revert(w) ==
  /\ writers[w].at = "reverting"
  /\ writers[w].reverting # <<>>
  /\ \E aborts \in BOOLEAN :
       /\ VisitStep(Head(writers[w].reverting), aborts)
       /\ Becomes(w, [writers[w] EXCEPT !.at = IF aborts THEN "raised" ELSE @,
                                        !.reverting = Tail(@)])
  /\ UNCHANGED <<dagVars, saga, sagaSteps, writes, lost>>

(* Fault: a batch that failed at its first step does not raise.            *)
FinishRevertingOfSome(w) ==
  /\ writers[w].at = "reverting"
  /\ writers[w].reverting = <<>>
  /\ writers[w].executed # <<>>
  /\ Becomes(w, [writers[w] EXCEPT !.at = "raised"])
  /\ UNCHANGED <<dagVars, saga, sagaSteps, world, writes, stuck, lost>>

FinishReverting(w) ==
  /\ writers[w].at = "reverting"
  /\ writers[w].reverting = <<>>
  /\ Becomes(w, [writers[w] EXCEPT !.at = "raised"])
  /\ UNCHANGED <<dagVars, saga, sagaSteps, world, writes, stuck, lost>>

Write(w) ==
  \/ CallStep(w)
  \/ CallStepRaises(w)
  \/ FinishWriting(w)
  \/ Revert(w)
  \/ FinishReverting(w)

-----------------------------------------------------------------------------
(* The executor at the execute node.                                       *)

ExecuteSucceeds ==
  /\ AtExecute
  /\ Dag!Succeed("plain")
  /\ Last(writers).at = "returned"
  /\ UNCHANGED worldVars

ExecuteRaises ==
  /\ AtExecute
  /\ Dag!ExhaustRetries \/ Dag!FailPermanently
  /\ Last(writers).at = "raised"
  /\ UNCHANGED worldVars

ExecuteTimesOut ==
  /\ AtExecute
  /\ Dag!TimeOut
  /\ UNCHANGED worldVars

(* The thread of a writer that is over and that nobody waits for.          *)
Busy == {w \in DOMAIN writers :
           Live(w) \/ (w = Len(writers) /\ Dag!Started("execute"))}
AbandonedWriterEnds ==
  /\ workers["execute"] > Cardinality(Busy)
  /\ Dag!AbandonedWorkerEnds("execute")
  /\ UNCHANGED worldVars

-----------------------------------------------------------------------------
(* The undo handler of a completed execute node.                           *)

(* Fault: the saga undoes in the order of execution.                       *)
StartSagaForward ==
  /\ pc = "undo"
  /\ Dag!IsLast("execute", toUndo)
  /\ saga = "off"
  /\ saga' = "reverting"
  /\ sagaSteps' = Last(writers).executed
  /\ UNCHANGED <<dagVars, writers, world, writes, stuck, lost>>

(* What it visits is the output of the writer that returned.               *)
StartSaga ==
  /\ pc = "undo"
  /\ Dag!IsLast("execute", toUndo)
  /\ saga = "off"
  /\ saga' = "reverting"
  /\ sagaSteps' = Reverse(Last(writers).executed)
  /\ UNCHANGED <<dagVars, writers, world, writes, stuck, lost>>

SagaReverts ==
  /\ saga = "reverting"
  /\ sagaSteps # <<>>
  /\ \E aborts \in BOOLEAN :
       /\ VisitStep(Head(sagaSteps), aborts)
       /\ saga' = IF aborts THEN "raised" ELSE saga
  /\ sagaSteps' = Tail(sagaSteps)
  /\ UNCHANGED <<dagVars, writers, writes, lost>>

(* Fault: the executor does not wait for the handler.                      *)
FinishSagaEarly ==
  /\ saga = "reverting"
  /\ Dag!UndoSucceeds("execute") \/ Dag!UndoRecordFails("execute")
  /\ UNCHANGED worldVars

FinishSaga ==
  /\ saga = "reverting"
  /\ sagaSteps = <<>>
  /\ Dag!UndoSucceeds("execute") \/ Dag!UndoRecordFails("execute")
  /\ saga' = "done"
  /\ UNCHANGED <<writers, sagaSteps, world, writes, stuck, lost>>

SagaRaises ==
  /\ saga = "raised"
  /\ Dag!UndoFails("execute")
  /\ saga' = "done"
  /\ UNCHANGED <<writers, sagaSteps, world, writes, stuck, lost>>

Saga == StartSaga \/ SagaReverts \/ FinishSaga \/ SagaRaises

-----------------------------------------------------------------------------
ExecuteNode ==
  \/ EnterExecute
  \/ ExecuteSucceeds
  \/ ExecuteRaises
  \/ ExecuteTimesOut

(* The executor everywhere else.                                           *)
OtherNodes ==
  /\ \/ Dag!Loop /\ (AtExecute => pc' # "running")
     \/ ~AtExecute /\ Dag!Attempt
     \/ Dag!Escalate
     \/ Dag!FinishUndo
  /\ UNCHANGED worldVars

Call ==
  /\ \E decisions \in [{"approval_gate"} -> {"none", "approve", "deny"}] :
       Dag!Invoke(decisions)
  /\ UNCHANGED worldVars

OtherWorkerEnds ==
  /\ \E n \in Name \ {"execute"} : Dag!AbandonedWorkerEnds(n)
  /\ UNCHANGED worldVars

Next ==
  \/ Call
  \/ OtherNodes
  \/ OtherWorkerEnds
  \/ ExecuteNode
  \/ Saga
  \/ \E w \in DOMAIN writers : Write(w)
  \/ AbandonedWriterEnds

Spec == Init /\ [][Next]_vars

(* The executor's thread goes on, and every call of a connector ends, so   *)
(* that no writer stops half-way.                                          *)
FairSpec ==
  /\ Spec
  /\ WF_vars(OtherNodes) /\ WF_vars(ExecuteNode) /\ WF_vars(Saga)
  /\ WF_vars(\E w \in DOMAIN writers : Write(w))

-----------------------------------------------------------------------------
(* Properties.                                                             *)

Finished    == run.status \in {"FAILED", "COMPENSATED"} /\ pc = "idle"
WritersOver == \A w \in DOMAIN writers : ~Live(w)

(* Nothing is written to production unless a human approved the gate or    *)
(* policy asked for no approval -- nor by an abandoned writer, nor by one  *)
(* that a call started again after an escaped exception.                   *)
WritesAuthorised ==
  \A s \in Steps : writes[s] > 0 =>
    Dag!Logged("gate.approved", "approval_gate") \/ cp["policy_check"] = "clear"

(* A partially-applied batch is not replayed (build_workflow).  If a record*)
(* of the ledger raises, that holds within one approval only: the exception*)
(* leaves the caller a PAUSED run, and approving it again runs execute once*)
(* more, with the earlier writer perhaps still at work.                    *)
NoStepReplayed ==
  \A s \in Steps :
    \/ writes[s] <= 1
    \/ auditMayFail /\ writes[s] <= Dag!Times("gate.approved", "approval_gate")

(* If the ledger does not raise, a run that did not succeed leaves an      *)
(* undoable write in production only for one of three reasons, each of     *)
(* which the audit trail shows: its undo failed, the execute node timed    *)
(* out, or the deadline struck after it.  A ledger that raises can abort   *)
(* an undo loop, or turn a complete batch into a failed one, and leave the *)
(* rest with no such record.                                               *)
Residue == {s \in Undoable : world[s] = "applied"}
ResidueExplained ==
  ~auditMayFail /\ Finished /\ WritersOver /\ ~(Residue \subseteq stuck) =>
    \/ Dag!Logged("node.timeout", "execute")
    \/ \E n \in Name : Dag!Logged("workflow.deadline", n)

(* Writes of one batch are undone most recent first: when one is undone, no*)
(* later one still waits for its undo, unless that failed or the call that *)
(* made the write raised.                                                  *)
UndoneInReverse ==
  [][Len(writers) = 1 =>
       \A s \in Steps : world[s] = "applied" /\ world'[s] = "undone" =>
         \A t \in Undoable : t > s => world[t] # "applied" \/ t \in stuck \cup lost]_vars

(* Once the call has returned or raised, production changes only by the    *)
(* hand of a writer that timed out.                                        *)
QuietAfterReturn ==
  [][pc = "idle" /\ world' # world => Dag!Logged("node.timeout", "execute")]_vars

(* A call returns, and so does the undo of a batch that failed.            *)
Settles == (\E w \in DOMAIN writers : writers[w].at = "writing")
             ~> (pc = "idle" /\ WritersOver)
=============================================================================
