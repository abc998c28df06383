------------------------------ MODULE DagExecutor ------------------------------
(***************************************************************************)
(* The deterministic DAG executor of orchestration/dag.py: one caller that *)
(* executes a workflow and resumes it while it is paused at an approval    *)
(* gate.  A node's body is abstract: it succeeds with some output, raises  *)
(* TransientError, raises anything else, or outlives its wall-clock        *)
(* budget, in which case its worker thread goes on behind the executor's   *)
(* back.  The steps of one call of execute() are separate actions because  *)
(* those abandoned workers run between them.                               *)
(*                                                                         *)
(* The list `completed` of the code is always the checkpointed nodes in    *)
(* execution order (line 111 rebuilds it that way, lines 142 and 156 extend*)
(* it along the same walk), so it is the set Completed(cp) here and        *)
(* reversed(completed) is a walk of that set from its last node in Order.  *)
(***************************************************************************)
EXTENDS Naturals, Sequences, FiniteSets

CONSTANTS
  Node,           \* names of the nodes
  Order,          \* self._order: the nodes as _topo_sort returns them
  Deps,           \* Deps[n]: the nodes n depends on
  GateNode,       \* nodes that carry a GateSpec
  GateInput,      \* GateInput[g]: the node whose output g's `needed` inspects
  Bodyless,       \* nodes with run=None (pure gates)
  MaxAttempts,    \* MaxAttempts[n]: n's RetryPolicy.max_attempts
  Timed,          \* nodes with a timeout_s
  Compensable,    \* nodes with an undo handler
  HasDeadline,    \* the executor was built with a deadline_s
  MaxInvocations, \* bound: calls of execute() that are explored
  NoNode          \* "no pending gate"

ASSUME DagAssumption ==
  /\ NoNode \notin Node
  /\ Order \in Seq(Node)
  /\ \A n \in Node : \E i \in 1..Len(Order) : Order[i] = n
  /\ \A i, j \in 1..Len(Order) : Order[i] = Order[j] => i = j
  /\ Deps \in [Node -> SUBSET Node]
  /\ \A i \in 1..Len(Order) : \A d \in Deps[Order[i]] :
       \E j \in 1..Len(Order) : j < i /\ Order[j] = d
  /\ GateNode \subseteq Node
  /\ GateInput \in [GateNode -> Node]
  /\ Bodyless \subseteq Node
  /\ MaxAttempts \in [Node -> Nat \ {0}]
  /\ Timed \subseteq Node
  /\ Compensable \subseteq Node
  /\ HasDeadline \in BOOLEAN
  /\ MaxInvocations \in Nat

VARIABLES
  run,         \* the DagRun the caller holds ("NONE" before the first return)
  pc,          \* where execute() stands; "idle" when no call is active
  cp,          \* execute()'s working checkpoint
  pos,         \* index in Order of the for loop
  approvals,   \* the decisions passed to this call
  attempt,     \* attempt number of the current node
  toUndo,      \* completed nodes _compensate has not visited yet
  compensated, \* nodes whose undo handler returned, in that order
  workers,     \* workers[n]: live threads executing n's body
  audit,       \* the orchestrator's audit records, oldest first
  invocations, \* calls of execute() so far
  auditMayFail \* the audit log has a file, so an append may raise

vars == <<run, pc, cp, pos, approvals, attempt, toUndo, compensated, workers,
          audit, invocations, auditMayFail>>

Decision == {"none", "approve", "deny"}
Terminal == {"FAILED", "COMPENSATED", "SUCCEEDED"}
Action   == {"workflow.deadline", "gate.paused", "gate.denied", "gate.approved",
             "node.succeeded", "node.retry", "node.timeout", "node.failed",
             "node.compensated", "compensation.failed"}

(* What a checkpoint holds for a node; "clear" is the output that makes    *)
(* the gate reading it unnecessary (requires_approval false).              *)
Output   == {"absent", "passed", "plain", "clear", "risky"}
Cp       == [Node -> Output]
EmptyCp  == [n \in Node |-> "absent"]
OutputsOf(n) ==
  IF \E g \in GateNode : GateInput[g] = n /\ g # n
    THEN {"clear", "risky"} ELSE {"plain"}

Completed(c) == {n \in Node : c[n] # "absent"}
Needed(g, c) == c[GateInput[g]] # "clear"

Current   == Order[pos]
AtNewNode == pc = "loop" /\ pos <= Len(Order) /\ Current \notin Completed(cp)
Index(n)  == CHOOSE i \in 1..Len(Order) : Order[i] = n

DagRun == [status      : {"NONE", "PAUSED"} \cup Terminal,
           checkpoint  : Cp,
           pendingGate : Node \cup {NoNode},
           compensated : Seq(Node)]

TypeOK ==
  /\ run \in DagRun
  /\ pc \in {"idle", "loop", "running", "failing", "undo"}
  /\ cp \in Cp
  /\ pos \in 1..(Len(Order) + 1)
  /\ approvals \in [GateNode -> Decision]
  /\ attempt \in Nat
  /\ toUndo \subseteq Node
  /\ compensated \in Seq(Node)
  /\ workers \in [Node -> Nat]
  /\ audit \in Seq([action : Action, node : Node])
  /\ invocations \in 0..MaxInvocations
  /\ auditMayFail \in BOOLEAN

Init ==
  /\ run = [status |-> "NONE", checkpoint |-> EmptyCp,
            pendingGate |-> NoNode, compensated |-> <<>>]
  /\ pc = "idle"
  /\ cp = EmptyCp
  /\ pos = 1
  /\ approvals = [g \in GateNode |-> "none"]
  /\ attempt = 0
  /\ toUndo = {}
  /\ compensated = <<>>
  /\ workers = [n \in Node |-> 0]
  /\ audit = <<>>
  /\ invocations = 0
  /\ auditMayFail \in BOOLEAN

-----------------------------------------------------------------------------
(* Pieces of the actions.                                                  *)

(* The record is in the log whether or not writing it to disk then raises. *)
Rec(action, n) == [action |-> action, node |-> n]
Log(action, n) == audit' = Append(audit, Rec(action, n))
AuditRaises == IF auditMayFail THEN BOOLEAN ELSE {FALSE}

(* The call is over with a DagRun, or with an exception, which leaves the  *)
(* caller with the DagRun it had.                                          *)
Return(status, gate) ==
  /\ pc' = "idle"
  /\ run' = [status |-> status, checkpoint |-> cp,
             pendingGate |-> gate, compensated |-> compensated]

(* Fault: an exception hands the progress so far to the caller.            *)
EscapeWithProgress == pc' = "idle" /\ run' = [run EXCEPT !.checkpoint = cp]

Escape == pc' = "idle" /\ UNCHANGED run

ReturnUnless(raises, status, gate) ==
  \/ raises  /\ Escape
  \/ ~raises /\ Return(status, gate)

Record(n, output) ==
  /\ cp' = [cp EXCEPT ![n] = output]
  /\ pos' = pos + 1
  /\ pc' = "loop"

StartAttempt(n) == workers' = [workers EXCEPT ![n] = @ + 1]
EndAttempt(n)   == workers' = [workers EXCEPT ![n] = @ - 1]

Enter(n) ==
  \/ /\ n \in Bodyless
     /\ Record(n, "passed")
     /\ UNCHANGED <<attempt, workers>>
  \/ /\ n \notin Bodyless
     /\ pc' = "running"
     /\ attempt' = 1
     /\ StartAttempt(n)
     /\ UNCHANGED <<cp, pos>>

(* Bookkeeping that an action of execute()'s loop leaves alone.            *)
invocationVars == <<approvals, invocations, auditMayFail>>
undoVars       == <<toUndo, compensated>>

-----------------------------------------------------------------------------
(* The caller: a fresh run, or a PAUSED one resumed with its checkpoint    *)
(* and whatever decisions the caller has.                                  *)
Resumable == run.status = "PAUSED" \/ (run.status = "NONE" /\ invocations = 0)

(* Fault: a resume forgets the checkpoint.                                 *)
InvokeAfresh(decisions) ==
  /\ pc = "idle"
  /\ Resumable
  /\ invocations < MaxInvocations
  /\ invocations' = invocations + 1
  /\ approvals' = decisions
  /\ cp' = EmptyCp
  /\ pos' = 1 /\ attempt' = 0 /\ toUndo' = {} /\ compensated' = <<>>
  /\ pc' = "loop"
  /\ UNCHANGED <<run, workers, audit, auditMayFail>>

Invoke(decisions) ==
  /\ pc = "idle"
  /\ Resumable
  /\ invocations < MaxInvocations
  /\ invocations' = invocations + 1
  /\ approvals' = decisions
  /\ cp' = run.checkpoint
  /\ pos' = 1
  /\ attempt' = 0
  /\ toUndo' = {}
  /\ compensated' = <<>>
  /\ pc' = "loop"
  /\ UNCHANGED <<run, workers, audit, auditMayFail>>

(* The for loop.                                                           *)
SkipCompleted ==
  /\ pc = "loop"
  /\ pos <= Len(Order)
  /\ Current \in Completed(cp)
  /\ pos' = pos + 1
  /\ UNCHANGED <<run, pc, cp, attempt, workers, audit, invocationVars, undoVars>>

ExceedDeadline ==
  /\ HasDeadline
  /\ AtNewNode
  /\ Log("workflow.deadline", Current)
  /\ \E raises \in AuditRaises : ReturnUnless(raises, "FAILED", NoNode)
  /\ UNCHANGED <<cp, pos, attempt, workers, invocationVars, undoVars>>

MustAsk == AtNewNode /\ Current \in GateNode /\ Needed(Current, cp)

PauseAtGate ==
  /\ MustAsk
  /\ approvals[Current] = "none"
  /\ Log("gate.paused", Current)
  /\ \E raises \in AuditRaises : ReturnUnless(raises, "PAUSED", Current)
  /\ UNCHANGED <<cp, pos, attempt, workers, invocationVars, undoVars>>

DenyAtGate ==
  /\ MustAsk
  /\ approvals[Current] = "deny"
  /\ Log("gate.denied", Current)
  /\ \E raises \in AuditRaises : ReturnUnless(raises, "FAILED", NoNode)
  /\ UNCHANGED <<cp, pos, attempt, workers, invocationVars, undoVars>>

PassApprovedGate ==
  /\ MustAsk
  /\ approvals[Current] = "approve"
  /\ Log("gate.approved", Current)
  /\ \/ Enter(Current) /\ UNCHANGED run
     \/ auditMayFail /\ Escape /\ UNCHANGED <<cp, pos, attempt, workers>>
  /\ UNCHANGED <<invocationVars, undoVars>>

(* Fault: `needed` is not consulted, only a denial stops the run.          *)
EnterUnlessDenied ==
  /\ AtNewNode
  /\ Current \in GateNode => approvals[Current] # "deny"
  /\ Enter(Current)
  /\ UNCHANGED <<run, audit, invocationVars, undoVars>>

EnterUngated ==
  /\ AtNewNode
  /\ Current \in GateNode => ~Needed(Current, cp)
  /\ Enter(Current)
  /\ UNCHANGED <<run, audit, invocationVars, undoVars>>

FinishRun ==
  /\ pc = "loop"
  /\ pos = Len(Order) + 1
  /\ Return("SUCCEEDED", NoNode)
  /\ UNCHANGED <<cp, pos, attempt, workers, audit, invocationVars, undoVars>>

(* One attempt of the current node's body (_run_node), as _run_with_retry  *)
(* sees it end.  An audit append that raises here is an exception of the   *)
(* node like any other.                                                    *)
(* Fault: the output is checkpointed before the success is logged.         *)
SucceedEarly(output) ==
  /\ pc = "running"
  /\ output \in OutputsOf(Current)
  /\ EndAttempt(Current)
  /\ Log("node.succeeded", Current)
  /\ cp' = [cp EXCEPT ![Current] = output]
  /\ \/ pc' = "loop" /\ pos' = pos + 1
     \/ auditMayFail /\ pc' = "failing" /\ UNCHANGED pos
  /\ UNCHANGED <<run, attempt, invocationVars, undoVars>>

Succeed(output) ==
  /\ pc = "running"
  /\ output \in OutputsOf(Current)
  /\ EndAttempt(Current)
  /\ Log("node.succeeded", Current)
  /\ \/ Record(Current, output)
     \/ auditMayFail /\ pc' = "failing" /\ UNCHANGED <<cp, pos>>
  /\ UNCHANGED <<run, attempt, invocationVars, undoVars>>

RetryTransient ==
  /\ pc = "running"
  /\ attempt < MaxAttempts[Current]
  /\ Log("node.retry", Current)
  /\ \/ /\ attempt' = attempt + 1
        /\ UNCHANGED <<pc, workers>>  \* one attempt ends, the next begins
     \/ /\ auditMayFail
        /\ EndAttempt(Current)
        /\ pc' = "failing"
        /\ UNCHANGED attempt
  /\ UNCHANGED <<run, cp, pos, invocationVars, undoVars>>

ExhaustRetries ==
  /\ pc = "running"
  /\ attempt >= MaxAttempts[Current]
  /\ EndAttempt(Current)
  /\ pc' = "failing"
  /\ UNCHANGED <<run, cp, pos, attempt, audit, invocationVars, undoVars>>

(* Fault: a failed node is skipped and the loop goes on.                   *)
FailAndContinue ==
  /\ pc = "running"
  /\ EndAttempt(Current)
  /\ pc' = "loop" /\ pos' = pos + 1
  /\ UNCHANGED <<run, cp, attempt, audit, invocationVars, undoVars>>

FailPermanently ==
  /\ pc = "running"
  /\ EndAttempt(Current)
  /\ pc' = "failing"
  /\ UNCHANGED <<run, cp, pos, attempt, audit, invocationVars, undoVars>>

(* Fault: a timed-out attempt is retried like a transient failure.         *)
TimeOutAndRetry ==
  /\ pc = "running"
  /\ Current \in Timed
  /\ Log("node.timeout", Current)
  /\ IF attempt < MaxAttempts[Current]
       THEN attempt' = attempt + 1 /\ StartAttempt(Current) /\ UNCHANGED pc
       ELSE pc' = "failing" /\ UNCHANGED <<attempt, workers>>
  /\ UNCHANGED <<run, cp, pos, invocationVars, undoVars>>

(* The budget is over: the worker is abandoned, not stopped.  Should the   *)
(* audit append raise, that exception escalates in place of PermanentError.*)
TimeOut ==
  /\ pc = "running"
  /\ Current \in Timed
  /\ Log("node.timeout", Current)
  /\ pc' = "failing"
  /\ UNCHANGED <<run, cp, pos, attempt, workers, invocationVars, undoVars>>

(* The except clause of execute(), then _compensate.                       *)
Escalate ==
  /\ pc = "failing"
  /\ Log("node.failed", Current)
  /\ \/ /\ pc' = "undo"
        /\ toUndo' = Completed(cp) \cap Compensable
        /\ UNCHANGED run
     \/ auditMayFail /\ Escape /\ UNCHANGED toUndo
  /\ UNCHANGED <<cp, pos, attempt, workers, compensated, invocationVars>>

(* Fault: the undo handlers run in completion order.                       *)
IsFirst(n, S) == n \in S /\ \A m \in S : Index(n) <= Index(m)

IsLast(n, S) == n \in S /\ \A m \in S : Index(m) <= Index(n)

(* The handler returned and was recorded.                                  *)
UndoSucceeds(n) ==
  /\ pc = "undo"
  /\ IsLast(n, toUndo)
  /\ toUndo' = toUndo \ {n}
  /\ compensated' = Append(compensated, n)
  /\ Log("node.compensated", n)
  /\ UNCHANGED <<run, pc, cp, pos, attempt, workers, invocationVars>>

(* Fault: the handler counts as run before it has returned.                *)
UndoCountsFailure(n) ==
  /\ pc = "undo"
  /\ IsLast(n, toUndo)
  /\ toUndo' = toUndo \ {n}
  /\ compensated' = Append(compensated, n)
  /\ Log("compensation.failed", n)
  /\ UNCHANGED <<run, pc, cp, pos, attempt, workers, invocationVars>>

(* The handler raised: logged and skipped, unless the log raises too.      *)
UndoFails(n) ==
  /\ pc = "undo"
  /\ IsLast(n, toUndo)
  /\ toUndo' = toUndo \ {n}
  /\ Log("compensation.failed", n)
  /\ \/ UNCHANGED <<run, pc>>
     \/ auditMayFail /\ Escape
  /\ UNCHANGED <<cp, pos, attempt, workers, compensated, invocationVars>>

(* The handler returned but recording it raised: the node counts as        *)
(* compensated and is reported as a failed compensation as well.           *)
UndoRecordFails(n) ==
  /\ auditMayFail
  /\ pc = "undo"
  /\ IsLast(n, toUndo)
  /\ toUndo' = toUndo \ {n}
  /\ compensated' = Append(compensated, n)
  /\ audit' = audit \o <<Rec("node.compensated", n), Rec("compensation.failed", n)>>
  /\ (UNCHANGED <<run, pc>> \/ Escape)
  /\ UNCHANGED <<cp, pos, attempt, workers, invocationVars>>

(* Fault: a run with nothing to undo is not returned.                      *)
FinishUndoOfSome ==
  /\ pc = "undo"
  /\ toUndo = {}
  /\ compensated # <<>>
  /\ Return("COMPENSATED", NoNode)
  /\ UNCHANGED <<cp, pos, attempt, workers, audit, invocationVars, undoVars>>

FinishUndo ==
  /\ pc = "undo"
  /\ toUndo = {}
  /\ Return(IF compensated # <<>> THEN "COMPENSATED" ELSE "FAILED", NoNode)
  /\ UNCHANGED <<cp, pos, attempt, workers, audit, invocationVars, undoVars>>

(* An abandoned worker thread comes to its end.                            *)
Foreground(n) == IF pc = "running" /\ n = Current THEN 1 ELSE 0
AbandonedWorkerEnds(n) ==
  /\ workers[n] > Foreground(n)
  /\ EndAttempt(n)
  /\ UNCHANGED <<run, pc, cp, pos, attempt, audit, invocationVars, undoVars>>

Attempt ==
  \/ \E output \in Output : Succeed(output)
  \/ RetryTransient
  \/ ExhaustRetries
  \/ FailPermanently
  \/ TimeOut

Loop ==
  \/ SkipCompleted
  \/ ExceedDeadline
  \/ PauseAtGate
  \/ DenyAtGate
  \/ PassApprovedGate
  \/ EnterUngated
  \/ FinishRun

Compensate ==
  \/ Escalate
  \/ \E n \in Node : UndoSucceeds(n) \/ UndoFails(n) \/ UndoRecordFails(n)
  \/ FinishUndo

Next ==
  \/ \E decisions \in [GateNode -> Decision] : Invoke(decisions)
  \/ Loop
  \/ Attempt
  \/ Compensate
  \/ \E n \in Node : AbandonedWorkerEnds(n)

Spec == Init /\ [][Next]_vars

(* The thread inside execute() keeps running; a body without a timeout is  *)
(* assumed to end, one with a timeout is ended by TimeOut at the latest.   *)
(* Neither the caller nor an abandoned worker is fair.                     *)
Fairness == WF_vars(Loop) /\ WF_vars(Attempt) /\ WF_vars(Compensate)
FairSpec == Spec /\ Fairness

-----------------------------------------------------------------------------
(* Properties.                                                             *)

Logged(action, n) == \E i \in DOMAIN audit : audit[i] = Rec(action, n)
Times(action, n)  == Cardinality({i \in DOMAIN audit : audit[i] = Rec(action, n)})
Started(n) == pc = "running" /\ n = Current

(* A node's body runs, and its output is checkpointed, only once every node*)
(* it depends on is checkpointed -- through pauses and resumes, and in the *)
(* checkpoint handed back to the caller as well as in the working one.     *)
DependenciesFirst ==
  /\ \A n \in Node : Started(n) \/ n \in Completed(cp) =>
       Deps[n] \subseteq Completed(cp)
  /\ \A n \in Completed(run.checkpoint) :
       Deps[n] \subseteq Completed(run.checkpoint)

(* Nothing that depends on a gate, directly or not, has started unless a   *)
(* human approved the gate or the checkpoint says no approval is needed.   *)
GatesRespected ==
  \A g \in GateNode, n \in Node :
    /\ g \in Deps[n]
    /\ Started(n) \/ n \in Completed(cp)
    => Logged("gate.approved", g) \/ ~Needed(g, cp)

(* Two attempts of one body never run at the same time (the timeout comment*)
(* of Node): a timed-out attempt is not retried, and a run with an         *)
(* abandoned worker is never resumed, if the audit log does not raise.     *)
NeverRaces       == \A n \in Node : workers[n] <= 1
NoRacingAttempts == ~auditMayFail => NeverRaces

(* However often the run is paused and resumed, a body succeeds at most    *)
(* once, fails the run at most once, and is attempted at most max_attempts *)
(* times. (A call that raises loses its progress, so its resume repeats.)  *)
NoReplay ==
  ~auditMayFail => \A n \in Node :
    /\ Times("node.succeeded", n) <= 1
    /\ Times("node.succeeded", n) + Times("node.failed", n) <= 1
    /\ Times("node.retry", n) < MaxAttempts[n]

(* Undo handlers run in reverse completion order, each at most once, and   *)
(* only for a body that succeeded (_compensate walks reversed(completed)). *)
UndoReversesCompletion ==
  ~auditMayFail => \A i, j \in DOMAIN audit :
    /\ i < j
    /\ audit[i].action = "node.compensated"
    /\ audit[j].action = "node.compensated"
    => \E k, l \in 1..(i - 1) :
         /\ k < l
         /\ audit[k] = Rec("node.succeeded", audit[j].node)
         /\ audit[l] = Rec("node.succeeded", audit[i].node)

(* What the returned status says is what happened: SUCCEEDED means every   *)
(* node is checkpointed and nothing failed or was undone; a run that was   *)
(* ended by a node failure tried the undo handler of every completed node  *)
(* that has one, and is COMPENSATED exactly if one of them worked; a PAUSED*)
(* run waits at a gate that still needs its decision.                      *)
OutcomeMatchesHistory ==
  ~auditMayFail =>
  LET failed == {n \in Node : Logged("node.failed", n)}
      undone == {n \in Node : Logged("node.compensated", n)}
      kept   == {n \in Node : Logged("compensation.failed", n)}
      done   == Completed(run.checkpoint)
  IN
  /\ run.status = "SUCCEEDED" => done = Node /\ failed \cup undone \cup kept = {}
  /\ run.status \in {"FAILED", "COMPENSATED"} /\ failed # {} =>
       undone \cup kept = done \cap Compensable
  /\ run.status = "COMPENSATED" <=> pc = "idle" /\ undone # {}
  /\ run.status = "PAUSED" =>
       /\ run.pendingGate \in GateNode \ done
       /\ Needed(run.pendingGate, run.checkpoint)
       /\ Deps[run.pendingGate] \subseteq done

(* Every call of execute() comes back to its caller.                       *)
CallReturns == (pc # "idle") ~> (pc = "idle")

(* The inductive invariant behind DependenciesFirst and GatesRespected: a  *)
(* checkpoint is a prefix of Order, the loop has walked past checkpointed  *)
(* nodes only, and a gate in a checkpoint was approved or not needed.      *)
PrefixClosed(c) ==
  \A i, j \in 1..Len(Order) :
    i < j /\ c[Order[j]] # "absent" => c[Order[i]] # "absent"
Walked ==
  pc # "idle" => \A i \in 1..Len(Order) : i < pos => cp[Order[i]] # "absent"
AtNode ==
  pc \in {"running", "failing", "undo"} =>
    pos <= Len(Order) /\ cp[Current] = "absent"
WorkerLive == pc = "running" => workers[Current] >= 1
GatePassed(g, c) == Logged("gate.approved", g) \/ ~Needed(g, c)
GatesPassed ==
  /\ \A g \in GateNode : cp[g] # "absent" => GatePassed(g, cp)
  /\ \A g \in GateNode : run.checkpoint[g] # "absent" => GatePassed(g, run.checkpoint)
  /\ pc = "running" /\ Current \in GateNode => GatePassed(Current, cp)
IInv ==
  /\ TypeOK
  /\ PrefixClosed(cp)
  /\ PrefixClosed(run.checkpoint)
  /\ Walked
  /\ AtNode
  /\ WorkerLive
  /\ GatesPassed

(* Behind NoRacingAttempts: only a call that is escalating, or a run that  *)
(* cannot be resumed, has a worker besides the foreground attempt.         *)
WorkersInv ==
  /\ \A n \in Node : workers[n] <= 1
  /\ \A n \in Node : workers[n] > Foreground(n) =>
       pc \in {"failing", "undo"} \/ (pc = "idle" /\ ~Resumable)

(* Behind the refinement: an active call works on an open run and has all  *)
(* of its progress.                                                        *)
OpenWhileActive ==
  pc # "idle" => /\ run.status \in {"NONE", "PAUSED"}
                 /\ Completed(run.checkpoint) \subseteq Completed(cp)

(* What the caller sees of a run is a DurableWorkflow.                     *)
Durable == INSTANCE DurableWorkflow WITH
             status <- run.status,
             done   <- Completed(run.checkpoint),
             gate   <- run.pendingGate
ImplementsDurableWorkflow == Durable!Spec
=============================================================================
