--------------------------- MODULE DagExecutorProofs --------------------------
(***************************************************************************)
(* Proofs about DagExecutor for every workflow, every bound and every      *)
(* choice of timeouts, undo handlers, deadline and audit sink.  The second *)
(* half is about what the audit log tells of a run.                        *)
(***************************************************************************)
EXTENDS DagExecutor, FiniteSetTheorems, WellFoundedInduction, TLAPS

(* The typing facts about the constants that the steps below use.          *)
LEMMA ConstantTypes ==
  /\ Len(Order) \in Nat
  /\ Order \in Seq(Node)
  /\ \A i \in 1..Len(Order) : Order[i] \in Node
  /\ MaxInvocations \in Nat
  /\ MaxAttempts \in [Node -> Nat \ {0}]
  /\ Timed \subseteq Node /\ Compensable \subseteq Node /\ GateNode \subseteq Node
  /\ GateInput \in [GateNode -> Node]
BY DagAssumption DEF DagAssumption

LEMMA InitIInv == Init => IInv
<1>1. SUFFICES ASSUME Init PROVE IInv
  OBVIOUS
<1>2. TypeOK
  BY <1>1, ConstantTypes DEF Init, TypeOK, Cp, EmptyCp, Output, DagRun, Decision, Terminal
<1>3. /\ PrefixClosed(cp) /\ PrefixClosed(run.checkpoint)
      /\ Walked /\ AtNode /\ WorkerLive /\ GatesPassed
  BY <1>1, ConstantTypes DEF Init, EmptyCp, PrefixClosed, Walked, AtNode, WorkerLive, GatesPassed
<1>4. QED
  BY <1>2, <1>3 DEF IInv

(* The pieces the actions are built from keep the types of what they change*)
LEMMA LogType ==
  ASSUME TypeOK, NEW a \in Action, NEW n \in Node, Log(a, n)
  PROVE  audit' \in Seq([action : Action, node : Node])
BY DEF TypeOK, Log, Rec

LEMMA ReturnType ==
  ASSUME TypeOK, NEW status \in {"NONE", "PAUSED"} \cup Terminal,
         NEW g \in Node \cup {NoNode}, Return(status, g)
  PROVE  run' \in DagRun /\ pc' = "idle"
BY DEF TypeOK, Return, DagRun

LEMMA EnterType ==
  ASSUME TypeOK, NEW n \in Node, pos <= Len(Order), Enter(n)
  PROVE  /\ pc' \in {"loop", "running"}
         /\ cp' \in Cp
         /\ pos' \in 1..(Len(Order) + 1)
         /\ attempt' \in Nat
         /\ workers' \in [Node -> Nat]
<1>1. CASE n \in Bodyless
  <2>1. Record(n, "passed") /\ UNCHANGED <<attempt, workers>>
    BY <1>1 DEF Enter
  <2>2. cp' \in Cp
    BY <2>1 DEF Record, TypeOK, Cp, Output
  <2>3. pos' \in 1..(Len(Order) + 1) /\ pc' = "loop"
    BY <2>1, ConstantTypes DEF Record, TypeOK
  <2>4. QED
    BY <2>1, <2>2, <2>3 DEF TypeOK
<1>2. CASE n \notin Bodyless
  <2>1. pc' = "running" /\ attempt' = 1 /\ StartAttempt(n) /\ UNCHANGED <<cp, pos>>
    BY <1>2 DEF Enter
  <2>2. workers' \in [Node -> Nat]
    BY <2>1 DEF StartAttempt, TypeOK
  <2>3. QED
    BY <2>1, <2>2 DEF TypeOK
<1>3. QED
  BY <1>1, <1>2

(* Every action leaves a well-typed state.                                 *)
LEMMA NextTypeOK ==
  ASSUME TypeOK, AtNode, WorkerLive, [Next]_vars
  PROVE  TypeOK'
<1> USE DEF TypeOK
<1>1. pos <= Len(Order) => Current \in Node
  BY ConstantTypes DEF Current
<1>2. ASSUME NEW decisions \in [GateNode -> Decision], Invoke(decisions)
      PROVE  TypeOK'
  <2>1. run.checkpoint \in Cp /\ 1 \in 1..(Len(Order) + 1)
    BY ConstantTypes DEF DagRun
  <2>2. invocations' \in 0..MaxInvocations
    BY <1>2, ConstantTypes DEF Invoke
  <2>3. QED
    BY <1>2, <2>1, <2>2 DEF Invoke
<1>3. ASSUME Loop PROVE TypeOK'
  <2>1. CASE SkipCompleted
    BY <2>1, ConstantTypes DEF SkipCompleted, invocationVars, undoVars
  <2>2. ASSUME NEW a \in Action, NEW status \in {"PAUSED"} \cup Terminal,
               NEW g \in Node \cup {NoNode}, NEW raises \in AuditRaises,
               AtNewNode, Log(a, Current), ReturnUnless(raises, status, g),
               UNCHANGED <<cp, pos, attempt, workers, invocationVars, undoVars>>
        PROVE  TypeOK'
    <3>1. audit' \in Seq([action : Action, node : Node])
      BY <1>1, <2>2, LogType DEF AtNewNode
    <3>2. run' \in DagRun /\ pc' = "idle"
      BY <2>2, ReturnType DEF ReturnUnless, Escape
    <3>3. QED
      BY <2>2, <3>1, <3>2 DEF invocationVars, undoVars
  <2>3. CASE ExceedDeadline
    BY <2>2, <2>3 DEF ExceedDeadline, Action, Terminal
  <2>4. CASE PauseAtGate
    BY <1>1, <2>2, <2>4 DEF PauseAtGate, MustAsk, AtNewNode, Action
  <2>5. CASE DenyAtGate
    BY <2>2, <2>5 DEF DenyAtGate, MustAsk, Action, Terminal
  <2>6. CASE PassApprovedGate
    <3>1. audit' \in Seq([action : Action, node : Node])
      BY <1>1, <2>6, LogType DEF PassApprovedGate, MustAsk, AtNewNode, Action
    <3>2. CASE Enter(Current) /\ UNCHANGED run
      BY <1>1, <2>6, <3>1, <3>2, EnterType
      DEF PassApprovedGate, MustAsk, AtNewNode, invocationVars, undoVars
    <3>3. CASE Escape /\ UNCHANGED <<cp, pos, attempt, workers>>
      BY <2>6, <3>1, <3>3 DEF PassApprovedGate, Escape, invocationVars, undoVars
    <3>4. QED
      BY <2>6, <3>2, <3>3 DEF PassApprovedGate
  <2>7. CASE EnterUngated
    BY <1>1, <2>7, EnterType DEF EnterUngated, AtNewNode, invocationVars, undoVars
  <2>8. CASE FinishRun
    <3>1. run' \in DagRun /\ pc' = "idle"
      BY <2>8, ReturnType DEF FinishRun, Terminal
    <3>2. QED
      BY <2>8, <3>1 DEF FinishRun, invocationVars, undoVars
  <2>9. QED
    BY <1>3, <2>1, <2>3, <2>4, <2>5, <2>6, <2>7, <2>8 DEF Loop
<1>4. ASSUME Attempt PROVE TypeOK'
  <2>1. pc = "running" /\ Current \in Node /\ pos <= Len(Order)
    BY <1>1, <1>4 DEF AtNode, Attempt, Succeed, RetryTransient, ExhaustRetries,
       FailPermanently, TimeOut
  <2>2. EndAttempt(Current) => workers' \in [Node -> Nat]
    BY <2>1 DEF EndAttempt, WorkerLive
  <2>3. \A a \in Action : Log(a, Current) =>
          audit' \in Seq([action : Action, node : Node])
    BY <2>1, LogType
  <2>4. ASSUME NEW output \in Output, Succeed(output) PROVE TypeOK'
    <3>1. audit' \in Seq([action : Action, node : Node])
      BY <2>3, <2>4 DEF Succeed, Action
    <3>2. cp' \in Cp
      BY <2>1, <2>4 DEF Succeed, Record, Cp
    <3>3. pos' \in 1..(Len(Order) + 1) /\ pc' \in {"loop", "failing"}
      BY <2>1, <2>4, ConstantTypes DEF Succeed, Record
    <3>4. QED
      BY <2>2, <2>4, <3>1, <3>2, <3>3 DEF Succeed, invocationVars, undoVars
  <2>5. CASE RetryTransient
    BY <2>2, <2>3, <2>5 DEF RetryTransient, Action, invocationVars, undoVars
  <2>6. CASE ExhaustRetries
    BY <2>2, <2>6 DEF ExhaustRetries, invocationVars, undoVars
  <2>7. CASE FailPermanently
    BY <2>2, <2>7 DEF FailPermanently, invocationVars, undoVars
  <2>8. CASE TimeOut
    BY <2>3, <2>8 DEF TimeOut, Action, invocationVars, undoVars
  <2>9. QED
    BY <1>4, <2>4, <2>5, <2>6, <2>7, <2>8 DEF Attempt
<1>5. ASSUME Compensate PROVE TypeOK'
  <2>1. CASE Escalate
    <3>1. audit' \in Seq([action : Action, node : Node])
      BY <1>1, <2>1, LogType DEF Escalate, AtNode, Action
    <3>2. QED
      BY <2>1, <3>1, ConstantTypes DEF Escalate, Escape, invocationVars
  <2>2. ASSUME NEW n \in Node, UndoSucceeds(n) PROVE TypeOK'
    <3>1. audit' \in Seq([action : Action, node : Node])
      BY <2>2, LogType DEF UndoSucceeds, Action
    <3>2. QED
      BY <2>2, <3>1 DEF UndoSucceeds, invocationVars
  <2>3. ASSUME NEW n \in Node, UndoFails(n) PROVE TypeOK'
    <3>1. audit' \in Seq([action : Action, node : Node])
      BY <2>3, LogType DEF UndoFails, Action
    <3>2. QED
      BY <2>3, <3>1 DEF UndoFails, Escape, invocationVars
  <2>4. ASSUME NEW n \in Node, UndoRecordFails(n) PROVE TypeOK'
    <3>1. /\ Rec("node.compensated", n) \in [action : Action, node : Node]
          /\ Rec("compensation.failed", n) \in [action : Action, node : Node]
      BY DEF Rec, Action
    <3>2. audit' \in Seq([action : Action, node : Node])
      BY <2>4, <3>1 DEF UndoRecordFails
    <3>3. QED
      BY <2>4, <3>2 DEF UndoRecordFails, Escape, invocationVars
  <2>5. CASE FinishUndo
    <3>1. run' \in DagRun /\ pc' = "idle"
      BY <2>5, ReturnType DEF FinishUndo, Terminal
    <3>2. QED
      BY <2>5, <3>1 DEF FinishUndo, invocationVars, undoVars
  <2>6. QED
    BY <1>5, <2>1, <2>2, <2>3, <2>4, <2>5 DEF Compensate
<1>6. ASSUME NEW n \in Node, AbandonedWorkerEnds(n) PROVE TypeOK'
  BY <1>6 DEF AbandonedWorkerEnds, EndAttempt, Foreground, invocationVars, undoVars
<1>7. CASE UNCHANGED vars
  BY <1>7 DEF vars
<1>8. QED
  BY <1>2, <1>3, <1>4, <1>5, <1>6, <1>7 DEF Next

-----------------------------------------------------------------------------
(* The audit log only grows, so what was logged stays logged.              *)
LEMMA LoggedStays ==
  ASSUME TypeOK, [Next]_vars, NEW a, NEW n, Logged(a, n)
  PROVE  Logged(a, n)'
<1>1. \/ audit' = audit
      \/ \E r : audit' = Append(audit, r)
      \/ \E r, q : audit' = audit \o <<r, q>>
  <2>1. CASE \E decisions \in [GateNode -> Decision] : Invoke(decisions)
    BY <2>1 DEF Invoke
  <2>2. CASE Loop
    BY <2>2 DEF Loop, SkipCompleted, ExceedDeadline, PauseAtGate, DenyAtGate,
       PassApprovedGate, EnterUngated, FinishRun, Log
  <2>3. CASE Attempt
    BY <2>3 DEF Attempt, Succeed, RetryTransient, ExhaustRetries, FailPermanently,
       TimeOut, Log
  <2>4. CASE Compensate
    BY <2>4 DEF Compensate, Escalate, UndoSucceeds, UndoFails, UndoRecordFails,
       FinishUndo, Log
  <2>5. CASE \E m \in Node : AbandonedWorkerEnds(m)
    BY <2>5 DEF AbandonedWorkerEnds
  <2>6. QED
    BY <2>1, <2>2, <2>3, <2>4, <2>5 DEF Next, vars
<1>2. PICK i \in DOMAIN audit : audit[i] = Rec(a, n)
  BY DEF Logged
<1>3. audit \in Seq([action : Action, node : Node])
  BY DEF TypeOK
<1>4. CASE audit' = audit
  BY <1>2, <1>4 DEF Logged
<1>5. ASSUME NEW r, audit' = Append(audit, r) PROVE Logged(a, n)'
  <2>1. i \in DOMAIN audit' /\ audit'[i] = audit[i]
    BY <1>2, <1>3, <1>5
  <2>2. QED
    BY <1>2, <2>1 DEF Logged
<1>6. ASSUME NEW r, NEW q, audit' = audit \o <<r, q>> PROVE Logged(a, n)'
  <2>1. i \in DOMAIN audit' /\ audit'[i] = audit[i]
    BY <1>2, <1>3, <1>6
  <2>2. QED
    BY <1>2, <2>1 DEF Logged
<1>7. QED
  BY <1>1, <1>4, <1>5, <1>6

LEMMA LogIsLogged ==
  ASSUME TypeOK, NEW a, NEW n, Log(a, n)
  PROVE  Logged(a, n)'
<1>1. audit \in Seq([action : Action, node : Node])
  BY DEF TypeOK
<1>2. Len(audit) + 1 \in DOMAIN audit' /\ audit'[Len(audit) + 1] = Rec(a, n)
  BY <1>1 DEF Log
<1>3. QED
  BY <1>2 DEF Logged

(* The four ways a step treats the checkpoints: it leaves the working one  *)
(* alone (and may hand it to the caller), loads it, walks past a           *)
(* checkpointed node, or records the node it stands at.                    *)
Keeps   == /\ cp' = cp /\ pos' = pos
           /\ run' = run \/ run'.checkpoint = cp
           /\ pc = "idle" => pc' = "idle"
Loads   == cp' = run.checkpoint /\ pos' = 1 /\ run' = run
Records == /\ run' = run /\ pc # "idle" /\ pos <= Len(Order)
           /\ cp[Current] = "absent"
           /\ \E output \in Output \ {"absent"} : Record(Current, output)
           /\ \A m \in GateNode : m = Current =>
                Logged("gate.approved", m)' \/ ~Needed(m, cp)

LEMMA StepKinds ==
  ASSUME IInv, [Next]_vars
  PROVE  Keeps \/ Loads \/ SkipCompleted \/ Records
<1> USE DEF IInv
<1>1. ASSUME NEW status, NEW g, Return(status, g) PROVE run'.checkpoint = cp /\ pc' = "idle"
  BY <1>1 DEF Return
<1>2. CASE \E decisions \in [GateNode -> Decision] : Invoke(decisions)
  BY <1>2 DEF Invoke, Loads
<1>3. CASE Loop
  <2>1. ASSUME AtNewNode
        PROVE  cp[Current] = "absent" /\ pos <= Len(Order) /\ pc = "loop" /\ Current \in Node
    BY <2>1, ConstantTypes DEF AtNewNode, Completed, Current, TypeOK
  <2>2. CASE ExceedDeadline \/ PauseAtGate \/ DenyAtGate
    BY <1>1, <2>1, <2>2 DEF ExceedDeadline, PauseAtGate, DenyAtGate, MustAsk, ReturnUnless,
       Escape, Keeps
  <2>3. CASE PassApprovedGate
    <3>1. \A m \in GateNode : m = Current => Logged("gate.approved", m)'
      BY <2>3, LogIsLogged DEF PassApprovedGate
    <3>2. CASE Enter(Current) /\ UNCHANGED run
      BY <2>1, <2>3, <3>1, <3>2
      DEF PassApprovedGate, MustAsk, Enter, Output, Records, Keeps
    <3>3. CASE Escape /\ UNCHANGED <<cp, pos, attempt, workers>>
      BY <2>1, <2>3, <3>3 DEF PassApprovedGate, MustAsk, Escape, Keeps
    <3>4. QED
      BY <2>3, <3>2, <3>3 DEF PassApprovedGate
  <2>4. CASE EnterUngated
    BY <2>1, <2>4 DEF EnterUngated, Enter, Output, Records, Keeps
  <2>5. CASE FinishRun
    BY <1>1, <2>5 DEF FinishRun, Keeps
  <2>6. QED
    BY <1>3, <2>2, <2>3, <2>4, <2>5 DEF Loop
<1>4. CASE Attempt
  <2>1. ASSUME NEW output \in Output, Succeed(output) PROVE Records \/ Keeps
    <3>1. CASE Record(Current, output)
      <4>1. output \in Output \ {"absent"} /\ pc = "running" /\ run' = run
        BY <2>1 DEF Succeed, OutputsOf
      <4>2. pos <= Len(Order) /\ cp[Current] = "absent"
        BY <4>1 DEF AtNode
      <4>3. \A m \in GateNode : m = Current =>
              Logged("gate.approved", m)' \/ ~Needed(m, cp)
        BY <4>1, LoggedStays DEF GatesPassed, GatePassed
      <4>4. QED
        BY <3>1, <4>1, <4>2, <4>3 DEF Records
    <3>2. CASE UNCHANGED <<cp, pos>>
      BY <2>1, <3>2 DEF Succeed, Keeps
    <3>3. QED
      BY <2>1, <3>1, <3>2 DEF Succeed
  <2>2. CASE RetryTransient \/ ExhaustRetries \/ FailPermanently \/ TimeOut
    BY <2>2 DEF RetryTransient, ExhaustRetries, FailPermanently, TimeOut, Keeps
  <2>3. QED
    BY <1>4, <2>1, <2>2 DEF Attempt
<1>5. CASE Compensate
  BY <1>1, <1>5 DEF Compensate, Escalate, UndoSucceeds, UndoFails, UndoRecordFails,
     FinishUndo, Escape, Keeps
<1>6. CASE \E n \in Node : AbandonedWorkerEnds(n)
  BY <1>6 DEF AbandonedWorkerEnds, Keeps
<1>7. CASE UNCHANGED vars
  BY <1>7 DEF vars, Keeps
<1>8. QED
  BY <1>2, <1>3, <1>4, <1>5, <1>6, <1>7 DEF Next

(* Recording the node the loop stands at extends a prefix to a prefix.     *)
LEMMA RecordsKeepsPrefix ==
  ASSUME IInv, Records
  PROVE  /\ PrefixClosed(cp')
         /\ \A i \in 1..Len(Order) : i < pos' => cp'[Order[i]] # "absent"
         /\ \A n \in Node : n # Current => cp'[n] = cp[n]
         /\ cp'[Current] # "absent"
<1>1. PICK output \in Output \ {"absent"} : Record(Current, output)
  BY DEF Records
<1>2. cp \in [Node -> Output] /\ Current \in Node /\ pos \in 1..Len(Order)
  BY ConstantTypes DEF IInv, TypeOK, Cp, Records, Current
<1>3. /\ \A n \in Node : n # Current => cp'[n] = cp[n]
      /\ cp'[Current] # "absent"
  BY <1>1, <1>2 DEF Record
<1>4. \A i \in 1..Len(Order) : i < pos => cp[Order[i]] # "absent"
  BY DEF IInv, Walked, Records
<1>5. \A i \in 1..Len(Order) : i < pos => cp'[Order[i]] # "absent"
  BY <1>3, <1>4, ConstantTypes
<1>6. \A i \in 1..Len(Order) : i < pos' => cp'[Order[i]] # "absent"
  <2>1. pos' = pos + 1 /\ Current = Order[pos]
    BY <1>1 DEF Record, Current
  <2>2. \A i \in 1..Len(Order) : i < pos' => i < pos \/ i = pos
    BY <1>2, <2>1, ConstantTypes
  <2>3. QED
    BY <1>3, <1>5, <2>1, <2>2
<1>7. PrefixClosed(cp')
  <2> SUFFICES ASSUME NEW i \in 1..Len(Order), NEW j \in 1..Len(Order), i < j,
                      cp'[Order[j]] # "absent"
               PROVE  cp'[Order[i]] # "absent"
    BY DEF PrefixClosed
  <2>1. CASE j = pos
    BY <1>5, <2>1
  <2>2. CASE j # pos
    <3>1. Order[j] # Current
      BY <1>2, <2>2, DagAssumption DEF DagAssumption, Current
    <3>2. cp[Order[j]] # "absent"
      BY <1>3, <3>1, ConstantTypes
    <3>3. cp[Order[i]] # "absent"
      BY <3>2 DEF IInv, PrefixClosed
    <3>4. QED
      BY <1>3, <3>3, ConstantTypes
  <2>3. QED
    BY <2>1, <2>2
<1>8. QED
  BY <1>3, <1>6, <1>7

LEMMA NextPrefix ==
  ASSUME IInv, [Next]_vars
  PROVE  PrefixClosed(cp') /\ PrefixClosed(run'.checkpoint) /\ Walked'
<1> USE DEF IInv
<1>1. CASE Keeps
  BY <1>1 DEF Keeps, Walked
<1>2. CASE Loads
  BY <1>2, ConstantTypes DEF Loads, Walked
<1>3. CASE SkipCompleted
  <2>1. pos \in 1..Len(Order) /\ pos' = pos + 1 /\ cp' = cp /\ run' = run /\ pc # "idle"
    BY <1>3, ConstantTypes DEF SkipCompleted, TypeOK
  <2>2. cp[Order[pos]] # "absent"
    BY <1>3 DEF SkipCompleted, Completed, Current
  <2>3. \A i \in 1..Len(Order) : i < pos' => i < pos \/ i = pos
    BY <2>1, ConstantTypes
  <2>4. QED
    BY <2>1, <2>2, <2>3 DEF Walked
<1>4. CASE Records
  BY <1>4, RecordsKeepsPrefix DEF Records, Walked
<1>5. QED
  BY <1>1, <1>2, <1>3, <1>4, StepKinds

(* An open node is not checkpointed, and its foreground attempt is alive.  *)
LEMMA NextAtNode ==
  ASSUME IInv, [Next]_vars
  PROVE  AtNode' /\ WorkerLive'
<1> USE DEF IInv, AtNode, WorkerLive
<1>1. CASE \E decisions \in [GateNode -> Decision] : Invoke(decisions)
  BY <1>1 DEF Invoke
<1>2. CASE Loop
  <2>1. ASSUME AtNewNode, Enter(Current) PROVE AtNode' /\ WorkerLive'
    <3>1. Current \in Node /\ cp[Current] = "absent" /\ pos <= Len(Order)
      BY <2>1, ConstantTypes DEF AtNewNode, Completed, Current, TypeOK
    <3>2. CASE Current \in Bodyless
      BY <2>1, <3>2 DEF Enter, Record
    <3>3. CASE Current \notin Bodyless
      <4>1. cp' = cp /\ pos' = pos /\ workers' = [workers EXCEPT ![Current] = @ + 1]
        BY <2>1, <3>3 DEF Enter, StartAttempt
      <4>2. Current' = Current
        BY <4>1 DEF Current
      <4>3. workers'[Current] >= 1
        BY <3>1, <4>1 DEF TypeOK
      <4>4. QED
        BY <3>1, <4>1, <4>2, <4>3
    <3>4. QED
      BY <3>2, <3>3
  <2>2. CASE PassApprovedGate
    BY <2>1, <2>2 DEF PassApprovedGate, MustAsk, Escape
  <2>3. CASE EnterUngated
    BY <2>1, <2>3 DEF EnterUngated
  <2>4. CASE SkipCompleted \/ ExceedDeadline \/ PauseAtGate \/ DenyAtGate \/ FinishRun
    <3>1. pc' \in {"idle", "loop"}
      BY <2>4 DEF SkipCompleted, ExceedDeadline, PauseAtGate, DenyAtGate, FinishRun,
         ReturnUnless, Return, Escape
    <3>2. QED
      BY <3>1
  <2>5. QED
    BY <1>2, <2>2, <2>3, <2>4 DEF Loop
<1>3. CASE Attempt
  <2>1. ASSUME NEW output \in Output, Succeed(output) PROVE AtNode' /\ WorkerLive'
    BY <2>1 DEF Succeed, Record, Current
  <2>2. CASE RetryTransient
    BY <2>2 DEF RetryTransient, Current
  <2>3. CASE ExhaustRetries \/ FailPermanently \/ TimeOut
    BY <2>3 DEF ExhaustRetries, FailPermanently, TimeOut, Current
  <2>4. QED
    BY <1>3, <2>1, <2>2, <2>3 DEF Attempt
<1>4. CASE Compensate
  BY <1>4 DEF Compensate, Escalate, UndoSucceeds, UndoFails, UndoRecordFails, FinishUndo,
     Escape, Return, Current
<1>5. ASSUME NEW n \in Node, AbandonedWorkerEnds(n) PROVE AtNode' /\ WorkerLive'
  <2>1. UNCHANGED <<pc, cp, pos>> /\ Current' = Current
    BY <1>5 DEF AbandonedWorkerEnds, Current
  <2>2. workers' = [workers EXCEPT ![n] = @ - 1] /\ workers[n] > Foreground(n)
    BY <1>5 DEF AbandonedWorkerEnds, EndAttempt
  <2>3. ASSUME pc = "running" PROVE workers'[Current] >= 1
    <3>1. Current \in Node
      BY <2>3, ConstantTypes DEF TypeOK, Current
    <3>2. CASE n = Current
      BY <2>2, <2>3, <3>1, <3>2 DEF Foreground, TypeOK
    <3>3. CASE n # Current
      BY <2>2, <2>3, <3>1, <3>3 DEF TypeOK
    <3>4. QED
      BY <3>2, <3>3
  <2>4. QED
    BY <2>1, <2>3
<1>6. CASE UNCHANGED vars
  BY <1>6 DEF vars, Current
<1>7. QED
  BY <1>1, <1>2, <1>3, <1>4, <1>5, <1>6 DEF Next

(* A gate in a checkpoint stays approved or unneeded: the log only grows   *)
(* and the output its `needed` read is not changed once present.           *)
LEMMA NextGatesPassed ==
  ASSUME IInv, [Next]_vars
  PROVE  GatesPassed'
<1> USE DEF IInv
<1>1. ASSUME NEW g \in GateNode, cp'[g] # "absent"
      PROVE  GatePassed(g, cp)'
  <2>1. CASE Keeps
    BY <1>1, <2>1, LoggedStays DEF Keeps, GatesPassed, GatePassed, Needed
  <2>2. CASE Loads
    BY <1>1, <2>2, LoggedStays DEF Loads, GatesPassed, GatePassed, Needed
  <2>3. CASE SkipCompleted
    BY <1>1, <2>3, LoggedStays DEF SkipCompleted, GatesPassed, GatePassed, Needed
  <2>4. CASE Records
    <3>1. GateInput[g] \in Node /\ g \in Node
      BY ConstantTypes
    <3>2. ~Needed(g, cp) => ~Needed(g, cp')
      BY <2>4, <3>1, RecordsKeepsPrefix DEF Records, Needed
    <3>3. Logged("gate.approved", g)' \/ ~Needed(g, cp)
      <4>1. CASE g = Current
        BY <2>4, <4>1 DEF Records
      <4>2. CASE g # Current
        BY <1>1, <2>4, <3>1, <4>2, RecordsKeepsPrefix, LoggedStays DEF GatesPassed, GatePassed
      <4>3. QED
        BY <4>1, <4>2
    <3>4. QED
      BY <3>2, <3>3 DEF GatePassed, Needed
  <2>5. QED
    BY <2>1, <2>2, <2>3, <2>4, StepKinds
<1>2. ASSUME NEW g \in GateNode, run'.checkpoint[g] # "absent"
      PROVE  GatePassed(g, run.checkpoint)'
  <2>1. run' = run \/ run'.checkpoint = cp
    BY StepKinds DEF Keeps, Loads, SkipCompleted, Records
  <2>2. QED
    BY <1>2, <2>1, LoggedStays DEF GatesPassed, GatePassed, Needed
<1>3. ASSUME pc' = "running", NEW g \in GateNode, g = Current'
      PROVE  GatePassed(g, cp)'
  <2>1. CASE \E decisions \in [GateNode -> Decision] : Invoke(decisions)
    BY <1>3, <2>1 DEF Invoke
  <2>2. CASE Loop
    <3>1. CASE PassApprovedGate
      <4>1. cp' = cp /\ g = Current
        BY <1>3, <3>1 DEF PassApprovedGate, Enter, Record, Escape, Current
      <4>2. QED
        BY <3>1, <4>1, LogIsLogged DEF PassApprovedGate, GatePassed
    <3>2. CASE EnterUngated
      <4>1. cp' = cp /\ g = Current
        BY <1>3, <3>2 DEF EnterUngated, Enter, Record, Current
      <4>2. QED
        BY <3>2, <4>1 DEF EnterUngated, GatePassed, Needed
    <3>3. QED
      BY <1>3, <2>2, <3>1, <3>2 DEF Loop, SkipCompleted, ExceedDeadline, PauseAtGate,
         DenyAtGate, FinishRun, ReturnUnless, Return, Escape
  <2>3. CASE ~(Loop \/ \E decisions \in [GateNode -> Decision] : Invoke(decisions))
    <3>1. pc = "running" /\ cp' = cp /\ pos' = pos
      BY <1>3, <2>3 DEF Next, Attempt, Succeed, Record, RetryTransient, ExhaustRetries,
         FailPermanently, TimeOut, Compensate, Escalate, UndoSucceeds, UndoFails,
         UndoRecordFails, FinishUndo, Escape, Return, AbandonedWorkerEnds, vars
    <3>2. g = Current
      BY <1>3, <3>1 DEF Current
    <3>3. QED
      BY <3>1, <3>2, LoggedStays DEF GatesPassed, GatePassed, Needed
  <2>4. QED
    BY <2>1, <2>2, <2>3
<1>4. QED
  BY <1>1, <1>2, <1>3 DEF GatesPassed

(* IInv is inductive, so it holds in every reachable state.                *)
THEOREM Invariance == Spec => []IInv
<1>1. Init => IInv
  BY InitIInv
<1>2. IInv /\ [Next]_vars => IInv'
  <2>1. ASSUME IInv, [Next]_vars PROVE IInv'
    <3>1. TypeOK'
      BY <2>1, NextTypeOK DEF IInv
    <3>2. (PrefixClosed(cp) /\ PrefixClosed(run.checkpoint) /\ Walked)'
      BY <2>1, NextPrefix DEF PrefixClosed
    <3>3. (AtNode /\ WorkerLive)'
      BY <2>1, NextAtNode
    <3>4. GatesPassed'
      BY <2>1, NextGatesPassed
    <3>5. QED
      BY <3>1, <3>2, <3>3, <3>4 DEF IInv
  <2>2. QED
    BY <2>1
<1>3. QED
  BY <1>1, <1>2, PTL DEF Spec

(* Every reachable state is well typed.                                    *)
THEOREM TypeCorrect == Spec => []TypeOK
<1>1. IInv => TypeOK
  BY DEF IInv
<1>2. QED
  BY <1>1, Invariance, PTL

(* In a prefix of Order every node has its dependencies (the order is      *)
(* topological).                                                           *)
LEMMA PrefixHasDeps ==
  ASSUME NEW c \in Cp, PrefixClosed(c), NEW n \in Completed(c)
  PROVE  Deps[n] \subseteq Completed(c)
<1>1. n \in Node /\ c[n] # "absent"
  BY DEF Completed
<1>2. PICK i \in 1..Len(Order) : Order[i] = n
  BY <1>1, DagAssumption DEF DagAssumption
<1>3. ASSUME NEW d \in Deps[n] PROVE d \in Completed(c)
  <2>1. PICK j \in 1..Len(Order) : j < i /\ Order[j] = d
    BY <1>2, DagAssumption DEF DagAssumption
  <2>2. c[d] # "absent"
    BY <1>1, <1>2, <2>1 DEF PrefixClosed
  <2>3. QED
    BY <2>1, <2>2, ConstantTypes DEF Completed
<1>4. QED
  BY <1>3

(* The node the loop stands at has its dependencies.                       *)
LEMMA StartedHasDeps ==
  ASSUME IInv, NEW n \in Node, Started(n)
  PROVE  Deps[n] \subseteq Completed(cp)
<1>1. n = Order[pos] /\ pos \in 1..Len(Order) /\ pc = "running"
  BY DEF Started, Current, IInv, AtNode, TypeOK
<1>2. ASSUME NEW d \in Deps[n] PROVE d \in Completed(cp)
  <2>1. PICK j \in 1..Len(Order) : j < pos /\ Order[j] = d
    BY <1>1, DagAssumption DEF DagAssumption
  <2>2. cp[d] # "absent"
    BY <1>1, <2>1 DEF IInv, Walked
  <2>3. QED
    BY <2>1, <2>2, ConstantTypes DEF Completed
<1>3. QED
  BY <1>2

(* A node runs, and is checkpointed, only after its dependencies.          *)
THEOREM DependenciesFirstHolds == Spec => []DependenciesFirst
<1>1. IInv => DependenciesFirst
  <2> SUFFICES ASSUME IInv PROVE DependenciesFirst
    OBVIOUS
  <2>1. cp \in Cp /\ run.checkpoint \in Cp /\ PrefixClosed(cp) /\ PrefixClosed(run.checkpoint)
    BY DEF IInv, TypeOK, DagRun
  <2>2. QED
    BY <2>1, PrefixHasDeps, StartedHasDeps DEF DependenciesFirst
<1>2. QED
  BY <1>1, Invariance, PTL

(* No node behind a needed gate runs, or is checkpointed, unapproved.      *)
THEOREM GatesRespectedHolds == Spec => []GatesRespected
<1>1. IInv => GatesRespected
  <2> SUFFICES ASSUME IInv, NEW g \in GateNode, NEW n \in Node, g \in Deps[n],
                      Started(n) \/ n \in Completed(cp)
               PROVE  Logged("gate.approved", g) \/ ~Needed(g, cp)
    BY DEF GatesRespected
  <2>1. cp \in Cp /\ PrefixClosed(cp)
    BY DEF IInv, TypeOK
  <2>2. g \in Completed(cp)
    BY <2>1, PrefixHasDeps, StartedHasDeps
  <2>3. QED
    BY <2>2 DEF Completed, IInv, GatesPassed, GatePassed
<1>2. QED
  BY <1>1, Invariance, PTL

-----------------------------------------------------------------------------
LEMMA SameAuditLog == [Next]_vars => auditMayFail' = auditMayFail
BY DEF Next, vars, Invoke, Loop, SkipCompleted, ExceedDeadline, PauseAtGate, DenyAtGate,
   PassApprovedGate, EnterUngated, FinishRun, Attempt, Succeed, RetryTransient,
   ExhaustRetries, FailPermanently, TimeOut, Compensate, Escalate, UndoSucceeds, UndoFails,
   UndoRecordFails, FinishUndo, AbandonedWorkerEnds, invocationVars

(* With an audit log that does not raise, no abandoned worker meets a new *)
(* attempt.                                                                *)
LEMMA NextWorkersInv ==
  ASSUME ~auditMayFail, IInv, WorkersInv, [Next]_vars
  PROVE  WorkersInv'
<1> USE DEF IInv, TypeOK, WorkersInv
<1>1. AuditRaises = {FALSE}
  BY DEF AuditRaises
<1>2. pos <= Len(Order) => Current \in Node
  BY ConstantTypes DEF Current
<1>3. CASE \E decisions \in [GateNode -> Decision] : Invoke(decisions)
  BY <1>3 DEF Invoke, Foreground
<1>4. CASE Loop
  <2>1. ASSUME AtNewNode, Enter(Current) PROVE WorkersInv'
    <3>1. \A n \in Node : workers[n] = 0
      BY <2>1 DEF AtNewNode, Foreground
    <3>2. Current \in Node
      BY <1>2, <2>1 DEF AtNewNode
    <3>3. CASE Current \in Bodyless
      BY <2>1, <3>1, <3>3 DEF Enter, Record, Foreground
    <3>4. CASE Current \notin Bodyless
      <4>1. pc' = "running" /\ pos' = pos /\ workers' = [workers EXCEPT ![Current] = @ + 1]
        BY <2>1, <3>4 DEF Enter, StartAttempt
      <4>2. Current' = Current
        BY <4>1 DEF Current
      <4>3. \A n \in Node : workers'[n] = IF n = Current THEN 1 ELSE 0
        BY <3>1, <3>2, <4>1
      <4>4. QED
        BY <4>1, <4>2, <4>3 DEF Foreground
    <3>5. QED
      BY <3>3, <3>4
  <2>2. CASE PassApprovedGate
    BY <2>1, <2>2 DEF PassApprovedGate, MustAsk
  <2>3. CASE EnterUngated
    BY <2>1, <2>3 DEF EnterUngated
  <2>4. CASE SkipCompleted \/ ExceedDeadline \/ PauseAtGate \/ DenyAtGate \/ FinishRun
    <3>1. \A n \in Node : workers[n] = 0
      BY <2>4 DEF SkipCompleted, ExceedDeadline, PauseAtGate, DenyAtGate, FinishRun,
         MustAsk, AtNewNode, Foreground
    <3>2. workers' = workers
      BY <2>4 DEF SkipCompleted, ExceedDeadline, PauseAtGate, DenyAtGate, FinishRun
    <3>3. pc' # "running"
      BY <2>4 DEF SkipCompleted, ExceedDeadline, PauseAtGate, DenyAtGate, FinishRun,
         ReturnUnless, Return, Escape
    <3>4. QED
      BY <3>1, <3>2, <3>3 DEF Foreground
  <2>5. QED
    BY <1>4, <2>2, <2>3, <2>4 DEF Loop
<1>5. CASE Attempt
  <2>1. pc = "running" /\ Current \in Node /\ workers[Current] = 1
    <3>1. pc = "running"
      BY <1>5 DEF Attempt, Succeed, RetryTransient, ExhaustRetries, FailPermanently, TimeOut
    <3>2. QED
      BY <1>2, <3>1 DEF AtNode, WorkerLive
  <2>2. \A n \in Node : n # Current => workers[n] = 0
    BY <2>1 DEF Foreground
  <2>3. ASSUME EndAttempt(Current) PROVE WorkersInv'
    <3>1. \A n \in Node : workers'[n] = 0
      BY <2>1, <2>2, <2>3 DEF EndAttempt
    <3>2. QED
      BY <3>1 DEF Foreground
  <2>4. ASSUME NEW output \in Output, Succeed(output) PROVE WorkersInv'
    BY <2>3, <2>4 DEF Succeed
  <2>5. CASE RetryTransient
    BY <2>5 DEF RetryTransient, Foreground, Current
  <2>6. CASE ExhaustRetries \/ FailPermanently
    BY <2>3, <2>6 DEF ExhaustRetries, FailPermanently
  <2>7. CASE TimeOut
    BY <2>7 DEF TimeOut
  <2>8. QED
    BY <1>5, <2>4, <2>5, <2>6, <2>7 DEF Attempt
<1>6. CASE Compensate
  <2>1. CASE Escalate
    BY <2>1 DEF Escalate
  <2>2. CASE \E n \in Node : UndoSucceeds(n) \/ UndoFails(n) \/ UndoRecordFails(n)
    BY <2>2 DEF UndoSucceeds, UndoFails, UndoRecordFails
  <2>3. CASE FinishUndo
    BY <2>3 DEF FinishUndo, Return, Resumable
  <2>4. QED
    BY <1>6, <2>1, <2>2, <2>3 DEF Compensate
<1>7. ASSUME NEW n \in Node, AbandonedWorkerEnds(n) PROVE WorkersInv'
  <2>1. /\ UNCHANGED <<run, pc, pos, invocations>>
        /\ workers' = [workers EXCEPT ![n] = @ - 1]
    BY <1>7 DEF AbandonedWorkerEnds, EndAttempt, invocationVars
  <2>2. \A m \in Node : workers'[m] <= workers[m]
    BY <2>1
  <2>3. \A m \in Node : Foreground(m)' = Foreground(m)
    BY <2>1 DEF Foreground, Current
  <2>4. Resumable' = Resumable
    BY <2>1 DEF Resumable
  <2>5. \A m \in Node : Foreground(m) \in Nat /\ workers[m] \in Nat /\ workers'[m] \in Nat
    BY <1>7, <2>1 DEF AbandonedWorkerEnds, Foreground
  <2>6. QED
    BY <2>1, <2>2, <2>3, <2>4, <2>5
<1>8. CASE UNCHANGED vars
  BY <1>8 DEF vars, Foreground, Current, Resumable
<1>9. QED
  BY <1>3, <1>4, <1>5, <1>6, <1>7, <1>8 DEF Next

(* No two attempts of a body run at the same time, across timeouts, pauses *)
(* and resumes, provided the audit log never raises.                       *)
THEOREM NoRacingAttemptsHolds == Spec => []NoRacingAttempts
<1> DEFINE Inv == ~auditMayFail => WorkersInv
<1>1. Init => Inv
  BY ConstantTypes DEF Init, WorkersInv, Foreground
<1>2. IInv /\ Inv /\ [Next]_vars => Inv'
  BY NextWorkersInv, SameAuditLog
<1>3. Inv => NoRacingAttempts
  BY DEF WorkersInv, NoRacingAttempts, NeverRaces
<1> HIDE DEF Inv
<1>4. QED
  BY <1>1, <1>2, <1>3, Invariance, PTL DEF Spec

-----------------------------------------------------------------------------
(* The executor implements DurableWorkflow.                                *)
LEMMA NextOpenWhileActive ==
  ASSUME IInv, OpenWhileActive, [Next]_vars
  PROVE  OpenWhileActive'
<1>1. CASE Keeps
  BY <1>1 DEF Keeps, OpenWhileActive, IInv, TypeOK, Completed, Next, vars, Invoke, Loop,
     SkipCompleted, ExceedDeadline, PauseAtGate, DenyAtGate, PassApprovedGate, Enter, Record,
     EnterUngated, FinishRun, Attempt, Succeed, RetryTransient, ExhaustRetries,
     FailPermanently, TimeOut, Compensate, Escalate, UndoSucceeds, UndoFails,
     UndoRecordFails, FinishUndo, AbandonedWorkerEnds, ReturnUnless, Return, Escape
<1>2. CASE Loads
  <2>1. pc' # "idle" => pc # "idle" \/ Resumable
    BY DEF Next, vars, Invoke, Loop,
     SkipCompleted, ExceedDeadline, PauseAtGate, DenyAtGate, PassApprovedGate, Enter, Record,
     EnterUngated, FinishRun, MustAsk, AtNewNode, Attempt, Succeed, RetryTransient, ExhaustRetries,
     FailPermanently, TimeOut, Compensate, Escalate, UndoSucceeds, UndoFails,
     UndoRecordFails, FinishUndo, AbandonedWorkerEnds
  <2>2. QED
    BY <1>2, <2>1 DEF Loads, OpenWhileActive, Resumable, Completed
<1>3. CASE SkipCompleted
  BY <1>3 DEF SkipCompleted, OpenWhileActive, Completed
<1>4. CASE Records
  BY <1>4, RecordsKeepsPrefix DEF Records, OpenWhileActive, Completed
<1>5. QED
  BY <1>1, <1>2, <1>3, <1>4, StepKinds

LEMMA ReturnsRefine ==
  ASSUME IInv, OpenWhileActive, pc # "idle", cp' = cp, NEW status, NEW g, Return(status, g),
         \/ status = "SUCCEEDED" /\ Completed(cp) = Node /\ g = NoNode
         \/ /\ status = "PAUSED" /\ g \in GateNode \ Completed(cp)
            /\ Deps[g] \subseteq Completed(cp)
         \/ status \in {"FAILED", "COMPENSATED"} /\ Completed(cp) # Node /\ g = NoNode
  PROVE  Durable!Next
<1>1. /\ run'.status = status /\ run'.pendingGate = g
      /\ Completed(run'.checkpoint) = Completed(cp)
  BY DEF Return
<1>2. Durable!DependencyClosed(Completed(cp))
  BY PrefixHasDeps DEF Durable!DependencyClosed, IInv, TypeOK
<1>3. Completed(cp) \subseteq Node
  BY DEF Completed
<1>4. Durable!Progress
  <2>1. run.status \in Durable!Open /\ Completed(run.checkpoint) \subseteq Completed(cp)
    BY DEF OpenWhileActive, Durable!Open
  <2>2. Completed(run.checkpoint)' = Completed(cp)
    BY <1>1 DEF Completed
  <2>3. Durable!DependencyClosed(Completed(run.checkpoint))'
    BY <1>2, <2>2 DEF Durable!DependencyClosed
  <2>4. QED
    BY <1>3, <2>1, <2>2, <2>3 DEF Durable!Progress
<1>5. Completed(run.checkpoint)' = Completed(cp)
  BY <1>1 DEF Completed
<1>6. QED
  BY <1>1, <1>4, <1>5 DEF Durable!Next, Durable!Pause, Durable!Complete, Durable!Abort

LEMMA StepRefines ==
  ASSUME IInv, OpenWhileActive, [Next]_vars
  PROVE  [Durable!Next]_(Durable!abstractVars)
<1> USE DEF IInv
<1>0. ASSUME run' = run PROVE UNCHANGED Durable!abstractVars
  BY <1>0 DEF Durable!abstractVars, Completed
<1>1. ASSUME AtNewNode
      PROVE  /\ pc # "idle" /\ Current \in Node /\ Current \notin Completed(cp)
             /\ Completed(cp) # Node
             /\ Deps[Current] \subseteq Completed(cp)
  <2>1. pos \in 1..Len(Order) /\ Current \in Node /\ Current \notin Completed(cp)
    BY <1>1, ConstantTypes DEF AtNewNode, TypeOK, Current
  <2>2. ASSUME NEW d \in Deps[Current] PROVE d \in Completed(cp)
    <3>1. PICK j \in 1..Len(Order) : j < pos /\ Order[j] = d
      BY <2>1, DagAssumption DEF DagAssumption, Current
    <3>2. cp[d] # "absent"
      BY <1>1, <3>1 DEF Walked, AtNewNode
    <3>3. QED
      BY <3>1, <3>2, ConstantTypes DEF Completed
  <2>3. QED
    BY <1>1, <2>1, <2>2 DEF AtNewNode
<1>2. CASE Loop
  <2>1. CASE ExceedDeadline
    <3>1. AtNewNode /\ cp' = cp /\ (run' = run \/ Return("FAILED", NoNode))
      BY <2>1 DEF ExceedDeadline, ReturnUnless, Escape
    <3>2. QED
      BY <1>0, <1>1, <3>1, ReturnsRefine
  <2>2. CASE PauseAtGate
    <3>1. /\ AtNewNode /\ cp' = cp /\ Current \in GateNode
          /\ \A m : m = Current => (run' = run \/ Return("PAUSED", m))
      BY <2>2 DEF PauseAtGate, MustAsk, ReturnUnless, Escape
    <3>2. QED
      BY <1>0, <1>1, <3>1, ReturnsRefine
  <2>3. CASE DenyAtGate
    <3>1. AtNewNode /\ cp' = cp /\ (run' = run \/ Return("FAILED", NoNode))
      BY <2>3 DEF DenyAtGate, MustAsk, ReturnUnless, Escape
    <3>2. QED
      BY <1>0, <1>1, <3>1, ReturnsRefine
  <2>4. CASE FinishRun
    <3>1. pc # "idle" /\ cp' = cp /\ Return("SUCCEEDED", NoNode)
      BY <2>4 DEF FinishRun
    <3>2. \A i \in 1..Len(Order) : cp[Order[i]] # "absent"
      BY <2>4, ConstantTypes DEF FinishRun, Walked
    <3>3. Completed(cp) = Node
      <4>1. \A n \in Node : \E i \in 1..Len(Order) : Order[i] = n
        BY DagAssumption DEF DagAssumption
      <4>2. \A n \in Node : cp[n] # "absent"
        BY <3>2, <4>1
      <4>3. QED
        BY <4>2 DEF Completed
    <3>4. QED
      BY <3>1, <3>3, ReturnsRefine
  <2>5. CASE SkipCompleted \/ PassApprovedGate \/ EnterUngated
    BY <1>0, <2>5 DEF SkipCompleted, PassApprovedGate, EnterUngated, Escape
  <2>6. QED
    BY <1>2, <2>1, <2>2, <2>3, <2>4, <2>5 DEF Loop
<1>3. CASE Compensate
  <2>1. CASE FinishUndo
    <3>1. pc # "idle" /\ cp' = cp /\ (Return("COMPENSATED", NoNode) \/ Return("FAILED", NoNode))
      BY <2>1 DEF FinishUndo
    <3>2. Current \in Node /\ cp[Current] = "absent"
      BY <2>1, ConstantTypes DEF FinishUndo, AtNode, TypeOK, Current
    <3>3. Completed(cp) # Node
      BY <3>2 DEF Completed
    <3>4. QED
      BY <3>1, <3>3, ReturnsRefine
  <2>2. CASE ~FinishUndo
    BY <1>0, <1>3, <2>2 DEF Compensate, Escalate, UndoSucceeds, UndoFails, UndoRecordFails, Escape
  <2>3. QED
    BY <2>1, <2>2
<1>4. CASE ~Loop /\ ~Compensate
  BY <1>0, <1>4 DEF Next, vars, Invoke, Attempt, Succeed, RetryTransient, ExhaustRetries,
     FailPermanently, TimeOut, AbandonedWorkerEnds
<1>5. QED
  BY <1>2, <1>3, <1>4

(* Whatever a caller can see of a run is a behaviour of DurableWorkflow.   *)
THEOREM Refinement == Spec => ImplementsDurableWorkflow
<1>1. Init => Durable!Init /\ OpenWhileActive
  BY DEF Init, EmptyCp, Durable!Init, OpenWhileActive, Completed
<1>2. IInv /\ OpenWhileActive /\ [Next]_vars => OpenWhileActive'
  BY NextOpenWhileActive
<1>3. IInv /\ OpenWhileActive /\ [Next]_vars => [Durable!Next]_(Durable!abstractVars)
  BY StepRefines
<1>4. QED
  BY <1>1, <1>2, <1>3, Invariance, PTL DEF Spec, ImplementsDurableWorkflow, Durable!Spec
-----------------------------------------------------------------------------
(***************************************************************************)
(* What the audit log of a run tells, when the log itself does not raise:  *)
(* the log and the checkpoint say the same of every node, an escalation    *)
(* ends the run, and the order of the records is the order of the walk,    *)
(* forwards for successes and backwards for undo handlers.                 *)
(***************************************************************************)
Of(action) == {n \in Node : Logged(action, n)}
Undone     == Of("node.compensated")
Kept       == Of("compensation.failed")

(* A node failed, and the run is on its way to its end or there.           *)
Ending == pc = "undo" \/ (pc = "idle" /\ run.status \in {"FAILED", "COMPENSATED"})

(* A node may still be entered.                                            *)
Open == pc \in {"loop", "running"} \/ (pc = "idle" /\ Resumable)

CallInv ==
  /\ pc = "idle" => run.checkpoint = cp
  /\ run.status \in Terminal => pc = "idle"
  /\ pc = "running" => Current \notin Bodyless
  /\ pc \in {"loop", "running", "failing"} => compensated = <<>>

(* A node is checkpointed exactly when its body has succeeded, once.       *)
SuccessInv ==
  \A n \in Node :
    /\ Times("node.succeeded", n) <= 1
    /\ Logged("node.succeeded", n) <=> n \in Completed(cp) \ Bodyless

FailureInv ==
  \A n \in Node :
    /\ Times("node.failed", n) <= 1
    /\ Logged("node.failed", n) => n \notin Completed(cp) /\ Ending

(* The retries of a node are all made while it is the current one.         *)
RetryInv ==
  \A n \in Node :
    /\ Times("node.retry", n) < MaxAttempts[n]
    /\ Open /\ n \notin Completed(cp) /\ ~Started(n) => Times("node.retry", n) = 0
    /\ Started(n) => attempt \in 1..MaxAttempts[n] /\ Times("node.retry", n) = attempt - 1

UndoInv ==
  /\ Undone \cup Kept \subseteq Completed(cp) \cap Compensable
  /\ Undone \cup Kept # {} => Ending
  /\ Undone # {} => pc = "undo" \/ run.status = "COMPENSATED"
  /\ pc = "undo" =>
       /\ Undone \cup Kept \cup toUndo = Completed(cp) \cap Compensable
       /\ \A n \in Undone, m \in toUndo : Index(m) < Index(n)
       /\ compensated # <<>> <=> Undone # {}
  /\ pc = "idle" /\ Of("node.failed") # {} =>
       Undone \cup Kept = Completed(cp) \cap Compensable
  /\ run.status = "COMPENSATED" => Undone # {}

ResultInv ==
  /\ run.status = "SUCCEEDED" => Completed(run.checkpoint) = Node
  /\ run.status = "PAUSED" =>
       /\ run.pendingGate \in GateNode \ Completed(run.checkpoint)
       /\ Needed(run.pendingGate, run.checkpoint)
       /\ Deps[run.pendingGate] \subseteq Completed(run.checkpoint)

(* Nodes succeed in the order of the walk, are undone against it, and none *)
(* succeeds after one was undone.                                          *)
WalkInv ==
  \A i, j \in DOMAIN audit : i < j =>
    /\ audit[i].action = "node.succeeded" /\ audit[j].action = "node.succeeded" =>
         Index(audit[i].node) < Index(audit[j].node)
    /\ audit[i].action = "node.compensated" /\ audit[j].action = "node.compensated" =>
         Index(audit[j].node) < Index(audit[i].node)
    /\ ~(audit[i].action = "node.compensated" /\ audit[j].action = "node.succeeded")

HistoryInv ==
  CallInv /\ SuccessInv /\ FailureInv /\ RetryInv /\ UndoInv /\ ResultInv /\ WalkInv

AuditReliable == ~auditMayFail => HistoryInv
-----------------------------------------------------------------------------
(* The log, its counts and its order.                                      *)

AuditRecord == [action : Action, node : Node]
Tracked == {"node.succeeded", "node.retry", "node.failed", "node.compensated",
            "compensation.failed"}

LEMMA IndexFacts ==
  ASSUME NEW i \in 1..Len(Order)
  PROVE  Index(Order[i]) = i
<1>1. \E j \in 1..Len(Order) : Order[j] = Order[i]
  OBVIOUS
<1>2. Index(Order[i]) \in 1..Len(Order) /\ Order[Index(Order[i])] = Order[i]
  BY <1>1 DEF Index
<1>3. QED
  BY <1>2, DagAssumption DEF DagAssumption

LEMMA NodeHasIndex ==
  ASSUME NEW n \in Node
  PROVE  Index(n) \in 1..Len(Order) /\ Order[Index(n)] = n
<1>1. \E i \in 1..Len(Order) : Order[i] = n
  BY DagAssumption DEF DagAssumption
<1>2. QED
  BY <1>1 DEF Index

(* Counts are numbers, and are zero of what was not logged.                *)
LEMMA TimesType ==
  ASSUME TypeOK, NEW b, NEW m
  PROVE  Times(b, m) \in Nat /\ (Times(b, m) = 0 <=> ~Logged(b, m))
<1> DEFINE at == {i \in DOMAIN audit : audit[i] = Rec(b, m)}
<1>1. DOMAIN audit = 1..Len(audit) /\ Len(audit) \in Nat
  BY DEF TypeOK
<1>2. IsFiniteSet(at)
  <2>1. at \in SUBSET (1..Len(audit)) /\ IsFiniteSet(1..Len(audit))
    BY <1>1, FS_Interval
  <2>2. QED
    BY <2>1, FS_Subset
<1>3. Cardinality(at) \in Nat /\ (Cardinality(at) = 0 <=> at = {})
  BY <1>2, FS_CardinalityType, FS_EmptySet
<1>4. Times(b, m) = Cardinality(at)
  BY DEF Times
<1>5. Logged(b, m) <=> at # {}
  BY DEF Logged
<1>6. QED
  BY <1>3, <1>4, <1>5

(* One more record.                                                        *)
LEMMA AfterLog ==
  ASSUME TypeOK, NEW a \in Action, NEW n \in Node, Log(a, n)
  PROVE  /\ Len(audit) \in Nat /\ DOMAIN audit = 1..Len(audit)
         /\ DOMAIN audit' = 1..(Len(audit) + 1)
         /\ audit'[Len(audit) + 1] = Rec(a, n)
         /\ \A i \in 1..Len(audit) : audit'[i] = audit[i] /\ audit[i] \in AuditRecord
         /\ \A b, m : Logged(b, m)' <=> Logged(b, m) \/ (b = a /\ m = n)
         /\ \A b, m : ~(b = a /\ m = n) => Times(b, m)' = Times(b, m)
         /\ Times(a, n)' = Times(a, n) + 1
<1>1. audit \in Seq(AuditRecord) /\ Rec(a, n) \in AuditRecord /\ audit' = Append(audit, Rec(a, n))
  BY DEF TypeOK, AuditRecord, Rec, Log
<1>2. /\ Len(audit) \in Nat /\ DOMAIN audit = 1..Len(audit)
      /\ DOMAIN audit' = 1..(Len(audit) + 1)
      /\ audit'[Len(audit) + 1] = Rec(a, n)
      /\ \A i \in 1..Len(audit) : audit'[i] = audit[i] /\ audit[i] \in AuditRecord
  BY <1>1
<1>3. \A b, m : Rec(b, m) = Rec(a, n) <=> b = a /\ m = n
  BY DEF Rec
<1>4. ASSUME NEW b, NEW m
      PROVE  {i \in DOMAIN audit' : audit'[i] = Rec(b, m)} =
               {i \in DOMAIN audit : audit[i] = Rec(b, m)}
                 \cup (IF b = a /\ m = n THEN {Len(audit) + 1} ELSE {})
  BY <1>2, <1>3
<1>5. \A b, m : Logged(b, m)' <=> Logged(b, m) \/ (b = a /\ m = n)
  BY <1>2, <1>3 DEF Logged
<1>6. ASSUME NEW b, NEW m, ~(b = a /\ m = n) PROVE Times(b, m)' = Times(b, m)
  <2>1. {i \in DOMAIN audit' : audit'[i] = Rec(b, m)}
          = {i \in DOMAIN audit : audit[i] = Rec(b, m)}
    BY <1>2, <1>3, <1>6
  <2>2. QED
    BY <2>1 DEF Times
<1>7. Times(a, n)' = Times(a, n) + 1
  <2> DEFINE at == {i \in DOMAIN audit : audit[i] = Rec(a, n)}
  <2>1. IsFiniteSet(at) /\ Len(audit) + 1 \notin at
    <3>1. at \in SUBSET (1..Len(audit)) /\ IsFiniteSet(1..Len(audit))
      BY <1>2, FS_Interval
    <3>2. QED
      BY <1>2, <3>1, FS_Subset
  <2>2. Cardinality(at \cup {Len(audit) + 1}) = Cardinality(at) + 1
    BY <2>1, FS_AddElement
  <2>3. {i \in DOMAIN audit' : audit'[i] = Rec(a, n)} = at \cup {Len(audit) + 1}
    BY <1>4
  <2>4. QED
    BY <2>2, <2>3 DEF Times
<1>8. QED
  BY <1>2, <1>5, <1>6, <1>7

(* A step that logs nothing of what the invariant is about.                *)
Silent == UNCHANGED audit \/ \E a \in Action \ Tracked, n \in Node : Log(a, n)

LEMMA AfterSilence ==
  ASSUME TypeOK, Silent
  PROVE  /\ \A b \in Tracked, m \in Node :
              Times(b, m)' = Times(b, m) /\ (Logged(b, m)' <=> Logged(b, m))
         /\ \A b \in Tracked : Of(b)' = Of(b)
         /\ \A i \in DOMAIN audit' : audit'[i].action \in Tracked =>
              i \in DOMAIN audit /\ audit'[i] = audit[i]
<1>1. CASE UNCHANGED audit
  <2>1. \A b, m : Times(b, m)' = Times(b, m) /\ (Logged(b, m)' <=> Logged(b, m))
    BY <1>1 DEF Times, Logged
  <2>2. QED
    BY <1>1, <2>1 DEF Of
<1>2. ASSUME NEW a \in Action \ Tracked, NEW n \in Node, Log(a, n)
      PROVE  /\ \A b \in Tracked, m \in Node :
                  Times(b, m)' = Times(b, m) /\ (Logged(b, m)' <=> Logged(b, m))
             /\ \A i \in DOMAIN audit' : audit'[i].action \in Tracked =>
                  i \in DOMAIN audit /\ audit'[i] = audit[i]
  <2>1. \A b \in Tracked : b # a
    BY <1>2
  <2>2. \A b \in Tracked, m \in Node :
          Times(b, m)' = Times(b, m) /\ (Logged(b, m)' <=> Logged(b, m))
    BY <1>2, <2>1, AfterLog
  <2>3. /\ DOMAIN audit' = 1..(Len(audit) + 1) /\ DOMAIN audit = 1..Len(audit)
        /\ audit'[Len(audit) + 1] = Rec(a, n) /\ Len(audit) \in Nat
        /\ \A i \in 1..Len(audit) : audit'[i] = audit[i]
    BY <1>2, AfterLog
  <2>4. Rec(a, n).action \notin Tracked
    BY <1>2 DEF Rec
  <2>5. QED
    BY <2>2, <2>3, <2>4
<1>3. ASSUME NEW b \in Tracked,
             \A m \in Node : Logged(b, m)' <=> Logged(b, m)
      PROVE  Of(b)' = Of(b)
  BY <1>3 DEF Of
<1>4. QED
  BY <1>1, <1>2, <1>3 DEF Silent

-----------------------------------------------------------------------------
(* What a step does, when recording it does not raise.                     *)

(* The call starts; the walk passes a checkpointed node, or one without a  *)
(* body; or it enters a body.                                              *)
Rests  == UNCHANGED <<run, pc, cp, pos, attempt, toUndo, compensated, audit, invocations>>
Starts == /\ pc = "idle" /\ Resumable /\ pc' = "loop"
          /\ cp' = run.checkpoint /\ compensated' = <<>> /\ UNCHANGED <<run, audit>>
Skips  == pc = "loop" /\ pc' = "loop" /\ UNCHANGED <<run, cp, compensated, audit>>
Passes == /\ AtNewNode /\ Current \in Bodyless /\ Silent
          /\ pc' = "loop" /\ cp' = [cp EXCEPT ![Current] = "passed"]
          /\ UNCHANGED <<run, compensated>>
Enters == /\ AtNewNode /\ Current \notin Bodyless /\ Silent
          /\ pc' = "running" /\ attempt' = 1 /\ UNCHANGED <<run, cp, pos, compensated>>

(* The call returns a DagRun from the loop.                                *)
LoopReturns ==
  /\ pc = "loop" /\ pc' = "idle" /\ Silent /\ UNCHANGED <<cp, pos, compensated>>
  /\ run'.checkpoint = cp
  /\ \/ run'.status = "FAILED"
     \/ /\ run'.status = "PAUSED" /\ run'.pendingGate \in GateNode \ Completed(cp)
        /\ Needed(run'.pendingGate, cp) /\ Deps[run'.pendingGate] \subseteq Completed(cp)
     \/ run'.status = "SUCCEEDED" /\ Completed(cp) = Node

(* An attempt of the current node's body ends.                             *)
Succeeds ==
  /\ pc = "running" /\ pc' = "loop" /\ Log("node.succeeded", Current)
  /\ \E output \in Output \ {"absent"} : cp' = [cp EXCEPT ![Current] = output]
  /\ UNCHANGED <<run, compensated>>
Retries ==
  /\ pc = "running" /\ pc' = "running" /\ Log("node.retry", Current)
  /\ attempt < MaxAttempts[Current] /\ attempt' = attempt + 1
  /\ UNCHANGED <<run, cp, pos, compensated>>
Fails ==
  /\ pc = "running" /\ pc' = "failing" /\ Silent /\ UNCHANGED <<run, cp, pos, compensated>>

(* The failure is escalated, handlers run, the call returns.               *)
Escalates ==
  /\ pc = "failing" /\ pc' = "undo" /\ Log("node.failed", Current)
  /\ toUndo' = Completed(cp) \cap Compensable /\ UNCHANGED <<run, cp, pos, compensated>>
Undoes(n) ==
  /\ pc = "undo" /\ pc' = "undo" /\ IsLast(n, toUndo) /\ toUndo' = toUndo \ {n}
  /\ \/ Log("node.compensated", n) /\ compensated' = Append(compensated, n)
     \/ Log("compensation.failed", n) /\ UNCHANGED compensated
  /\ UNCHANGED <<run, cp, pos>>
UndoReturns ==
  /\ pc = "undo" /\ pc' = "idle" /\ toUndo = {} /\ run'.checkpoint = cp
  /\ run'.status = IF compensated # <<>> THEN "COMPENSATED" ELSE "FAILED"
  /\ UNCHANGED <<cp, pos, toUndo, compensated, audit>>

(* At a new node everything before it is checkpointed, what it depends on  *)
(* included.                                                               *)
LEMMA NewNodeFacts ==
  ASSUME IInv, AtNewNode
  PROVE  /\ pc = "loop" /\ Current \in Node /\ Current \notin Completed(cp)
         /\ Deps[Current] \subseteq Completed(cp)
<1>1. pc = "loop" /\ pos \in 1..Len(Order) /\ Current = Order[pos] /\ Current \in Node
      /\ Current \notin Completed(cp)
  BY ConstantTypes DEF AtNewNode, Current, IInv, TypeOK
<1>2. ASSUME NEW d \in Deps[Current] PROVE d \in Completed(cp)
  <2>1. PICK j \in 1..Len(Order) : j < pos /\ Order[j] = d
    BY <1>1, DagAssumption DEF DagAssumption
  <2>2. cp[d] # "absent"
    BY <1>1, <2>1 DEF IInv, Walked
  <2>3. QED
    BY <2>1, <2>2, ConstantTypes DEF Completed
<1>3. QED
  BY <1>1, <1>2

LEMMA HistoryKinds ==
  ASSUME ~auditMayFail, IInv, [Next]_vars
  PROVE  \/ Rests \/ Starts \/ Skips \/ Passes \/ Enters \/ LoopReturns
         \/ Succeeds \/ Retries \/ Fails \/ Escalates \/ UndoReturns
         \/ \E n \in Node : Undoes(n)
<1>0. AuditRaises = {FALSE}
  BY DEF AuditRaises
<1>1. CASE \E decisions \in [GateNode -> Decision] : Invoke(decisions)
  BY <1>1 DEF Invoke, Starts
<1>2. CASE Loop
  <2>1. CASE SkipCompleted
    BY <2>1 DEF SkipCompleted, Skips, undoVars
  <2>2. ASSUME NEW a \in Action \ Tracked, NEW status, NEW g, AtNewNode, Log(a, Current),
               NEW raises \in AuditRaises, ReturnUnless(raises, status, g)
        PROVE  /\ pc = "loop" /\ pc' = "idle" /\ Silent /\ run'.checkpoint = cp
               /\ run'.status = status /\ run'.pendingGate = g
    <3>1. Return(status, g) /\ pc = "loop" /\ Current \in Node
      BY <1>0, <2>2, NewNodeFacts DEF ReturnUnless
    <3>2. QED
      BY <2>2, <3>1 DEF Return, Silent
  <2>3. CASE ExceedDeadline
    <3>1. "workflow.deadline" \in Action \ Tracked
      BY DEF Action, Tracked
    <3>2. AtNewNode /\ Log("workflow.deadline", Current) /\ UNCHANGED <<cp, pos, compensated>>
          /\ \E raises \in AuditRaises : ReturnUnless(raises, "FAILED", NoNode)
      BY <2>3 DEF ExceedDeadline, undoVars
    <3>3. QED
      BY <2>2, <3>1, <3>2 DEF LoopReturns
  <2>4. CASE PauseAtGate
    <3>1. "gate.paused" \in Action \ Tracked
      BY DEF Action, Tracked
    <3>2. /\ AtNewNode /\ Current \in GateNode /\ Needed(Current, cp)
          /\ Log("gate.paused", Current) /\ UNCHANGED <<cp, pos, compensated>>
          /\ \E raises \in AuditRaises : ReturnUnless(raises, "PAUSED", Current)
      BY <2>4 DEF PauseAtGate, MustAsk, undoVars
    <3>3. /\ pc = "loop" /\ pc' = "idle" /\ Silent /\ run'.checkpoint = cp
          /\ run'.status = "PAUSED" /\ run'.pendingGate = Current
      BY <2>2, <3>1, <3>2
    <3>4. QED
      BY <3>2, <3>3, NewNodeFacts DEF LoopReturns
  <2>5. CASE DenyAtGate
    <3>1. "gate.denied" \in Action \ Tracked
      BY DEF Action, Tracked
    <3>2. AtNewNode /\ Log("gate.denied", Current) /\ UNCHANGED <<cp, pos, compensated>>
          /\ \E raises \in AuditRaises : ReturnUnless(raises, "FAILED", NoNode)
      BY <2>5 DEF DenyAtGate, MustAsk, undoVars
    <3>3. QED
      BY <2>2, <3>1, <3>2 DEF LoopReturns
  <2>6. ASSUME AtNewNode, Enter(Current), Silent, UNCHANGED <<run, compensated>>
        PROVE  Passes \/ Enters
    BY <2>6 DEF Enter, Record, Passes, Enters
  <2>7. CASE PassApprovedGate
    <3>1. AtNewNode /\ Enter(Current) /\ Log("gate.approved", Current)
          /\ UNCHANGED <<run, compensated>>
      BY <2>7 DEF PassApprovedGate, MustAsk, undoVars
    <3>2. "gate.approved" \in Action \ Tracked
      BY DEF Action, Tracked
    <3>3. Silent
      BY <3>1, <3>2, NewNodeFacts DEF Silent
    <3>4. QED
      BY <2>6, <3>1, <3>3
  <2>8. CASE EnterUngated
    BY <2>6, <2>8 DEF EnterUngated, undoVars, Silent
  <2>9. CASE FinishRun
    <3>1. /\ pc = "loop" /\ pos = Len(Order) + 1 /\ Return("SUCCEEDED", NoNode)
          /\ UNCHANGED <<cp, pos, compensated, audit>>
      BY <2>9 DEF FinishRun, undoVars
    <3>2. \A i \in 1..Len(Order) : cp[Order[i]] # "absent"
      BY <3>1, ConstantTypes DEF IInv, Walked
    <3>3. \A n \in Node : cp[n] # "absent"
      BY <3>2, NodeHasIndex
    <3>4. Completed(cp) = Node
      BY <3>3 DEF Completed
    <3>5. QED
      BY <3>1, <3>4 DEF LoopReturns, Return, Silent
  <2>10. QED
    BY <1>2, <2>1, <2>3, <2>4, <2>5, <2>7, <2>8, <2>9 DEF Loop
<1>3. CASE Attempt
  <2>1. pc = "running" /\ Current \in Node
    <3>1. pc = "running"
      BY <1>3 DEF Attempt, Succeed, RetryTransient, ExhaustRetries, FailPermanently, TimeOut
    <3>2. pos \in 1..Len(Order)
      BY <3>1 DEF IInv, AtNode, TypeOK
    <3>3. QED
      BY <3>1, <3>2, ConstantTypes DEF Current
  <2>2. ASSUME NEW output \in Output, Succeed(output) PROVE Succeeds
    BY <2>1, <2>2 DEF Succeed, Succeeds, Record, OutputsOf, undoVars
  <2>3. CASE RetryTransient
    BY <2>1, <2>3 DEF RetryTransient, Retries, undoVars
  <2>4. CASE ExhaustRetries \/ FailPermanently
    BY <2>1, <2>4 DEF ExhaustRetries, FailPermanently, Fails, undoVars, Silent
  <2>5. CASE TimeOut
    <3>1. "node.timeout" \in Action \ Tracked
      BY DEF Action, Tracked
    <3>2. QED
      BY <2>1, <2>5, <3>1 DEF TimeOut, Fails, undoVars, Silent
  <2>6. QED
    BY <1>3, <2>2, <2>3, <2>4, <2>5 DEF Attempt
<1>4. CASE Compensate
  <2>1. CASE Escalate
    BY <2>1 DEF Escalate, Escalates
  <2>2. ASSUME NEW n \in Node, UndoSucceeds(n) \/ UndoFails(n) \/ UndoRecordFails(n)
        PROVE  Undoes(n)
    BY <2>2 DEF UndoSucceeds, UndoFails, UndoRecordFails, Undoes
  <2>3. CASE FinishUndo
    BY <2>3 DEF FinishUndo, Return, UndoReturns, undoVars
  <2>4. QED
    BY <1>4, <2>1, <2>2, <2>3 DEF Compensate
<1>5. CASE (\E n \in Node : AbandonedWorkerEnds(n)) \/ UNCHANGED vars
  BY <1>5 DEF AbandonedWorkerEnds, invocationVars, undoVars, vars, Rests
<1>6. QED
  BY <1>1, <1>2, <1>3, <1>4, <1>5 DEF Next

(* Which records a step can add, and which nodes it can checkpoint.        *)
SameRecords(b) ==
  /\ \A n \in Node : Times(b, n)' = Times(b, n) /\ (Logged(b, n)' <=> Logged(b, n))
  /\ Of(b)' = Of(b)
Kind ==
  \/ Rests \/ Starts \/ Skips \/ Passes \/ Enters \/ LoopReturns
  \/ Succeeds \/ Retries \/ Fails \/ Escalates \/ UndoReturns
  \/ \E n \in Node : Undoes(n)

LEMMA CurrentFacts ==
  ASSUME IInv, pc \in {"running", "failing", "undo"}
  PROVE  /\ pos \in 1..Len(Order) /\ Current = Order[pos]
         /\ Current \in Node /\ Current \notin Completed(cp)
<1>1. pos \in 1..Len(Order) /\ Current = Order[pos] /\ cp[Current] = "absent"
  BY DEF IInv, AtNode, TypeOK, Current
<1>2. QED
  BY <1>1, ConstantTypes DEF Completed

LEMMA SilentRecords ==
  ASSUME IInv, Silent
  PROVE  \A b \in Tracked : SameRecords(b)
BY AfterSilence DEF IInv, SameRecords

LEMMA LoggedRecords ==
  ASSUME IInv, NEW a \in Action, NEW n \in Node, Log(a, n)
  PROVE  /\ \A b \in Tracked \ {a} : SameRecords(b)
         /\ Times(a, n)' = Times(a, n) + 1
         /\ \A m \in Node \ {n} : Times(a, m)' = Times(a, m)
         /\ Of(a)' = Of(a) \cup {n}
<1>1. /\ \A b, m : Logged(b, m)' <=> Logged(b, m) \/ (b = a /\ m = n)
      /\ \A b, m : ~(b = a /\ m = n) => Times(b, m)' = Times(b, m)
      /\ Times(a, n)' = Times(a, n) + 1
  BY AfterLog DEF IInv
<1>2. ASSUME NEW b \in Tracked \ {a} PROVE SameRecords(b)
  <2>1. \A m \in Node : Times(b, m)' = Times(b, m) /\ (Logged(b, m)' <=> Logged(b, m))
    BY <1>1, <1>2
  <2>2. Of(b)' = Of(b)
    BY <2>1 DEF Of
  <2>3. QED
    BY <2>1, <2>2 DEF SameRecords
<1>3. Of(a)' = Of(a) \cup {n}
  BY <1>1 DEF Of
<1>4. QED
  BY <1>1, <1>2, <1>3

LEMMA RecordsKept ==
  ASSUME IInv, Kind
  PROVE  /\ Succeeds \/ SameRecords("node.succeeded")
         /\ Retries \/ SameRecords("node.retry")
         /\ Escalates \/ SameRecords("node.failed")
         /\ (\E n \in Node : Undoes(n))
              \/ (SameRecords("node.compensated") /\ SameRecords("compensation.failed"))
<1> USE DEF Tracked, Action
<1>1. CASE \/ Rests \/ Starts \/ Skips \/ Passes \/ Enters \/ LoopReturns \/ Fails
           \/ UndoReturns
  <2>1. Silent
    BY <1>1 DEF Rests, Starts, Skips, Passes, Enters, LoopReturns, Fails, UndoReturns, Silent
  <2>2. QED
    BY <2>1, SilentRecords
<1>2. CASE Succeeds
  BY <1>2, LoggedRecords, CurrentFacts DEF Succeeds
<1>3. CASE Retries
  BY <1>3, LoggedRecords, CurrentFacts DEF Retries
<1>4. CASE Escalates
  BY <1>4, LoggedRecords, CurrentFacts DEF Escalates
<1>5. ASSUME NEW n \in Node, Undoes(n)
      PROVE  SameRecords("node.succeeded") /\ SameRecords("node.retry") /\ SameRecords("node.failed")
  <2>1. Log("node.compensated", n) \/ Log("compensation.failed", n)
    BY <1>5 DEF Undoes
  <2>2. QED
    BY <2>1, LoggedRecords
<1>6. QED
  BY <1>1, <1>2, <1>3, <1>4, <1>5 DEF Kind

LEMMA CompletedAfter ==
  ASSUME IInv, CallInv, Kind
  PROVE  /\ Passes \/ Succeeds =>
              /\ Current \in Node /\ Current \notin Completed(cp)
              /\ Completed(cp') = Completed(cp) \cup {Current}
         /\ ~(Passes \/ Succeeds) => cp' = cp
<1>1. cp \in [Node -> Output]
  BY DEF IInv, TypeOK, Cp
<1>2. Passes \/ Succeeds => Current \in Node /\ Current \notin Completed(cp)
  BY CurrentFacts, NewNodeFacts DEF Passes, Succeeds
<1>3. Passes \/ Succeeds =>
        \E output \in Output \ {"absent"} : cp' = [cp EXCEPT ![Current] = output]
  BY DEF Passes, Succeeds, Output
<1>4. ASSUME Passes \/ Succeeds PROVE Completed(cp') = Completed(cp) \cup {Current}
  <2>1. PICK output \in Output \ {"absent"} : cp' = [cp EXCEPT ![Current] = output]
    BY <1>3, <1>4
  <2>2. \A n \in Node : cp'[n] = IF n = Current THEN output ELSE cp[n]
    BY <1>1, <2>1
  <2>3. QED
    BY <1>2, <1>4, <2>1, <2>2 DEF Completed
<1>5. ~(Passes \/ Succeeds) => cp' = cp
  BY DEF Kind, Rests, Starts, Skips, Enters, LoopReturns, Retries, Fails, Escalates, Undoes,
     UndoReturns, CallInv
<1>6. QED
  BY <1>2, <1>4, <1>5

-----------------------------------------------------------------------------
(* Every step keeps the invariant, part by part.                           *)

LEMMA NextCallInv == ASSUME IInv, CallInv, Kind PROVE CallInv'
<1> USE DEF CallInv
<1>1. CASE Rests
  BY <1>1 DEF Rests, Current
<1>2. CASE Starts
  BY <1>2 DEF Starts, Resumable, Terminal
<1>3. CASE Skips \/ Passes
  BY <1>3, NewNodeFacts DEF Skips, Passes
<1>4. CASE Enters
  <2>1. Current' = Current
    BY <1>4 DEF Enters, Current
  <2>2. QED
    BY <1>4, <2>1, NewNodeFacts DEF Enters
<1>5. CASE LoopReturns \/ UndoReturns
  BY <1>5 DEF LoopReturns, UndoReturns
<1>6. CASE Succeeds
  BY <1>6 DEF Succeeds
<1>7. CASE Retries
  BY <1>7 DEF Retries, Current
<1>8. CASE Fails \/ Escalates
  BY <1>8 DEF Fails, Escalates
<1>9. ASSUME NEW n \in Node, Undoes(n) PROVE CallInv'
  BY <1>9 DEF Undoes
<1>10. QED
  BY <1>1, <1>2, <1>3, <1>4, <1>5, <1>6, <1>7, <1>8, <1>9 DEF Kind

LEMMA NextSuccessInv == ASSUME IInv, CallInv, SuccessInv, Kind PROVE SuccessInv'
<1>1. CASE Succeeds
  <2>1. /\ Current \in Node /\ Current \notin Completed(cp) /\ Current \notin Bodyless
        /\ Completed(cp') = Completed(cp) \cup {Current}
        /\ Log("node.succeeded", Current) /\ "node.succeeded" \in Action
    BY <1>1, CompletedAfter DEF Succeeds, CallInv, Action
  <2>2. Times("node.succeeded", Current) = 0
    BY <2>1, TimesType DEF SuccessInv, IInv
  <2>3. ASSUME NEW n \in Node
        PROVE  /\ Times("node.succeeded", n)' =
                    IF n = Current THEN 1 ELSE Times("node.succeeded", n)
               /\ Logged("node.succeeded", n)' <=> Logged("node.succeeded", n) \/ n = Current
    <3>1. Logged("node.succeeded", n)' <=> Logged("node.succeeded", n) \/ n = Current
      BY <2>1, AfterLog DEF IInv
    <3>2. Times("node.succeeded", n)' = IF n = Current THEN 1 ELSE Times("node.succeeded", n)
      BY <2>1, <2>2, LoggedRecords
    <3>3. QED
      BY <3>1, <3>2
  <2>4. ASSUME NEW n \in Node
        PROVE  /\ Times("node.succeeded", n)' <= 1
               /\ Logged("node.succeeded", n)' <=> n \in Completed(cp') \ Bodyless
    BY <2>1, <2>3 DEF SuccessInv
  <2>5. QED
    BY <2>4 DEF SuccessInv, Completed
<1>2. CASE ~Succeeds
  <2>1. SameRecords("node.succeeded")
    BY <1>2, RecordsKept
  <2>2. Completed(cp') \ Bodyless = Completed(cp) \ Bodyless
    BY <1>2, CompletedAfter DEF Passes
  <2>3. QED
    BY <2>1, <2>2 DEF SuccessInv, SameRecords
<1>3. QED
  BY <1>1, <1>2

LEMMA NextFailureInv == ASSUME IInv, CallInv, FailureInv, Kind PROVE FailureInv'
<1>1. CASE Escalates
  <2>1. /\ Current \in Node /\ Current \notin Completed(cp) /\ cp' = cp
        /\ Log("node.failed", Current) /\ "node.failed" \in Action
    BY <1>1, CurrentFacts DEF Escalates, Action
  <2>2. ~Ending /\ Ending'
    BY <1>1 DEF Escalates, Ending
  <2>3. \A n \in Node : Times("node.failed", n) = 0 /\ ~Logged("node.failed", n)
    BY <2>2, TimesType DEF FailureInv, IInv
  <2>4. ASSUME NEW n \in Node
        PROVE  /\ Times("node.failed", n)' <= 1
               /\ Logged("node.failed", n)' => n \notin Completed(cp')
    <3>1. Logged("node.failed", n)' <=> Logged("node.failed", n) \/ n = Current
      BY <2>1, AfterLog DEF IInv
    <3>2. Times("node.failed", n)' = IF n = Current THEN 1 ELSE 0
      BY <2>1, <2>3, LoggedRecords
    <3>3. QED
      BY <2>1, <2>3, <3>1, <3>2
  <2>5. QED
    BY <2>2, <2>4 DEF FailureInv, Completed
<1>2. CASE ~Escalates
  <2>1. SameRecords("node.failed")
    BY <1>2, RecordsKept
  <2>2. Ending => Ending' /\ cp' = cp
    <3>1. Ending => ~Starts /\ pc \in {"idle", "undo"}
      BY DEF Ending, Starts, Resumable
    <3>2. QED
      BY <1>2, <3>1 DEF Kind, Ending, Rests, Skips, Passes, Enters, AtNewNode, LoopReturns,
         Succeeds, Retries, Fails, Undoes, UndoReturns
  <2>3. QED
    BY <2>1, <2>2 DEF FailureInv, SameRecords
<1>3. QED
  BY <1>1, <1>2

LEMMA NextRetryInv == ASSUME IInv, CallInv, RetryInv, Kind PROVE RetryInv'
<1>0. \A n \in Node : Times("node.retry", n) \in Nat /\ MaxAttempts[n] \in Nat \ {0}
  BY TimesType, ConstantTypes DEF IInv
<1>1. CASE Retries
  <2>1. /\ Current \in Node /\ Log("node.retry", Current) /\ "node.retry" \in Action
        /\ pc = "running" /\ pc' = "running" /\ Current' = Current /\ cp' = cp
        /\ attempt < MaxAttempts[Current] /\ attempt' = attempt + 1
    BY <1>1, CurrentFacts DEF Retries, Current, Action
  <2>2. /\ Times("node.retry", Current)' = Times("node.retry", Current) + 1
        /\ \A m \in Node \ {Current} : Times("node.retry", m)' = Times("node.retry", m)
    BY <2>1, LoggedRecords
  <2>3. attempt \in 1..MaxAttempts[Current] /\ Times("node.retry", Current) = attempt - 1
    BY <2>1 DEF RetryInv, Started
  <2>4. QED
    BY <1>0, <2>1, <2>2, <2>3 DEF RetryInv, Started, Open
<1>2. ASSUME ~Retries, NEW n \in Node
      PROVE  /\ Times("node.retry", n)' < MaxAttempts[n]
             /\ Open' /\ n \notin Completed(cp)' /\ ~Started(n)' => Times("node.retry", n)' = 0
             /\ Started(n)' =>
                  attempt' \in 1..MaxAttempts[n] /\ Times("node.retry", n)' = attempt' - 1
  <2>0. /\ Times("node.retry", n)' = Times("node.retry", n)
        /\ Times("node.retry", n) < MaxAttempts[n]
        /\ Open /\ n \notin Completed(cp) /\ ~Started(n) => Times("node.retry", n) = 0
    BY <1>2, RecordsKept DEF SameRecords, RetryInv
  <2>1. CASE Rests
    BY <1>2, <2>0, <2>1 DEF Rests, RetryInv, Open, Resumable, Started, Current
  <2>2. CASE Starts \/ Skips \/ LoopReturns
    <3>1. Open /\ ~Started(n) /\ ~Started(n)' /\ cp' = cp
      BY <2>2 DEF Starts, Skips, LoopReturns, Open, Started, CallInv
    <3>2. QED
      BY <2>0, <3>1
  <2>3. CASE Passes
    <3>1. Open /\ ~Started(n) /\ ~Started(n)' /\ Completed(cp') = Completed(cp) \cup {Current}
      BY <2>3, NewNodeFacts, CompletedAfter DEF Passes, Open, Started
    <3>2. QED
      BY <2>0, <3>1
  <2>4. CASE Enters
    <3>1. /\ Open /\ ~Started(n) /\ cp' = cp /\ Current' = Current /\ attempt' = 1
          /\ Current \notin Completed(cp)
      BY <2>4, NewNodeFacts DEF Enters, Open, Started, Current
    <3>2. QED
      BY <1>0, <2>0, <3>1 DEF Started
  <2>5. CASE Succeeds
    <3>1. Open /\ (n # Current => ~Started(n)) /\ ~Started(n)'
          /\ Completed(cp') = Completed(cp) \cup {Current}
      BY <2>5, CompletedAfter DEF Succeeds, Open, Started
    <3>2. QED
      BY <2>0, <3>1
  <2>6. CASE Fails \/ Escalates \/ UndoReturns \/ \E m \in Node : Undoes(m)
    <3>1. ~Open' /\ ~Started(n)'
      BY <2>6 DEF Fails, Escalates, UndoReturns, Undoes, Open, Started, Resumable
    <3>2. QED
      BY <2>0, <3>1
  <2>7. QED
    BY <1>2, <2>1, <2>2, <2>3, <2>4, <2>5, <2>6 DEF Kind
<1>3. QED
  BY <1>1, <1>2 DEF RetryInv

LEMMA NextUndoInv ==
  ASSUME IInv, CallInv, FailureInv, UndoInv, Kind
  PROVE  UndoInv'
<1>1. ASSUME NEW n \in Node, Undoes(n) PROVE UndoInv'
  <2>1. /\ pc = "undo" /\ pc' = "undo" /\ cp' = cp /\ run' = run
        /\ n \in toUndo /\ toUndo' = toUndo \ {n} /\ toUndo \subseteq Node
        /\ \A m \in toUndo : Index(m) <= Index(n)
    BY <1>1 DEF Undoes, IsLast, IInv, TypeOK
  <2>2. \A m \in toUndo' : Index(m) < Index(n)
    <3>1. ASSUME NEW m \in toUndo' PROVE Index(m) < Index(n)
      <4>1. m \in Node /\ m # n /\ Index(m) <= Index(n)
        BY <2>1, <3>1
      <4>2. Index(m) # Index(n) /\ Index(m) \in Nat /\ Index(n) \in Nat
        BY <4>1, NodeHasIndex
      <4>3. QED
        BY <4>1, <4>2
    <3>2. QED
      BY <3>1
  <2>3. /\ Undone \cup Kept \cup toUndo = Completed(cp) \cap Compensable
        /\ \A p \in Undone, m \in toUndo : Index(m) < Index(p)
        /\ compensated # <<>> <=> Undone # {}
    BY <2>1 DEF UndoInv
  <2>4. \/ /\ Undone' = Undone \cup {n} /\ Kept' = Kept
           /\ compensated' = Append(compensated, n)
        \/ Undone' = Undone /\ Kept' = Kept \cup {n} /\ compensated' = compensated
    <3>1. CASE Log("node.compensated", n) /\ compensated' = Append(compensated, n)
      <4>1. "node.compensated" \in Action /\ "compensation.failed" \in Tracked \ {"node.compensated"}
        BY DEF Action, Tracked
      <4>2. Of("node.compensated")' = Of("node.compensated") \cup {n}
            /\ SameRecords("compensation.failed")
        BY <3>1, <4>1, LoggedRecords
      <4>3. QED
        BY <3>1, <4>2 DEF SameRecords, Undone, Kept
    <3>2. CASE Log("compensation.failed", n) /\ UNCHANGED compensated
      <4>1. "compensation.failed" \in Action /\ "node.compensated" \in Tracked \ {"compensation.failed"}
        BY DEF Action, Tracked
      <4>2. Of("compensation.failed")' = Of("compensation.failed") \cup {n}
            /\ SameRecords("node.compensated")
        BY <3>2, <4>1, LoggedRecords
      <4>3. QED
        BY <3>2, <4>2 DEF SameRecords, Undone, Kept
    <3>3. QED
      BY <1>1, <3>1, <3>2 DEF Undoes
  <2>5. Undone' \cup Kept' \cup toUndo' = Completed(cp) \cap Compensable
    BY <2>1, <2>3, <2>4
  <2>6. \A p \in Undone', m \in toUndo' : Index(m) < Index(p)
    BY <2>1, <2>2, <2>3, <2>4
  <2>7. compensated' # <<>> <=> Undone' # {}
    <3>1. compensated \in Seq(Node)
      BY DEF IInv, TypeOK
    <3>2. Append(compensated, n) # <<>>
      BY <3>1
    <3>3. QED
      BY <2>3, <2>4, <3>2
  <2>8. run.status \notin Terminal /\ "COMPENSATED" \in Terminal
    BY <2>1 DEF CallInv, Terminal
  <2>9. QED
    BY <2>1, <2>5, <2>6, <2>7, <2>8 DEF UndoInv, Ending
<1>2. CASE ~\E n \in Node : Undoes(n)
  <2>1. Undone' = Undone /\ Kept' = Kept
    BY <1>2, RecordsKept DEF SameRecords, Undone, Kept
  <2>2. CASE Rests
    <3>1. Of("node.failed")' = Of("node.failed")
      BY <2>2, RecordsKept DEF SameRecords, Escalates, Rests
    <3>2. QED
      BY <2>1, <2>2, <3>1 DEF Rests, UndoInv, Ending
  <2>3. CASE UndoReturns
    <3>1. /\ pc = "undo" /\ toUndo = {} /\ pc' = "idle" /\ cp' = cp
          /\ run'.status = IF compensated # <<>> THEN "COMPENSATED" ELSE "FAILED"
      BY <2>3 DEF UndoReturns
    <3>2. /\ Undone \cup Kept = Completed(cp) \cap Compensable
          /\ compensated # <<>> <=> Undone # {}
      BY <3>1 DEF UndoInv
    <3>3. QED
      BY <2>1, <3>1, <3>2 DEF UndoInv, Ending
  <2>4. CASE ~Rests /\ ~UndoReturns
    <3>1. ~Ending
      BY <1>2, <2>4 DEF Ending, Kind, Starts, Resumable, Skips, Passes, Enters, AtNewNode,
         LoopReturns, Succeeds, Retries, Fails, Escalates
    <3>2. Undone = {} /\ Kept = {} /\ Of("node.failed") = {}
      BY <3>1 DEF UndoInv, FailureInv, Of
    <3>3. CASE Escalates
      <4>1. /\ pc' = "undo" /\ toUndo' = Completed(cp) \cap Compensable /\ cp' = cp
            /\ compensated' = <<>> /\ run' = run /\ pc = "failing"
        BY <3>3 DEF Escalates, CallInv
      <4>2. run.status # "COMPENSATED"
        BY <4>1 DEF CallInv, Terminal
      <4>3. QED
        BY <2>1, <3>2, <4>1, <4>2 DEF UndoInv
    <3>4. CASE ~Escalates
      <4>1. Of("node.failed")' = {}
        BY <3>2, <3>4, RecordsKept DEF SameRecords
      <4>2. pc' # "undo" /\ run'.status # "COMPENSATED"
        BY <1>2, <2>4, <3>4 DEF Kind, CallInv, Terminal, Resumable, Starts, Skips, Passes,
           Enters, AtNewNode, LoopReturns, Succeeds, Retries, Fails
      <4>3. QED
        BY <2>1, <3>2, <4>1, <4>2 DEF UndoInv
    <3>5. QED
      BY <3>3, <3>4
  <2>5. QED
    BY <2>2, <2>3, <2>4
<1>3. QED
  BY <1>1, <1>2

LEMMA NextResultInv == ASSUME IInv, ResultInv, Kind PROVE ResultInv'
<1>1. CASE LoopReturns
  <2>1. run'.checkpoint = cp
    BY <1>1 DEF LoopReturns
  <2>2. QED
    BY <1>1, <2>1 DEF LoopReturns, ResultInv, Completed, Needed
<1>2. CASE UndoReturns
  BY <1>2 DEF UndoReturns, ResultInv
<1>3. CASE ~LoopReturns /\ ~UndoReturns
  <2>1. run' = run
    BY <1>3 DEF Kind, Rests, Starts, Skips, Passes, Enters, Succeeds, Retries, Fails,
       Escalates, Undoes
  <2>2. QED
    BY <2>1 DEF ResultInv, Completed, Needed
<1>4. QED
  BY <1>1, <1>2, <1>3

(* A record of a success or of an undo that is put at the end of the log   *)
(* keeps the order if it is in order with every record before it.          *)
InOrder(r, q) ==
  /\ r.action = "node.succeeded" /\ q.action = "node.succeeded" =>
       Index(r.node) < Index(q.node)
  /\ r.action = "node.compensated" /\ q.action = "node.compensated" =>
       Index(q.node) < Index(r.node)
  /\ ~(r.action = "node.compensated" /\ q.action = "node.succeeded")

LEMMA WalkAfterLog ==
  ASSUME IInv, WalkInv, NEW a \in Action, NEW n \in Node, Log(a, n),
         \A i \in DOMAIN audit : InOrder(audit[i], Rec(a, n))
  PROVE  WalkInv'
<1>1. /\ Len(audit) \in Nat /\ DOMAIN audit = 1..Len(audit)
      /\ DOMAIN audit' = 1..(Len(audit) + 1)
      /\ audit'[Len(audit) + 1] = Rec(a, n)
      /\ \A i \in 1..Len(audit) : audit'[i] = audit[i]
  BY AfterLog DEF IInv
<1>2. \A i, j \in DOMAIN audit : i < j => InOrder(audit[i], audit[j])
  BY DEF WalkInv, InOrder
<1>3. ASSUME NEW i \in DOMAIN audit', NEW j \in DOMAIN audit', i < j
      PROVE  InOrder(audit'[i], audit'[j])
  <2>1. i \in DOMAIN audit /\ audit'[i] = audit[i]
    BY <1>1, <1>3
  <2>2. CASE j \in DOMAIN audit
    BY <1>1, <1>2, <1>3, <2>1, <2>2
  <2>3. CASE j = Len(audit) + 1
    BY <1>1, <2>1, <2>3
  <2>4. QED
    BY <1>1, <2>2, <2>3
<1>4. QED
  BY <1>3 DEF WalkInv, InOrder

LEMMA RecordTypes ==
  ASSUME IInv
  PROVE  /\ Len(audit) \in Nat /\ DOMAIN audit = 1..Len(audit)
         /\ \A i \in DOMAIN audit : audit[i] \in AuditRecord
<1>1. audit \in Seq(AuditRecord)
  BY DEF IInv, TypeOK, AuditRecord
<1>2. QED
  BY <1>1

LEMMA NextWalkInv ==
  ASSUME IInv, CallInv, SuccessInv, UndoInv, WalkInv, Kind
  PROVE  WalkInv'
<1>0. \A i \in DOMAIN audit : /\ audit[i] = Rec(audit[i].action, audit[i].node)
                              /\ audit[i].node \in Node
                              /\ Logged(audit[i].action, audit[i].node)
  <2>1. \A i \in DOMAIN audit : audit[i] \in AuditRecord
    BY RecordTypes
  <2>2. QED
    BY <2>1 DEF AuditRecord, Rec, Logged
<1>1. CASE Succeeds
  <2>1. /\ pc = "running" /\ Log("node.succeeded", Current) /\ "node.succeeded" \in Action
        /\ Current = Order[pos] /\ Current \in Node /\ Current \notin Completed(cp)
        /\ pos \in 1..Len(Order)
    BY <1>1, CurrentFacts DEF Succeeds, Action
  <2>2. ASSUME NEW i \in DOMAIN audit PROVE InOrder(audit[i], Rec("node.succeeded", Current))
    <3>1. audit[i].action # "node.compensated"
      <4>1. Undone = {}
        BY <2>1 DEF UndoInv, Ending
      <4>2. QED
        BY <1>0, <2>2, <4>1 DEF Undone, Of
    <3>2. ASSUME audit[i].action = "node.succeeded" PROVE Index(audit[i].node) < Index(Current)
      <4>1. audit[i].node \in Completed(cp) /\ audit[i].node \in Node
        BY <1>0, <2>2, <3>2 DEF SuccessInv
      <4>2. PICK k \in 1..Len(Order) : Order[k] = audit[i].node /\ k = Index(audit[i].node)
        BY <4>1, NodeHasIndex
      <4>3. cp[Order[k]] # "absent" /\ cp[Order[pos]] = "absent"
        BY <2>1, <4>1, <4>2 DEF Completed
      <4>4. ~(pos < k) /\ pos # k
        BY <2>1, <4>2, <4>3 DEF IInv, PrefixClosed
      <4>5. Index(Current) = pos
        BY <2>1, IndexFacts
      <4>6. QED
        BY <2>1, <4>2, <4>4, <4>5, ConstantTypes
    <3>3. QED
      BY <3>1, <3>2 DEF InOrder, Rec
  <2>3. QED
    BY <2>1, <2>2, WalkAfterLog
<1>2. ASSUME NEW n \in Node, Undoes(n) PROVE WalkInv'
  <2>1. pc = "undo" /\ n \in toUndo
    BY <1>2 DEF Undoes, IsLast
  <2>2. \A p \in Undone : Index(n) < Index(p)
    BY <2>1 DEF UndoInv
  <2>3. ASSUME NEW i \in DOMAIN audit, NEW a \in {"node.compensated", "compensation.failed"}
        PROVE  InOrder(audit[i], Rec(a, n))
    <3>1. audit[i].action = "node.compensated" => Index(n) < Index(audit[i].node)
      BY <1>0, <2>2, <2>3 DEF Undone, Of
    <3>2. QED
      BY <2>3, <3>1 DEF InOrder, Rec
  <2>4. {"node.compensated", "compensation.failed"} \subseteq Action
    BY DEF Action
  <2>5. QED
    BY <1>2, <2>3, <2>4, WalkAfterLog DEF Undoes
<1>3. ASSUME NEW a \in {"node.retry", "node.failed"}, NEW n \in Node, Log(a, n) PROVE WalkInv'
  <2>1. \A i \in DOMAIN audit : InOrder(audit[i], Rec(a, n))
    BY <1>3 DEF InOrder, Rec
  <2>2. a \in Action
    BY <1>3 DEF Action
  <2>3. QED
    BY <1>3, <2>1, <2>2, WalkAfterLog
<1>4. CASE Retries \/ Escalates
  BY <1>3, <1>4, CurrentFacts DEF Retries, Escalates
<1>5. CASE \/ Rests \/ Starts \/ Skips \/ Passes \/ Enters \/ LoopReturns \/ Fails
           \/ UndoReturns
  <2>1. Silent
    BY <1>5 DEF Rests, Starts, Skips, Passes, Enters, LoopReturns, Fails, UndoReturns, Silent
  <2>2. \A i \in DOMAIN audit' : audit'[i].action \in Tracked =>
          i \in DOMAIN audit /\ audit'[i] = audit[i]
    BY <2>1, AfterSilence DEF IInv
  <2>3. QED
    BY <2>2 DEF WalkInv, Tracked
<1>6. QED
  BY <1>1, <1>2, <1>4, <1>5 DEF Kind

LEMMA NextHistoryInv ==
  ASSUME ~auditMayFail, IInv, HistoryInv, [Next]_vars
  PROVE  HistoryInv'
<1>1. Kind
  BY HistoryKinds DEF Kind
<1>2. QED
  BY <1>1, NextCallInv, NextSuccessInv, NextFailureInv, NextRetryInv, NextUndoInv,
     NextResultInv, NextWalkInv DEF HistoryInv

LEMMA InitHistoryInv == Init => HistoryInv
<1>1. SUFFICES ASSUME Init PROVE HistoryInv
  OBVIOUS
<1>2. IInv /\ audit = <<>> /\ pc = "idle" /\ run.status = "NONE" /\ run.checkpoint = cp
      /\ cp = [n \in Node |-> "absent"]
  BY <1>1, InitIInv DEF Init, EmptyCp
<1>3. \A a, n : ~Logged(a, n) /\ Times(a, n) = 0
  <2>1. \A a, n : ~Logged(a, n)
    BY <1>2 DEF Logged
  <2>2. QED
    BY <1>2, <2>1, TimesType DEF IInv
<1>4. Completed(cp) = {}
  BY <1>2 DEF Completed
<1>5. CallInv /\ ResultInv /\ WalkInv
  BY <1>2 DEF CallInv, ResultInv, WalkInv, Terminal
<1>6. SuccessInv /\ FailureInv
  BY <1>3, <1>4 DEF SuccessInv, FailureInv
<1>7. RetryInv
  BY <1>2, <1>3, ConstantTypes DEF RetryInv, Started
<1>8. UndoInv
  BY <1>2, <1>3, <1>4 DEF UndoInv, Undone, Kept, Of
<1>9. QED
  BY <1>5, <1>6, <1>7, <1>8 DEF HistoryInv

(* If the audit log never raises, log and checkpoint agree throughout.     *)
THEOREM HistoryAgrees == Spec => []AuditReliable
<1>1. Init => AuditReliable
  BY InitHistoryInv DEF AuditReliable
<1>2. IInv /\ AuditReliable /\ [Next]_vars => AuditReliable'
  BY NextHistoryInv, SameAuditLog DEF AuditReliable
<1>3. QED
  BY <1>1, <1>2, Invariance, PTL DEF Spec

(* However often a run is paused and resumed, a body succeeds at most once,*)
(* fails the run at most once and is attempted at most max_attempts times. *)
THEOREM NothingIsReplayed == Spec => []NoReplay
<1>1. IInv /\ AuditReliable => NoReplay
  <2>1. SUFFICES ASSUME IInv, HistoryInv, NEW n \in Node
                 PROVE  /\ Times("node.succeeded", n) <= 1
                        /\ Times("node.succeeded", n) + Times("node.failed", n) <= 1
                        /\ Times("node.retry", n) < MaxAttempts[n]
    BY DEF AuditReliable, NoReplay
  <2>2. \A a : Times(a, n) \in Nat /\ (Times(a, n) = 0 <=> ~Logged(a, n))
    BY <2>1, TimesType DEF IInv
  <2>3. ~(Logged("node.succeeded", n) /\ Logged("node.failed", n))
    BY <2>1 DEF HistoryInv, SuccessInv, FailureInv
  <2>4. /\ Times("node.succeeded", n) <= 1 /\ Times("node.failed", n) <= 1
        /\ Times("node.retry", n) < MaxAttempts[n]
    BY <2>1 DEF HistoryInv, SuccessInv, FailureInv, RetryInv
  <2>5. QED
    BY <2>2, <2>3, <2>4
<1>2. QED
  BY <1>1, HistoryAgrees, Invariance, PTL

(* The returned status says what happened: which nodes succeeded, failed,  *)
(* were undone or could not be, and which gate still waits.                *)
THEOREM OutcomeTellsHistory == Spec => []OutcomeMatchesHistory
<1>1. IInv /\ AuditReliable => OutcomeMatchesHistory
  <2>1. SUFFICES ASSUME IInv, HistoryInv, ~auditMayFail PROVE OutcomeMatchesHistory
    BY DEF AuditReliable, OutcomeMatchesHistory
  <2>2. /\ {n \in Node : Logged("node.failed", n)} = Of("node.failed")
        /\ {n \in Node : Logged("node.compensated", n)} = Undone
        /\ {n \in Node : Logged("compensation.failed", n)} = Kept
    BY DEF Of, Undone, Kept
  <2>3. run.status \in Terminal => pc = "idle" /\ run.checkpoint = cp
    BY <2>1 DEF HistoryInv, CallInv
  <2>4. ASSUME run.status = "SUCCEEDED"
        PROVE  Completed(run.checkpoint) = Node
               /\ Of("node.failed") \cup Undone \cup Kept = {}
    <3>1. Completed(run.checkpoint) = Node /\ ~Ending
      BY <2>1, <2>3, <2>4 DEF HistoryInv, ResultInv, Ending, Terminal
    <3>2. QED
      BY <2>1, <3>1 DEF HistoryInv, UndoInv, FailureInv, Of
  <2>5. run.status \in {"FAILED", "COMPENSATED"} /\ Of("node.failed") # {} =>
          Undone \cup Kept = Completed(run.checkpoint) \cap Compensable
    BY <2>1, <2>3 DEF HistoryInv, UndoInv, Terminal
  <2>6. run.status = "COMPENSATED" <=> pc = "idle" /\ Undone # {}
    BY <2>1, <2>3 DEF HistoryInv, UndoInv, Terminal
  <2>7. run.status = "PAUSED" =>
          /\ run.pendingGate \in GateNode \ Completed(run.checkpoint)
          /\ Needed(run.pendingGate, run.checkpoint)
          /\ Deps[run.pendingGate] \subseteq Completed(run.checkpoint)
    BY <2>1 DEF HistoryInv, ResultInv
  <2>8. QED
    BY <2>2, <2>4, <2>5, <2>6, <2>7 DEF OutcomeMatchesHistory
<1>2. QED
  BY <1>1, HistoryAgrees, Invariance, PTL

(* Undo handlers run in reverse completion order, each at most once and for*)
(* a body that succeeded, in every workflow whose handlers are registered  *)
(* on nodes with a body.                                                   *)
THEOREM UndoGoesBackwards ==
  ASSUME Compensable \cap Bodyless = {}
  PROVE  Spec => []UndoReversesCompletion
<1>1. IInv /\ AuditReliable => UndoReversesCompletion
  <2>1. SUFFICES ASSUME IInv, HistoryInv, NEW i \in DOMAIN audit, NEW j \in DOMAIN audit, i < j,
                        audit[i].action = "node.compensated",
                        audit[j].action = "node.compensated"
                 PROVE  \E k, l \in 1..(i - 1) :
                          /\ k < l
                          /\ audit[k] = Rec("node.succeeded", audit[j].node)
                          /\ audit[l] = Rec("node.succeeded", audit[i].node)
    BY DEF AuditReliable, UndoReversesCompletion
  <2>2. DOMAIN audit = 1..Len(audit) /\ Len(audit) \in Nat
        /\ \A k \in DOMAIN audit : audit[k] \in AuditRecord
    BY <2>1, RecordTypes
  <2>3. ASSUME NEW m \in {i, j}
        PROVE  \E k \in 1..(i - 1) : audit[k] = Rec("node.succeeded", audit[m].node)
    <3>1. m \in DOMAIN audit /\ audit[m].action = "node.compensated" /\ audit[m].node \in Node
      BY <2>1, <2>2, <2>3 DEF AuditRecord
    <3>2. audit[m].node \in Undone
      BY <2>2, <3>1 DEF Undone, Of, Logged, AuditRecord, Rec
    <3>3. audit[m].node \in Completed(cp) \ Bodyless
      BY <2>1, <3>2 DEF HistoryInv, UndoInv
    <3>4. PICK k \in DOMAIN audit : audit[k] = Rec("node.succeeded", audit[m].node)
      BY <2>1, <3>1, <3>3 DEF HistoryInv, SuccessInv, Logged
    <3>5. ~(i < k) /\ i # k
      BY <2>1, <3>4 DEF HistoryInv, WalkInv, Rec
    <3>6. QED
      BY <2>1, <2>2, <3>4, <3>5
  <2>4. PICK k \in 1..(i - 1) : audit[k] = Rec("node.succeeded", audit[j].node)
    BY <2>3
  <2>5. PICK l \in 1..(i - 1) : audit[l] = Rec("node.succeeded", audit[i].node)
    BY <2>3
  <2>6. /\ k \in DOMAIN audit /\ l \in DOMAIN audit
        /\ audit[k].action = "node.succeeded" /\ audit[l].action = "node.succeeded"
        /\ audit[k].node = audit[j].node /\ audit[l].node = audit[i].node
    BY <2>1, <2>2, <2>4, <2>5 DEF Rec
  <2>7. /\ Index(audit[j].node) < Index(audit[i].node)
        /\ Index(audit[j].node) \in Nat /\ Index(audit[i].node) \in Nat
    <3>1. audit[i].node \in Node /\ audit[j].node \in Node
      BY <2>1, <2>2 DEF AuditRecord
    <3>2. QED
      BY <2>1, <3>1, NodeHasIndex DEF HistoryInv, WalkInv
  <2>8. ~(l < k) /\ l # k
    BY <2>1, <2>6, <2>7 DEF HistoryInv, WalkInv
  <2>9. QED
    BY <2>1, <2>2, <2>4, <2>5, <2>8
<1>2. QED
  BY <1>1, HistoryAgrees, Invariance, PTL

-----------------------------------------------------------------------------
(* What is left of a call.                                                 *)

(* The phases of a call, the nodes the walk (or the undo) has not visited, *)
(* and the attempts the current node has left.                             *)
Phase == IF pc = "idle" THEN 0
         ELSE IF pc = "undo" THEN 1
         ELSE IF pc = "failing" THEN 2 ELSE 3
Ahead == IF pc = "undo" THEN Cardinality(toUndo) ELSE Len(Order) + 1 - pos
Tries == IF pc = "running" THEN MaxAttempts[Current] - attempt
         ELSE IF pc = "loop" /\ pos <= Len(Order) THEN MaxAttempts[Current] ELSE 0

LeftOfCall == <<Phase, Ahead, Tries>>
Lower      == LexProductOrdering(OpToRel(<, Nat), Nat, 3)

(* The attempts of the node that runs are within its retry policy.         *)
AttemptInv == pc = "running" => attempt \in 1..MaxAttempts[Current]

(* Every step taken while a call is active lowers what is left of it, but  *)
(* for the end of an abandoned worker, which leaves the call alone.        *)
CallProgresses ==
  [][pc # "idle" =>
       \/ <<LeftOfCall', LeftOfCall>> \in Lower
       \/ \E n \in Node : AbandonedWorkerEnds(n) /\ UNCHANGED LeftOfCall]_vars

LEMMA LowerAt ==
  ASSUME NEW a1 \in Nat, NEW a2 \in Nat, NEW a3 \in Nat,
         NEW b1 \in Nat, NEW b2 \in Nat, NEW b3 \in Nat,
         \/ a1 < b1
         \/ a1 = b1 /\ a2 < b2
         \/ a1 = b1 /\ a2 = b2 /\ a3 < b3
  PROVE  <<<<a1, a2, a3>>, <<b1, b2, b3>>>> \in Lower
<1> DEFINE a == <<a1, a2, a3>>
           b == <<b1, b2, b3>>
<1>1. a \in [1..3 -> Nat] /\ b \in [1..3 -> Nat]
  OBVIOUS
<1>2. \E j \in 1..3 : (\A i \in 1..(j - 1) : a[i] = b[i]) /\ a[j] < b[j]
  <2>1. CASE a1 < b1
    <3>1. (\A i \in 1..(1 - 1) : a[i] = b[i]) /\ a[1] < b[1]
      BY <2>1
    <3>2. QED
      BY <3>1
  <2>2. CASE a1 = b1 /\ a2 < b2
    <3>1. (\A i \in 1..(2 - 1) : a[i] = b[i]) /\ a[2] < b[2]
      BY <2>2
    <3>2. QED
      BY <3>1
  <2>3. CASE a1 = b1 /\ a2 = b2 /\ a3 < b3
    <3>1. (\A i \in 1..(3 - 1) : a[i] = b[i]) /\ a[3] < b[3]
      BY <2>3
    <3>2. QED
      BY <3>1
  <2>4. QED
    BY <2>1, <2>2, <2>3
<1>3. \A j \in 1..3 : <<a[j], b[j]>> \in OpToRel(<, Nat) <=> a[j] < b[j]
  BY <1>1 DEF OpToRel
<1>4. QED
  BY <1>1, <1>2, <1>3 DEF Lower, LexProductOrdering

LEMMA LowerIsWellFounded == IsWellFoundedOn(Lower, [1..3 -> Nat])
BY NatLessThanWellFounded, WFLexProductOrdering DEF Lower

LEMMA NodeIsFinite == IsFiniteSet(Node)
<1>1. Order \in Surjection(1..Len(Order), Node)
  <2>1. Order \in [1..Len(Order) -> Node]
    BY ConstantTypes
  <2>2. \A n \in Node : \E i \in 1..Len(Order) : Order[i] = n
    BY DagAssumption DEF DagAssumption
  <2>3. QED
    BY <2>1, <2>2 DEF Surjection
<1>2. QED
  BY <1>1, FS_NatSurjection, ConstantTypes DEF ExistsSurjection


(* What a step of a call does to its walk: it ends it, turns it into a     *)
(* failure or an undo, moves it past a node, starts or restarts the body   *)
(* of the node it is at, or tries an undo handler.                         *)
Moves ==
  \/ pc' = "idle"
  \/ pc \in {"loop", "running"} /\ pc' = "failing"
  \/ pc = "failing" /\ pc' = "undo"
  \/ /\ pc \in {"loop", "running"} /\ pc' = "loop"
     /\ pos <= Len(Order) /\ pos' = pos + 1
  \/ /\ pc = "loop" /\ pc' = "running" /\ UNCHANGED pos
     /\ pos <= Len(Order) /\ attempt' = 1
  \/ /\ pc = "running" /\ pc' = "running" /\ UNCHANGED pos
     /\ attempt < MaxAttempts[Current] /\ attempt' = attempt + 1
  \/ /\ pc = "undo" /\ pc' = "undo"
     /\ \E n \in toUndo : toUndo' = toUndo \ {n}

LEMMA CallMoves ==
  ASSUME IInv, Next, pc # "idle"
  PROVE  \/ Moves
         \/ \E n \in Node : AbandonedWorkerEnds(n)
<1>1. pc = "running" => pos <= Len(Order)
  BY DEF IInv, AtNode
<1>2. CASE Loop
  <2>1. CASE SkipCompleted
    BY <2>1 DEF SkipCompleted, Moves
  <2>2. CASE ExceedDeadline \/ PauseAtGate \/ DenyAtGate \/ FinishRun
    BY <2>2 DEF ExceedDeadline, PauseAtGate, DenyAtGate, FinishRun, ReturnUnless, Return,
       Escape, Moves
  <2>3. CASE PassApprovedGate \/ EnterUngated
    <3>1. AtNewNode /\ (Enter(Current) \/ Escape)
      BY <2>3 DEF PassApprovedGate, EnterUngated, MustAsk
    <3>2. QED
      BY <3>1 DEF AtNewNode, Enter, Record, Escape, Moves
  <2>4. QED
    BY <1>2, <2>1, <2>2, <2>3 DEF Loop
<1>3. CASE Attempt
  <2>1. ASSUME NEW output \in Output, Succeed(output) PROVE Moves
    BY <1>1, <2>1 DEF Succeed, Record, Moves
  <2>2. CASE RetryTransient
    BY <2>2 DEF RetryTransient, Moves
  <2>3. CASE ExhaustRetries \/ FailPermanently \/ TimeOut
    BY <2>3 DEF ExhaustRetries, FailPermanently, TimeOut, Moves
  <2>4. QED
    BY <1>3, <2>1, <2>2, <2>3 DEF Attempt
<1>4. CASE Compensate
  <2>1. CASE Escalate \/ FinishUndo
    BY <2>1 DEF Escalate, FinishUndo, Return, Escape, Moves
  <2>2. ASSUME NEW n \in Node, UndoSucceeds(n) \/ UndoFails(n) \/ UndoRecordFails(n)
        PROVE  Moves
    BY <2>2 DEF UndoSucceeds, UndoFails, UndoRecordFails, IsLast, Escape, Moves
  <2>3. QED
    BY <1>4, <2>1, <2>2 DEF Compensate
<1>5. QED
  BY <1>2, <1>3, <1>4 DEF Next, Invoke

LEMMA NextAttemptInv == IInv /\ AttemptInv /\ [Next]_vars => AttemptInv'
<1>1. SUFFICES ASSUME IInv, AttemptInv, [Next]_vars, pc' = "running"
               PROVE  attempt' \in 1..MaxAttempts[Order[pos']]
  BY DEF AttemptInv, Current
<1>2. CASE UNCHANGED <<pc, pos, attempt>>
  BY <1>1, <1>2 DEF AttemptInv, Current
<1>3. CASE Next /\ pc # "idle" /\ ~\E n \in Node : AbandonedWorkerEnds(n)
  <2>1. /\ pos \in 1..Len(Order) /\ pos' = pos
        /\ MaxAttempts[Order[pos]] \in Nat \ {0}
        /\ \/ attempt' = 1
           \/ /\ attempt \in 1..MaxAttempts[Order[pos]]
              /\ attempt < MaxAttempts[Order[pos]] /\ attempt' = attempt + 1
    BY <1>1, <1>3, CallMoves, ConstantTypes
       DEF Moves, AttemptInv, Current, IInv, TypeOK, AtNode
  <2>2. QED
    BY <2>1
<1>4. CASE Next /\ pc = "idle"
  <2>1. ~Loop /\ ~Attempt /\ ~Compensate
    BY <1>4 DEF Loop, SkipCompleted, ExceedDeadline, PauseAtGate, DenyAtGate, MustAsk,
       PassApprovedGate, EnterUngated, AtNewNode, FinishRun, Attempt, Succeed, RetryTransient,
       ExhaustRetries, FailPermanently, TimeOut, Compensate, Escalate, UndoSucceeds, UndoFails,
       UndoRecordFails, FinishUndo
  <2>2. QED
    BY <1>1, <1>4, <2>1 DEF Next, Invoke, AbandonedWorkerEnds
<1>5. QED
  BY <1>1, <1>2, <1>3, <1>4 DEF vars, AbandonedWorkerEnds

LEMMA LeftIsNat ==
  IInv /\ AttemptInv => Phase \in Nat /\ Ahead \in Nat /\ Tries \in Nat
<1> SUFFICES ASSUME IInv, AttemptInv
             PROVE  Phase \in Nat /\ Ahead \in Nat /\ Tries \in Nat
  OBVIOUS
<1>1. Cardinality(toUndo) \in Nat
  BY NodeIsFinite, FS_Subset, FS_CardinalityType DEF IInv, TypeOK
<1>2. pos \in 1..(Len(Order) + 1) /\ Len(Order) \in Nat
  BY ConstantTypes DEF IInv, TypeOK
<1>3. pos <= Len(Order) => MaxAttempts[Current] \in Nat
  BY <1>2, ConstantTypes DEF Current
<1>4. pc = "running" => attempt \in 1..MaxAttempts[Current] /\ MaxAttempts[Current] \in Nat
  BY <1>3 DEF IInv, AtNode, AttemptInv
<1>5. QED
  BY <1>1, <1>2, <1>3, <1>4 DEF Phase, Ahead, Tries

LEMMA LeftIsNatNext ==
  (IInv /\ AttemptInv => Phase \in Nat /\ Ahead \in Nat /\ Tries \in Nat)'
BY LeftIsNat, PTL

LEMMA MovesLower ==
  ASSUME IInv, AttemptInv, IInv', AttemptInv', pc # "idle", Moves
  PROVE  <<LeftOfCall', LeftOfCall>> \in Lower
<1>1. /\ Phase \in Nat /\ Ahead \in Nat /\ Tries \in Nat
      /\ Phase' \in Nat /\ Ahead' \in Nat /\ Tries' \in Nat
  BY LeftIsNat, LeftIsNatNext
<1>2. SUFFICES \/ Phase' < Phase
               \/ Phase' = Phase /\ Ahead' < Ahead
               \/ Phase' = Phase /\ Ahead' = Ahead /\ Tries' < Tries
  BY <1>1, LowerAt DEF LeftOfCall
<1>3. pos \in 1..(Len(Order) + 1) /\ Len(Order) \in Nat
  BY ConstantTypes DEF IInv, TypeOK
<1>4. CASE \/ pc' = "idle"
           \/ pc \in {"loop", "running"} /\ pc' = "failing"
           \/ pc = "failing" /\ pc' = "undo"
  BY <1>4 DEF Phase
<1>5. CASE /\ pc \in {"loop", "running"} /\ pc' = "loop"
           /\ pos <= Len(Order) /\ pos' = pos + 1
  BY <1>3, <1>5 DEF Phase, Ahead
<1>6. CASE /\ pc = "loop" /\ pc' = "running" /\ UNCHANGED pos
           /\ pos <= Len(Order) /\ attempt' = 1
  <2>1. MaxAttempts[Current] \in Nat \ {0} /\ Current' = Current
    BY <1>3, <1>6, ConstantTypes DEF Current
  <2>2. QED
    BY <1>3, <1>6, <2>1 DEF Phase, Ahead, Tries
<1>7. CASE /\ pc = "running" /\ pc' = "running" /\ UNCHANGED pos
           /\ attempt < MaxAttempts[Current] /\ attempt' = attempt + 1
  <2>1. MaxAttempts[Current] \in Nat /\ Current' = Current /\ attempt \in Nat
    <3>1. pos <= Len(Order) /\ attempt \in Nat
      BY <1>7 DEF IInv, AtNode, TypeOK
    <3>2. QED
      BY <1>3, <1>7, <3>1, ConstantTypes DEF Current
  <2>2. QED
    BY <1>3, <1>7, <2>1 DEF Phase, Ahead, Tries
<1>8. CASE /\ pc = "undo" /\ pc' = "undo"
           /\ \E n \in toUndo : toUndo' = toUndo \ {n}
  <2>1. PICK n \in toUndo : toUndo' = toUndo \ {n}
    BY <1>8
  <2>2. IsFiniteSet(toUndo)
    BY NodeIsFinite, FS_Subset DEF IInv, TypeOK
  <2>3. Cardinality(toUndo') = Cardinality(toUndo) - 1 /\ Cardinality(toUndo) \in Nat
    BY <2>1, <2>2, FS_RemoveElement, FS_CardinalityType
  <2>4. QED
    BY <1>8, <2>3 DEF Phase, Ahead
<1>9. QED
  BY <1>4, <1>5, <1>6, <1>7, <1>8 DEF Moves

(* No call of execute() goes on for ever: what is left of it is a triple of*)
(* naturals that each of its steps lowers in a well-founded order, by      *)
(* ending a phase, by leaving a node or an undo handler behind, or by using*)
(* up an attempt of the retry policy.                                      *)
THEOREM CallsRunOut ==
  /\ IsWellFoundedOn(Lower, [1..3 -> Nat])
  /\ Spec => [](LeftOfCall \in [1..3 -> Nat]) /\ CallProgresses
<1>1. Init => AttemptInv
  BY DEF Init, AttemptInv
<1>2. IInv /\ AttemptInv => LeftOfCall \in [1..3 -> Nat]
  BY LeftIsNat DEF LeftOfCall
<1>3. ASSUME IInv, AttemptInv, IInv', AttemptInv', Next, pc # "idle"
      PROVE  \/ <<LeftOfCall', LeftOfCall>> \in Lower
             \/ \E n \in Node : AbandonedWorkerEnds(n) /\ UNCHANGED LeftOfCall
  <2>1. CASE Moves
    BY <1>3, <2>1, MovesLower
  <2>2. ASSUME NEW n \in Node, AbandonedWorkerEnds(n) PROVE UNCHANGED LeftOfCall
    BY <2>2 DEF AbandonedWorkerEnds, LeftOfCall, Phase, Ahead, Tries, Current, undoVars
  <2>3. QED
    BY <1>3, <2>1, <2>2, CallMoves
<1>4. Spec => []AttemptInv
  BY <1>1, NextAttemptInv, Invariance, PTL DEF Spec
<1>5. Spec => CallProgresses
  BY <1>3, <1>4, Invariance, PTL DEF Spec, CallProgresses
<1>6. QED
  BY <1>2, <1>4, <1>5, LowerIsWellFounded, Invariance, PTL

=============================================================================
