---------------------------- MODULE TopoSortProofs ----------------------------
(***************************************************************************)
(* Proofs about TopoSort for workflows of any size: the order it returns   *)
(* is what DagExecutor assumes of Order.                                   *)
(***************************************************************************)
EXTENDS TopoSort, Integers, SequenceTheorems, FiniteSetTheorems, WellFoundedInduction, TLAPS

(* The shape of a workflow.                                                *)
LEMMA WorkflowShape ==
  ASSUME TypeOK
  PROVE  /\ MaxNodes \in Nat
         /\ Len(workflow.decl) \in Nat /\ Len(workflow.decl) <= MaxNodes
         /\ \A i \in 1..Len(workflow.decl) : workflow.decl[i] \in Name
         /\ Declared \subseteq Name
         /\ \A n \in Declared : Tuple(n) \in Seq(Name)
<1>1. /\ workflow.decl \in Seq(Name) /\ Len(workflow.decl) <= MaxNodes /\ MaxNodes \in Nat
      /\ workflow.deps \in [1..Len(workflow.decl) -> Seq(Name)]
  BY TopoAssumption DEF TopoAssumption, TypeOK
<1>2. \A i \in 1..Len(workflow.decl) : workflow.decl[i] \in Name
  BY <1>1
<1>3. ASSUME NEW n \in Declared PROVE Tuple(n) \in Seq(Name)
  <2>1. \E i \in 1..Len(workflow.decl) : workflow.decl[i] = n
    BY DEF Declared, Entries
  <2>2. (CHOOSE i \in 1..Len(workflow.decl) : workflow.decl[i] = n) \in 1..Len(workflow.decl)
    BY <2>1
  <2>3. QED
    BY <1>1, <2>2 DEF Tuple, TupleIn
<1>4. QED
  BY <1>1, <1>2, <1>3 DEF Declared, Entries

LEMMA InitIInv == Init => IInv
<1> SUFFICES ASSUME Init PROVE IInv
  OBVIOUS
<1>1. TypeOK
  BY TopoAssumption DEF TopoAssumption, Init, TypeOK
<1>2. QED
  BY <1>1 DEF Init, IInv, FramesVisiting, FramesPassed, OrderedSeen, LoopsDone, DepsBefore

(* A step never changes the workflow, hence not what is derived from it.   *)
LEMMA SameWorkflow ==
  ASSUME workflow' = workflow
  PROVE  Declared' = Declared /\ (\A n : Tuple(n)' = Tuple(n)) /\ (\A n : DepsOf(n)' = DepsOf(n))
BY DEF Declared, Tuple, DepsOf

(* A refusal leaves everything but pc alone.                               *)
LEMMA FailIInv ==
  ASSUME IInv, Fail
  PROVE  IInv'
<1> USE DEF Fail, searchVars, IInv
<1>1. TypeOK'
  BY DEF TypeOK, Declared
<1>2. FramesVisiting' /\ OrderedSeen'
  BY DEF FramesVisiting, OrderedSeen
<1>3. FramesPassed'
  BY DEF FramesPassed, Tuple
<1>4. DepsBefore'
  BY DEF DepsBefore, DepsOf, Tuple
<1>5. LoopsDone'
  BY DEF LoopsDone
<1>6. QED
  BY <1>1, <1>2, <1>3, <1>4, <1>5

(* The loops before the search.                                            *)
LEMMA LoopsIInv ==
  ASSUME IInv, Register \/ CheckDeps \/ NextPhase
  PROVE  IInv'
<1> USE DEF IInv
<1>1. workflow' = workflow /\ UNCHANGED searchVars
  BY DEF Register, CheckDeps, NextPhase
<1>2. FramesVisiting' /\ FramesPassed' /\ OrderedSeen' /\ DepsBefore'
  <2>1. FramesVisiting' /\ OrderedSeen'
    BY <1>1 DEF searchVars, FramesVisiting, OrderedSeen
  <2>2. FramesPassed'
    BY <1>1 DEF searchVars, FramesPassed, Tuple
  <2>3. DepsBefore'
    BY <1>1 DEF searchVars, DepsBefore, DepsOf, Tuple
  <2>4. QED
    BY <2>1, <2>2, <2>3
<1>3. TypeOK'
  BY <1>1, WorkflowShape, SameWorkflow
  DEF Register, CheckDeps, NextPhase, searchVars, TypeOK, More, Declared, Entries
<1>4. LoopsDone'
  <2>1. CASE Register
    BY <1>1, <2>1 DEF Register, LoopsDone, searchVars
  <2>2. CASE CheckDeps
    <3>1. \A i \in 1..Len(workflow.decl) : i < k' => i < k \/ i = k
      BY <2>2, WorkflowShape DEF CheckDeps, TypeOK
    <3>2. registered \subseteq Declared
      BY DEF TypeOK
    <3>3. \A i \in 1..Len(workflow.decl) : i < k' => DepsOf(workflow.decl[i]) \subseteq Declared
      BY <2>2, <3>1, <3>2 DEF CheckDeps, LoopsDone
    <3>4. pc' = "check" /\ stack' = stack
      BY <2>2 DEF CheckDeps, searchVars
    <3>5. QED
      BY <1>1, <2>2, <3>3, <3>4, SameWorkflow DEF LoopsDone, CheckDeps
  <2>3. CASE NextPhase
    <3>1. \A i \in 1..Len(workflow.decl) : i < k
      BY <2>3, WorkflowShape DEF NextPhase, More, TypeOK
    <3>2. CASE pc = "register"
      BY <2>3, <3>2, WorkflowShape DEF NextPhase, LoopsDone, searchVars
    <3>3. CASE pc = "check"
      <4>1. \A n \in Declared : DepsOf(n) \subseteq Declared
        BY <3>1, <3>3 DEF LoopsDone, Declared, Entries
      <4>2. QED
        BY <1>1, <2>3, <3>3, <4>1, SameWorkflow, WorkflowShape DEF NextPhase, LoopsDone, searchVars
    <3>4. CASE pc = "visit"
      <4>1. Declared \subseteq seen
        BY <2>3, <3>1, <3>4 DEF NextPhase, LoopsDone, Declared, Entries
      <4>2. QED
        BY <1>1, <2>3, <3>4, <4>1, SameWorkflow DEF NextPhase, LoopsDone, searchVars
    <3>5. QED
      BY <2>3, <3>2, <3>3, <3>4 DEF NextPhase
  <2>4. QED
    BY <2>1, <2>2, <2>3
<1>5. QED
  BY <1>2, <1>3, <1>4

(* A name pushed on the stack is neither finished nor being visited.       *)
LEMMA VisitNextIInv ==
  ASSUME IInv, VisitNext
  PROVE  IInv'
<1> USE DEF IInv
<1> DEFINE n == workflow.decl[k]
<1>1. /\ pc = "visit" /\ pc' = pc /\ k \in 1..Len(workflow.decl) /\ k' = k + 1
      /\ UNCHANGED <<workflow, registered, seen, ordered>> /\ stack = <<>>
      /\ k' \in 1..(MaxNodes + 1)
      /\ n \in Declared /\ n \in Name
  BY WorkflowShape DEF VisitNext, More, TypeOK, Declared, Entries
<1>2. CASE n \in seen /\ UNCHANGED <<stack, visiting>>
  <2>1. TypeOK' /\ FramesVisiting' /\ FramesPassed' /\ OrderedSeen'
    BY <1>1, <1>2 DEF TypeOK, FramesVisiting, FramesPassed, OrderedSeen, Declared, Tuple
  <2>2. DepsBefore'
    <3>1. workflow' = workflow /\ ordered' = ordered /\ DepsBefore
      BY <1>1
    <3>2. QED
      BY ONLY <3>1 DEF DepsBefore, DepsOf, Tuple
  <2>3. \A i \in 1..Len(workflow.decl) : i < k' => i < k \/ i = k
    BY <1>1, WorkflowShape
  <2>4. LoopsDone'
    BY <1>1, <1>2, <2>3 DEF LoopsDone, Declared, DepsOf, Tuple
  <2>5. QED
    BY <2>1, <2>2, <2>4
<1>3. CASE n \notin seen /\ Push(n) /\ stack' = <<[node |-> n, next |-> 1]>>
  <2>1. visiting' = visiting \cup {n} /\ Len(stack') = 1 /\ stack'[1] = [node |-> n, next |-> 1]
    BY <1>3 DEF Push
  <2>2. TypeOK'
    BY <1>1, <1>3, <2>1 DEF TypeOK, Frame, Declared
  <2>3. FramesVisiting' /\ FramesPassed' /\ OrderedSeen'
    BY <1>1, <1>3, <2>1 DEF FramesVisiting, FramesPassed, OrderedSeen
  <2>4. DepsBefore'
    <3>1. workflow' = workflow /\ ordered' = ordered /\ DepsBefore
      BY <1>1
    <3>2. QED
      BY ONLY <3>1 DEF DepsBefore, DepsOf, Tuple
  <2>5. \A i \in 1..Len(workflow.decl) : i < k' => i < k \/ i = k
    BY <1>1, WorkflowShape
  <2>6. LoopsDone'
    BY <1>1, <1>3, <2>1, <2>5 DEF LoopsDone, Declared, DepsOf, Tuple
  <2>7. QED
    BY <2>2, <2>3, <2>4, <2>6
<1>4. QED
  BY <1>2, <1>3 DEF VisitNext

LEMMA VisitDepIInv ==
  ASSUME IInv, VisitDep
  PROVE  IInv'
<1> USE DEF IInv
<1> DEFINE last == Len(stack)
           top  == stack[last]
           d    == Tuple(top.node)[top.next]
<1>1. /\ pc = "visit" /\ pc' = pc /\ k' = k /\ workflow' = workflow
      /\ UNCHANGED <<registered, seen, ordered>>
      /\ stack \in Seq(Frame) /\ last \in Nat \ {0} /\ top \in Frame
      /\ top.node \in Declared
      /\ top.next \in 1..Len(Tuple(top.node))
  <2>1. /\ pc = "visit" /\ pc' = pc /\ k' = k /\ workflow' = workflow
        /\ UNCHANGED <<registered, seen, ordered>>
        /\ stack # <<>> /\ top.next <= Len(Tuple(top.node))
    BY DEF VisitDep, HasDep, Top
  <2>2. stack \in Seq(Frame)
    BY DEF TypeOK
  <2>3. last \in Nat \ {0} /\ top \in Frame
    BY <2>1, <2>2
  <2>4. top.node \in Declared
    BY <2>3 DEF TypeOK, FramesVisiting
  <2>5. top.next \in Nat \ {0} /\ Len(Tuple(top.node)) \in Nat
    BY <2>3, <2>4, WorkflowShape DEF Frame
  <2>6. QED
    BY <2>1, <2>2, <2>3, <2>4, <2>5
<1>2. d \in Declared /\ d \in Name
  <2>1. d \in DepsOf(top.node)
    BY <1>1 DEF DepsOf, Entries
  <2>2. DepsOf(top.node) \subseteq Declared
    BY <1>1 DEF LoopsDone
  <2>3. QED
    BY <2>1, <2>2, WorkflowShape
<1>3. /\ Advanced \in Seq(Frame) /\ Len(Advanced) = last
      /\ \A f \in 1..last : f # last => Advanced[f] = stack[f]
      /\ Advanced[last] = [node |-> top.node, next |-> top.next + 1]
  BY <1>1 DEF Advanced, Top, Frame
<1>4. DepsBefore' /\ OrderedSeen'
  <2>1. DepsBefore'
    <3>1. workflow' = workflow /\ ordered' = ordered /\ DepsBefore
      BY <1>1
    <3>2. QED
      BY ONLY <3>1 DEF DepsBefore, DepsOf, Tuple
  <2>2. OrderedSeen'
    BY <1>1 DEF OrderedSeen
  <2>3. QED
    BY <2>1, <2>2
<1>5. \A f \in 1..last : Advanced[f].node = stack[f].node
  BY <1>3
<1>6. \A i \in 1..Len(Tuple(top.node)) : i < top.next + 1 => i < top.next \/ i = top.next
  BY <1>1, WorkflowShape
<1>7. \A f \in 1..last : \A i \in 1..Len(Tuple(stack[f].node)) :
        i < Advanced[f].next =>
          \/ Tuple(stack[f].node)[i] \in seen
          \/ f < last /\ Tuple(stack[f].node)[i] = stack[f + 1].node
          \/ f = last /\ Tuple(stack[f].node)[i] = d
  <2> SUFFICES ASSUME NEW f \in 1..last, NEW i \in 1..Len(Tuple(stack[f].node)),
                      i < Advanced[f].next
               PROVE  \/ Tuple(stack[f].node)[i] \in seen
                      \/ f < last /\ Tuple(stack[f].node)[i] = stack[f + 1].node
                      \/ f = last /\ Tuple(stack[f].node)[i] = d
    OBVIOUS
  <2>1. CASE f # last
    BY <1>3, <2>1 DEF FramesPassed
  <2>2. CASE f = last
    <3>1. i < top.next \/ i = top.next
      BY <1>3, <1>6, <2>2
    <3>2. i < top.next => Tuple(stack[f].node)[i] \in seen
      BY <1>1, <2>2 DEF FramesPassed
    <3>3. QED
      BY <2>2, <3>1, <3>2
  <2>3. QED
    BY <2>1, <2>2
<1>8. CASE d \in seen /\ stack' = Advanced /\ UNCHANGED visiting
  <2>1. TypeOK'
    BY <1>1, <1>3, <1>8 DEF TypeOK, Declared
  <2>2. FramesVisiting'
    BY <1>1, <1>3, <1>5, <1>8 DEF FramesVisiting
  <2>3. FramesPassed'
    BY <1>1, <1>3, <1>5, <1>7, <1>8 DEF FramesPassed, Tuple
  <2>4. LoopsDone'
    BY <1>1, <1>3, <1>5, <1>8 DEF LoopsDone, Declared, DepsOf, Tuple
  <2>5. QED
    BY <1>4, <2>1, <2>2, <2>3, <2>4
<1>9. CASE /\ d \notin seen /\ Push(d)
           /\ stack' = Append(Advanced, [node |-> d, next |-> 1])
  <2>1. /\ d \notin visiting /\ visiting' = visiting \cup {d}
        /\ stack' \in Seq(Frame) /\ Len(stack') = last + 1
        /\ \A f \in 1..last : stack'[f] = Advanced[f]
        /\ stack'[last + 1] = [node |-> d, next |-> 1]
    BY <1>1, <1>2, <1>3, <1>9 DEF Push, Frame
  <2>2. \A f \in 1..(last + 1) : f \in 1..last \/ f = last + 1
    BY <1>1
  <2>3. TypeOK'
    BY <1>1, <1>2, <2>1 DEF TypeOK, Declared
  <2>4. FramesVisiting'
    <3>1. \A f \in 1..last : stack'[f].node = stack[f].node /\ stack[f].node # d
      BY <1>5, <2>1 DEF FramesVisiting
    <3>2. \A f \in 1..Len(stack') : f \in 1..last \/ f = last + 1
      BY <2>1, <2>2
    <3>3. /\ \A f \in 1..last : stack[f].node \in visiting
          /\ \A f, g \in 1..last : stack[f].node = stack[g].node => f = g
          /\ visiting \cap seen = {}
      BY DEF FramesVisiting
    <3>4. \A f \in 1..Len(stack') : stack'[f].node \in visiting'
      BY <2>1, <3>1, <3>2, <3>3
    <3>5. \A f, g \in 1..Len(stack') : stack'[f].node = stack'[g].node => f = g
      BY <2>1, <3>1, <3>2, <3>3
    <3>6. visiting' \cap seen' = {}
      BY <1>1, <1>9, <2>1, <3>3
    <3>7. QED
      BY <3>4, <3>5, <3>6 DEF FramesVisiting
  <2>5. FramesPassed'
    <3> SUFFICES ASSUME NEW f \in 1..(last + 1), NEW i \in 1..Len(Tuple(stack'[f].node)),
                        i < stack'[f].next
                 PROVE  \/ Tuple(stack'[f].node)[i] \in seen
                        \/ f < last + 1 /\ Tuple(stack'[f].node)[i] = stack'[f + 1].node
      BY <1>1, <2>1 DEF FramesPassed, Tuple
    <3>1. f # last + 1
      BY <2>1
    <3>2. f \in 1..last /\ stack'[f].node = stack[f].node /\ stack'[f].next = Advanced[f].next
      BY <1>5, <2>1, <2>2, <3>1
    <3>3. CASE f = last
      BY <1>1, <1>7, <2>1, <3>2, <3>3
    <3>4. CASE f # last
      <4>1. f + 1 \in 1..last
        BY <1>1, <3>2, <3>4
      <4>2. stack'[f + 1].node = stack[f + 1].node
        BY <1>5, <2>1, <4>1
      <4>3. QED
        BY <1>1, <1>7, <3>2, <3>4, <4>2
    <3>5. QED
      BY <3>3, <3>4
  <2>6. LoopsDone'
    <3>1. stack # <<>> /\ stack' # <<>> /\ stack'[1].node = stack[1].node
      BY <1>1, <1>5, <2>1
    <3>2. QED
      BY <1>1, <3>1 DEF LoopsDone, Declared, DepsOf, Tuple
  <2>7. QED
    BY <1>4, <2>3, <2>4, <2>5, <2>6
<1>10. QED
  BY <1>8, <1>9 DEF VisitDep, NextDep, Top

(* What SubSeq leaves of a stack that is popped.                           *)
LEMMA PopOne ==
  ASSUME NEW S, NEW s \in Seq(S), s # <<>>
  PROVE  /\ SubSeq(s, 1, Len(s) - 1) \in Seq(S)
         /\ Len(SubSeq(s, 1, Len(s) - 1)) = Len(s) - 1
         /\ \A f \in 1..(Len(s) - 1) : SubSeq(s, 1, Len(s) - 1)[f] = s[f]
<1>1. PICK m \in Nat : m = Len(s) - 1
  BY Len(s) \in Nat /\ Len(s) # 0
<1>2. \A f \in 1..m : s[f] \in S
  BY <1>1
<1>3. /\ SubSeq(s, 1, m) \in Seq(S)
      /\ Len(SubSeq(s, 1, m)) = IF 1 <= m THEN m - 1 + 1 ELSE 0
      /\ \A f \in 1..(m - 1 + 1) : SubSeq(s, 1, m)[f] = s[1 + f - 1]
  BY <1>2, SubSeqProperties
<1>4. Len(SubSeq(s, 1, m)) = m
  BY <1>3
<1>5. \A f \in 1..m : SubSeq(s, 1, m)[f] = s[f]
  BY <1>3
<1>6. QED
  BY <1>1, <1>3, <1>4, <1>5

(* A finished name: its dependencies are finished, so it may follow them.  *)
LEMMA FinishVisitIInv ==
  ASSUME IInv, FinishVisit
  PROVE  IInv'
<1> USE DEF IInv
<1> DEFINE last == Len(stack)
           top  == stack[last]
           len  == Len(ordered)
<1>1. /\ pc = "visit" /\ pc' = pc /\ k' = k /\ workflow' = workflow
      /\ registered' = registered
      /\ stack # <<>> /\ top.next > Len(Tuple(top.node))
      /\ visiting' = visiting \ {top.node}
      /\ seen' = seen \cup {top.node}
      /\ ordered' = Append(ordered, top.node)
      /\ stack' = SubSeq(stack, 1, last - 1)
  BY DEF FinishVisit, Top
<1>2. stack \in Seq(Frame) /\ ordered \in Seq(Name) /\ seen \subseteq Declared
  BY DEF TypeOK
<1>3. last \in Nat \ {0} /\ top \in Frame /\ len \in Nat
  BY <1>1, <1>2
<1>4. top.node \in Declared /\ top.node \in Name /\ top.node \notin seen
  BY <1>3, WorkflowShape DEF TypeOK, FramesVisiting
<1>5. /\ stack' \in Seq(Frame) /\ Len(stack') = last - 1
      /\ \A f \in 1..(last - 1) : stack'[f] = stack[f]
  BY <1>1, <1>2, PopOne
<1>6. /\ ordered' \in Seq(Name) /\ Len(ordered') = len + 1
      /\ \A i \in 1..len : ordered'[i] = ordered[i]
      /\ ordered'[len + 1] = top.node
      /\ \A i \in 1..(len + 1) : i \in 1..len \/ i = len + 1
  BY <1>1, <1>2, <1>3, <1>4
<1>7. \A f \in 1..(last - 1) : f \in 1..last /\ f # last
  BY <1>3
<1>8. DepsOf(top.node) \subseteq seen
  <2>1. \A i \in 1..Len(Tuple(top.node)) : i < top.next
    BY <1>1, <1>3, <1>4, WorkflowShape DEF Frame
  <2>2. \A i \in 1..Len(Tuple(top.node)) : Tuple(top.node)[i] \in seen
    BY <1>3, <2>1 DEF FramesPassed
  <2>3. QED
    BY <2>2 DEF DepsOf, Entries
<1>9. TypeOK'
  BY <1>1, <1>2, <1>4, <1>5, <1>6 DEF TypeOK, Declared
<1>10. FramesVisiting'
  <2>1. \A f \in 1..(last - 1) : stack[f].node # top.node
    BY <1>3, <1>7 DEF FramesVisiting
  <2>2. \A f \in 1..(last - 1) : stack'[f].node \in visiting'
    BY <1>1, <1>5, <1>7, <2>1 DEF FramesVisiting
  <2>3. \A f, g \in 1..(last - 1) : stack'[f].node = stack'[g].node => f = g
    BY <1>5, <1>7 DEF FramesVisiting
  <2>4. visiting' \cap seen' = {}
    BY <1>1 DEF FramesVisiting
  <2>5. QED
    BY <1>5, <2>2, <2>3, <2>4 DEF FramesVisiting
<1>11. FramesPassed'
  <2> SUFFICES ASSUME NEW f \in 1..(last - 1), NEW i \in 1..Len(Tuple(stack[f].node)),
                      i < stack[f].next
               PROVE  \/ Tuple(stack[f].node)[i] \in seen \cup {top.node}
                      \/ f < last - 1 /\ Tuple(stack[f].node)[i] = stack'[f + 1].node
    BY <1>1, <1>5 DEF FramesPassed, Tuple
  <2>1. Tuple(stack[f].node)[i] \in seen \/ Tuple(stack[f].node)[i] = stack[f + 1].node
    BY <1>7 DEF FramesPassed
  <2>2. f + 1 = last \/ (f < last - 1 /\ f + 1 \in 1..(last - 1))
    BY <1>3
  <2>3. QED
    BY <1>5, <2>1, <2>2
<1>12. OrderedSeen'
  <2>1. \A i \in 1..len : ordered[i] # top.node
    BY <1>4 DEF OrderedSeen
  <2>2. \A i \in 1..(len + 1) : ordered'[i] \in seen'
    BY <1>1, <1>6 DEF OrderedSeen
  <2>3. \A n \in seen' : \E i \in 1..(len + 1) : ordered'[i] = n
    <3> SUFFICES ASSUME NEW n \in seen'
                 PROVE  \E i \in 1..(len + 1) : ordered'[i] = n
      OBVIOUS
    <3>1. CASE n = top.node
      BY <1>3, <1>6, <3>1
    <3>2. CASE n \in seen
      <4>1. PICK i \in 1..len : ordered[i] = n
        BY <3>2 DEF OrderedSeen
      <4>2. i \in 1..(len + 1) /\ ordered'[i] = n
        BY <1>3, <1>6, <4>1
      <4>3. QED
        BY <4>2
    <3>3. QED
      BY <1>1, <3>1, <3>2
  <2>4. \A i, j \in 1..(len + 1) : ordered'[i] = ordered'[j] => i = j
    BY <1>6, <2>1 DEF OrderedSeen
  <2>5. QED
    BY <1>6, <2>2, <2>3, <2>4 DEF OrderedSeen
<1>13. DepsBefore'
  <2> SUFFICES ASSUME NEW i \in 1..Len(ordered'), NEW d \in DepsOf(ordered'[i])
               PROVE  \E j \in 1..Len(ordered') : j < i /\ ordered'[j] = d
    <3>1. workflow' = workflow
      BY <1>1
    <3>2. QED
      BY <3>1 DEF DepsBefore, DepsOf, Tuple
  <2>1. CASE i \in 1..len
    <3>1. PICK j \in 1..len : j < i /\ ordered[j] = d
      BY <1>6, <2>1 DEF DepsBefore
    <3>2. j \in 1..(len + 1) /\ ordered'[j] = d
      BY <1>3, <1>6, <3>1
    <3>3. QED
      BY <3>1, <3>2
  <2>2. CASE i = len + 1
    <3>1. d \in seen
      BY <1>6, <1>8, <2>2
    <3>2. PICK j \in 1..len : ordered[j] = d
      BY <3>1 DEF OrderedSeen
    <3>3. j \in 1..(len + 1) /\ j < i /\ ordered'[j] = d
      BY <1>3, <1>6, <2>2, <3>2
    <3>4. QED
      BY <3>3
  <2>3. QED
    BY <1>6, <2>1, <2>2
<1>14. LoopsDone'
  <2>1. \A n \in Declared : DepsOf(n) \subseteq Declared
    BY <1>1 DEF LoopsDone
  <2>2. ASSUME NEW i \in 1..Len(workflow.decl), i < k
        PROVE  workflow.decl[i] \in seen' \/ (stack' # <<>> /\ workflow.decl[i] = stack'[1].node)
    <3>1. workflow.decl[i] \in seen \/ workflow.decl[i] = stack[1].node
      BY <1>1, <2>2 DEF LoopsDone
    <3>2. CASE Len(stack) = 1
      BY <1>1, <3>1, <3>2
    <3>3. CASE Len(stack) # 1
      <4>1. 1 \in 1..(last - 1)
        <5>1. ASSUME NEW m \in Nat \ {0}, m # 1 PROVE 1 \in 1..(m - 1)
          BY <5>1
        <5>2. QED
          BY <1>3, <3>3, <5>1
      <4>2. stack'[1] = stack[1]
        BY <1>5, <4>1
      <4>3. Len(stack') # 0
        BY <1>3, <1>5, <3>3
      <4>4. QED
        BY <1>1, <3>1, <4>2, <4>3
    <3>4. QED
      BY <3>2, <3>3
  <2>3. (\A n \in Declared : DepsOf(n) \subseteq Declared)'
    BY <1>1, <2>1, SameWorkflow
  <2>4. QED
    BY <1>1, <2>2, <2>3 DEF LoopsDone
<1>15. QED
  BY <1>9, <1>10, <1>11, <1>12, <1>13, <1>14

(* The inductive invariant, for any set of workflows of any bounded size.  *)
THEOREM Invariance == Spec => []IInv
<1>1. Init => IInv
  BY InitIInv
<1>2. IInv /\ [Next]_vars => IInv'
  <2> SUFFICES ASSUME IInv, [Next]_vars PROVE IInv'
    OBVIOUS
  <2>1. CASE RefuseDuplicate \/ RefuseUnknown \/ RefuseCycle
    BY <2>1, FailIInv DEF RefuseDuplicate, RefuseUnknown, RefuseCycle
  <2>2. CASE Register \/ CheckDeps \/ NextPhase
    BY <2>2, LoopsIInv
  <2>3. CASE VisitNext
    BY <2>3, VisitNextIInv
  <2>4. CASE VisitDep
    BY <2>4, VisitDepIInv
  <2>5. CASE FinishVisit
    BY <2>5, FinishVisitIInv
  <2>6. CASE UNCHANGED vars
    <3>1. TypeOK' /\ FramesVisiting' /\ OrderedSeen'
      BY <2>6 DEF vars, IInv, TypeOK, Declared, FramesVisiting, OrderedSeen
    <3>2. FramesPassed'
      BY <2>6 DEF vars, IInv, FramesPassed, Tuple
    <3>3. LoopsDone'
      BY <2>6 DEF vars, IInv, LoopsDone, Declared, DepsOf, Tuple
    <3>4. DepsBefore'
      BY <2>6 DEF vars, IInv, DepsBefore, DepsOf, Tuple
    <3>5. QED
      BY <3>1, <3>2, <3>3, <3>4 DEF IInv
  <2>7. QED
    BY <2>1, <2>2, <2>3, <2>4, <2>5, <2>6 DEF Next
<1>3. QED
  BY <1>1, <1>2, PTL DEF Spec

(* A node never precedes one of its dependencies in the result (line 102). *)
THEOREM DepsBeforeHolds == Spec => []DepsBefore
<1>1. IInv => DepsBefore
  BY DEF IInv
<1>2. QED
  BY <1>1, Invariance, PTL

(* The finished order is a permutation of the declared nodes.              *)
THEOREM CompleteOrderHolds == Spec => []CompleteOrder
<1>1. IInv => CompleteOrder
  <2> SUFFICES ASSUME IInv, pc = "done" PROVE CompleteOrder
    BY DEF CompleteOrder
  <2>1. seen = Declared
    BY DEF IInv, LoopsDone, TypeOK
  <2>2. Entries(ordered) = seen
    BY DEF IInv, OrderedSeen, Entries
  <2>3. QED
    BY <2>1, <2>2 DEF IInv, OrderedSeen, CompleteOrder
<1>2. QED
  BY <1>1, Invariance, PTL
-----------------------------------------------------------------------------
(* What a refusal rests on: the names registered so far are the ones before k *)
(* and differ; the frames are exactly the names being visited, each the      *)
(* dependency its predecessor looks at; no set of finished names is a cycle.  *)
Registering ==
  /\ pc = "register" =>
       /\ registered = {workflow.decl[i] : i \in 1..(k - 1)}
       /\ \A i, j \in 1..(k - 1) : workflow.decl[i] = workflow.decl[j] => i = j
  /\ pc \in {"check", "visit", "done"} => registered = Declared /\ ~Duplicate

FramesChain ==
  /\ \A n \in visiting : \E f \in 1..Len(stack) : stack[f].node = n
  /\ \A f \in 1..Len(stack) :
       f < Len(stack) => stack[f + 1].node \in DepsOf(stack[f].node)

AcyclicSeen ==
  \A S \in (SUBSET seen) \ {{}} : \E n \in S : DepsOf(n) \cap S = {}

RefusalInv ==
  /\ Registering /\ FramesChain /\ AcyclicSeen
  /\ pc = "error" => Duplicate \/ Unknown \/ Cyclic

(* The index a loop ends at.                                                *)
LEMMA LoopEnd ==
  ASSUME IInv
  PROVE  /\ k \in Nat \ {0} /\ Len(workflow.decl) \in Nat
         /\ More => k \in 1..Len(workflow.decl)
         /\ ~More => \A i \in 1..Len(workflow.decl) : i \in 1..(k - 1)
  BY WorkflowShape DEF IInv, TypeOK, More

LEMMA InitRefusal == Init => RefusalInv
<1> SUFFICES ASSUME Init PROVE RefusalInv
  OBVIOUS
<1>1. 1..(k - 1) = {}
  BY DEF Init
<1>2. Registering
  BY <1>1 DEF Init, Registering
<1>3. stack = <<>> /\ visiting = {} /\ seen = {}
  BY DEF Init
<1>4. FramesChain
  <2>1. Len(stack) = 0 /\ 1..Len(stack) = {}
    BY <1>3
  <2> QED BY <1>3, <2>1 DEF FramesChain
<1>5. AcyclicSeen
  <2>1. ASSUME NEW S \in (SUBSET seen) \ {{}}
        PROVE  \E n \in S : DepsOf(n) \cap S = {}
    <3>1. S = {}
      BY <1>3
    <3>2. S # {}
      OBVIOUS
    <3> QED BY <3>1, <3>2
  <2> QED BY <2>1 DEF AcyclicSeen
<1> QED BY <1>2, <1>4, <1>5 DEF Init, RefusalInv

(* The searches leave the first two phases alone, the loops the search.      *)
LEMMA SameSearch ==
  ASSUME workflow' = workflow, UNCHANGED searchVars, FramesChain, AcyclicSeen
  PROVE  FramesChain' /\ AcyclicSeen'
<1>1. \A n : DepsOf(n)' = DepsOf(n)
  BY SameWorkflow
<1>2. FramesChain'
  <2>1. stack' = stack /\ visiting' = visiting
    BY DEF searchVars
  <2>2. ASSUME NEW f \in 1..Len(stack), f < Len(stack), NEW node, node = stack[f].node
        PROVE  stack[f + 1].node \in DepsOf(node)'
    BY <1>1, <2>2 DEF FramesChain
  <2>3. \A n \in visiting : \E f \in 1..Len(stack) : stack[f].node = n
    BY DEF FramesChain
  <2> QED BY <2>1, <2>2, <2>3 DEF FramesChain
<1>3. AcyclicSeen'
  <2>1. seen' = seen
    BY DEF searchVars
  <2>2. ASSUME NEW S \in (SUBSET seen) \ {{}}
        PROVE  \E n \in S : DepsOf(n)' \cap S = {}
    BY <1>1 DEF AcyclicSeen
  <2> QED BY <2>1, <2>2 DEF AcyclicSeen
<1> QED BY <1>2, <1>3

LEMMA RegisterRefusal ==
  ASSUME IInv, RefusalInv, Register
  PROVE  RefusalInv'
<1>1. /\ pc = "register" /\ pc' = pc /\ More /\ workflow' = workflow /\ k' = k + 1
      /\ workflow.decl[k] \notin registered
      /\ registered' = registered \cup {workflow.decl[k]} /\ UNCHANGED searchVars
  BY DEF Register
<1>2. k \in 1..Len(workflow.decl) /\ k \in Nat \ {0}
  BY <1>1, LoopEnd
<1>3. \A i \in 1..(k' - 1) : i \in 1..(k - 1) \/ i = k
  BY <1>1, <1>2
<1>4. k \in 1..(k' - 1) /\ \A i \in 1..(k - 1) : i \in 1..(k' - 1)
  BY <1>1, <1>2
<1>5. /\ registered = {workflow.decl[i] : i \in 1..(k - 1)}
      /\ \A i, j \in 1..(k - 1) : workflow.decl[i] = workflow.decl[j] => i = j
  BY <1>1 DEF RefusalInv, Registering
<1>6. registered' = {workflow.decl[i] : i \in 1..(k' - 1)}
  BY <1>1, <1>3, <1>4, <1>5
<1>7. \A i \in 1..(k - 1) : workflow.decl[i] # workflow.decl[k]
  BY <1>1, <1>5
<1>8. \A i, j \in 1..(k' - 1) : workflow.decl[i] = workflow.decl[j] => i = j
  BY <1>3, <1>5, <1>7
<1>9. Registering'
  BY <1>1, <1>6, <1>8 DEF Registering
<1>10. FramesChain' /\ AcyclicSeen'
  BY <1>1, SameSearch DEF RefusalInv
<1> QED BY <1>1, <1>9, <1>10 DEF RefusalInv

LEMMA PhaseRefusal ==
  ASSUME IInv, RefusalInv, CheckDeps \/ NextPhase
  PROVE  RefusalInv'
<1>1. workflow' = workflow /\ registered' = registered /\ UNCHANGED searchVars
  BY DEF CheckDeps, NextPhase
<1>2. FramesChain' /\ AcyclicSeen'
  BY <1>1, SameSearch DEF RefusalInv
<1>3. Declared' = Declared /\ Duplicate' = Duplicate
  BY <1>1 DEF Declared, Duplicate
<1>4. CASE CheckDeps
  <2>1. pc = "check" /\ pc' = "check"
    BY <1>4 DEF CheckDeps
  <2>2. Registering'
    BY <1>1, <1>3, <2>1 DEF RefusalInv, Registering
  <2> QED BY <1>2, <2>1, <2>2 DEF RefusalInv
<1>5. CASE NextPhase
  <2>1. ~More /\ pc \in {"register", "check", "visit"} /\ pc' \in {"check", "visit", "done"}
    BY <1>5 DEF NextPhase
  <2>2. registered = Declared /\ ~Duplicate
    <3>1. CASE pc = "register"
      <4>1. \A i \in 1..Len(workflow.decl) : i \in 1..(k - 1)
        BY <2>1, LoopEnd
      <4>2. Declared \subseteq registered /\ ~Duplicate
        BY <3>1, <4>1 DEF RefusalInv, Registering, Declared, Entries, Duplicate
      <4>3. registered \subseteq Declared
        BY DEF IInv, TypeOK
      <4> QED BY <4>2, <4>3
    <3>2. CASE pc # "register"
      BY <2>1, <3>2 DEF RefusalInv, Registering
    <3> QED BY <3>1, <3>2
  <2>3. Registering'
    BY <1>1, <1>3, <2>1, <2>2 DEF Registering
  <2> QED BY <1>2, <2>1, <2>3 DEF RefusalInv
<1> QED BY <1>4, <1>5

(* What is refused is wrong.                                                 *)
LEMMA DuplicateRefused ==
  ASSUME IInv, RefusalInv, RefuseDuplicate
  PROVE  Duplicate
<1>1. pc = "register" /\ More /\ workflow.decl[k] \in registered
  BY DEF RefuseDuplicate
<1>2. k \in 1..Len(workflow.decl) /\ k \in Nat \ {0}
  BY <1>1, LoopEnd
<1>3. PICK i \in 1..(k - 1) : workflow.decl[i] = workflow.decl[k]
  BY <1>1 DEF RefusalInv, Registering
<1>4. i \in 1..Len(workflow.decl) /\ i # k
  BY <1>2, <1>3, LoopEnd
<1> QED BY <1>2, <1>3, <1>4 DEF Duplicate

LEMMA UnknownRefused ==
  ASSUME IInv, RefusalInv, RefuseUnknown
  PROVE  Unknown
<1>1. pc = "check" /\ More /\ ~(DepsOf(workflow.decl[k]) \subseteq registered)
  BY DEF RefuseUnknown
<1>2. k \in 1..Len(workflow.decl)
  BY <1>1, LoopEnd
<1>3. workflow.decl[k] \in Declared
  BY <1>2 DEF Declared, Entries
<1>4. registered = Declared
  BY <1>1 DEF RefusalInv, Registering
<1> QED BY <1>1, <1>3, <1>4 DEF Unknown

(* The frames from the name reached again to the top are a cycle.            *)
LEMMA CycleRefused ==
  ASSUME IInv, RefusalInv, RefuseCycle
  PROVE  Cyclic
<1> DEFINE last == Len(stack)
<1>1. /\ stack # <<>> /\ Top.next <= Len(Tuple(Top.node)) /\ NextDep \in visiting
  BY DEF RefuseCycle, HasDep
<1>2. stack \in Seq(Frame) /\ visiting \subseteq Declared
  BY DEF IInv, TypeOK
<1>3. last \in Nat \ {0} /\ Top = stack[last] /\ Top \in Frame
  BY <1>1, <1>2 DEF Top
<1>4. PICK f \in 1..last : stack[f].node = NextDep
  BY <1>1 DEF RefusalInv, FramesChain
<1>5. NextDep \in DepsOf(Top.node)
  BY <1>1, <1>3 DEF NextDep, DepsOf, Entries, Frame
<1> DEFINE cycle == {stack[g].node : g \in f..last}
<1>6. \A g \in f..last : g \in 1..last /\ (g # last => g + 1 \in f..last /\ g < last)
  BY <1>3
<1>7. cycle \in SUBSET Declared
  BY <1>2, <1>6 DEF IInv, FramesVisiting
<1>8. NextDep \in cycle
  <2>1. f \in f..last
    BY <1>3
  <2> QED BY <1>4, <2>1
<1>9. ASSUME NEW n \in cycle PROVE DepsOf(n) \cap cycle # {}
  <2>1. PICK g \in f..last : n = stack[g].node
    OBVIOUS
  <2>2. CASE g = last
    BY <1>3, <1>5, <1>8, <2>1, <2>2
  <2>3. CASE g # last
    <3>1. stack[g + 1].node \in DepsOf(n) /\ stack[g + 1].node \in cycle
      BY <1>6, <2>1, <2>3 DEF RefusalInv, FramesChain
    <3> QED BY <3>1
  <2> QED BY <2>2, <2>3
<1> QED BY <1>7, <1>8, <1>9 DEF Cyclic

LEMMA FailRefusal ==
  ASSUME IInv, RefusalInv, RefuseDuplicate \/ RefuseUnknown \/ RefuseCycle
  PROVE  RefusalInv'
<1>1. Fail
  BY DEF RefuseDuplicate, RefuseUnknown, RefuseCycle
<1>2. pc' = "error" /\ workflow' = workflow /\ UNCHANGED searchVars
  BY <1>1 DEF Fail
<1>3. FramesChain' /\ AcyclicSeen'
  BY <1>2, SameSearch DEF RefusalInv
<1>4. Duplicate \/ Unknown \/ Cyclic
  BY DuplicateRefused, UnknownRefused, CycleRefused
<1>5. Duplicate' = Duplicate /\ Declared' = Declared /\ \A n : DepsOf(n)' = DepsOf(n)
  BY <1>2, SameWorkflow DEF Duplicate
<1>6. Unknown => Unknown'
  BY <1>5 DEF Unknown
<1>7. Cyclic => Cyclic'
  <2> SUFFICES ASSUME Cyclic PROVE Cyclic'
    OBVIOUS
  <2>1. PICK S \in (SUBSET Declared) \ {{}} : \A n \in S : DepsOf(n) \cap S # {}
    BY DEF Cyclic
  <2>2. \A n \in S : DepsOf(n)' \cap S # {}
    BY <1>5, <2>1
  <2>3. S \in (SUBSET Declared') \ {{}}
    BY <1>5
  <2> QED BY <2>2, <2>3 DEF Cyclic
<1>8. Registering'
  BY <1>2 DEF Registering
<1> QED BY <1>3, <1>4, <1>5, <1>6, <1>7, <1>8 DEF RefusalInv

LEMMA VisitNextRefusal ==
  ASSUME IInv, RefusalInv, VisitNext
  PROVE  RefusalInv'
<1> DEFINE n == workflow.decl[k]
<1>1. /\ pc = "visit" /\ pc' = pc /\ stack = <<>>
      /\ UNCHANGED <<workflow, registered, seen, ordered>>
  BY DEF VisitNext
<1>2. Registering'
  BY <1>1 DEF RefusalInv, Registering, Declared, Duplicate
<1>3. \A m : DepsOf(m)' = DepsOf(m)
  BY <1>1, SameWorkflow
<1>4. AcyclicSeen'
  <2>1. ASSUME NEW S \in (SUBSET seen) \ {{}}
        PROVE  \E m \in S : DepsOf(m)' \cap S = {}
    BY <1>3 DEF RefusalInv, AcyclicSeen
  <2> QED BY <1>1, <2>1 DEF AcyclicSeen
<1>5. visiting = {}
  BY <1>1 DEF RefusalInv, FramesChain
<1>6. FramesChain'
  <2>1. CASE UNCHANGED <<stack, visiting>>
    BY <1>1, <1>5, <2>1 DEF FramesChain
  <2>2. CASE Push(n) /\ stack' = <<[node |-> n, next |-> 1]>>
    <3>1. /\ visiting' = {n} /\ Len(stack') = 1
          /\ stack'[1] = [node |-> n, next |-> 1]
      BY <1>5, <2>2 DEF Push
    <3>2. \A f \in 1..Len(stack') : ~(f < Len(stack'))
      BY <3>1
    <3> QED BY <3>1, <3>2 DEF FramesChain
  <2> QED BY <2>1, <2>2 DEF VisitNext
<1> QED BY <1>1, <1>2, <1>4, <1>6 DEF RefusalInv

LEMMA VisitDepRefusal ==
  ASSUME IInv, RefusalInv, VisitDep
  PROVE  RefusalInv'
<1> DEFINE last == Len(stack)
           top  == stack[last]
           d    == Tuple(top.node)[top.next]
<1>1. /\ pc = "visit" /\ pc' = pc /\ stack # <<>> /\ top.next <= Len(Tuple(top.node))
      /\ UNCHANGED <<workflow, registered, seen, ordered>>
  BY DEF VisitDep, HasDep, Top
<1>2. stack \in Seq(Frame) /\ last \in Nat \ {0} /\ top \in Frame
  BY <1>1 DEF IInv, TypeOK
<1>3. Registering'
  BY <1>1 DEF RefusalInv, Registering, Declared, Duplicate
<1>4. \A m : DepsOf(m)' = DepsOf(m)
  BY <1>1, SameWorkflow
<1>5. AcyclicSeen'
  <2>1. ASSUME NEW S \in (SUBSET seen) \ {{}}
        PROVE  \E m \in S : DepsOf(m)' \cap S = {}
    BY <1>4 DEF RefusalInv, AcyclicSeen
  <2> QED BY <1>1, <2>1 DEF AcyclicSeen
<1>6. d \in DepsOf(top.node)
  BY <1>1, <1>2 DEF DepsOf, Entries, Frame
<1>7. /\ Advanced \in Seq(Frame) /\ Len(Advanced) = last
      /\ \A f \in 1..last : f # last => Advanced[f] = stack[f]
      /\ Advanced[last] = [node |-> top.node, next |-> top.next + 1]
  BY <1>1, <1>2 DEF Advanced, Top, Frame
<1>8. \A f \in 1..last : Advanced[f].node = stack[f].node
  BY <1>7
<1>9. /\ \A n \in visiting : \E f \in 1..last : stack[f].node = n
      /\ \A f \in 1..last : f < last => stack[f + 1].node \in DepsOf(stack[f].node)
  BY DEF RefusalInv, FramesChain
<1>10. \A f \in 1..last : f < last => f + 1 \in 1..last
  BY <1>2
<1>11. CASE stack' = Advanced /\ UNCHANGED visiting
  <2>1. \A n \in visiting' : \E f \in 1..Len(stack') : stack'[f].node = n
    BY <1>7, <1>8, <1>9, <1>11
  <2>2. ASSUME NEW f \in 1..last, f < last
        PROVE  stack'[f + 1].node \in DepsOf(stack'[f].node)
    BY <1>8, <1>9, <1>10, <1>11, <2>2
  <2>3. FramesChain'
    <3>1. ASSUME NEW f \in 1..last, f < last
          PROVE  stack'[f + 1].node \in DepsOf(stack[f].node)'
      BY <1>4, <1>8, <1>11, <2>2, <3>1
    <3>2. \A f \in 1..Len(stack') : f < Len(stack') =>
            stack'[f + 1].node \in DepsOf(stack[f].node)'
      BY <1>7, <1>11, <3>1
    <3> QED BY <2>1, <3>2 DEF FramesChain
  <2> QED BY <1>1, <1>3, <1>5, <2>3 DEF RefusalInv
<1>12. CASE Push(d) /\ stack' = Append(Advanced, [node |-> d, next |-> 1])
  <2>1. /\ visiting' = visiting \cup {d} /\ Len(stack') = last + 1
        /\ \A f \in 1..last : stack'[f] = Advanced[f]
        /\ stack'[last + 1] = [node |-> d, next |-> 1]
    <3>1. d \in Name
      <4>1. top.node \in Declared
        BY <1>2 DEF IInv, TypeOK, FramesVisiting
      <4>2. Tuple(top.node) \in Seq(Name)
        BY <4>1, WorkflowShape DEF IInv
      <4>3. top.next \in 1..Len(Tuple(top.node))
        BY <1>1, <1>2, <4>2 DEF Frame
      <4> QED BY <4>2, <4>3
    <3> QED BY <1>2, <1>7, <1>12, <3>1 DEF Push, Frame
  <2>2. \A f \in 1..last : stack'[f].node = stack[f].node
    BY <1>8, <2>1
  <2>3. \A n \in visiting' : \E f \in 1..Len(stack') : stack'[f].node = n
    <3>1. last + 1 \in 1..Len(stack') /\ stack'[last + 1].node = d
      BY <1>2, <2>1
    <3>2. \A f \in 1..last : f \in 1..Len(stack')
      BY <1>2, <2>1
    <3> QED BY <1>9, <2>1, <2>2, <3>1, <3>2
  <2>4. ASSUME NEW f \in 1..(last + 1), f < last + 1
        PROVE  stack'[f + 1].node \in DepsOf(stack'[f].node)
    <3>1. f \in 1..last
      BY <1>2, <2>4
    <3>2. CASE f = last
      <4>1. stack'[f + 1].node = d /\ stack'[f].node = top.node
        BY <2>1, <2>2, <3>1, <3>2
      <4> QED BY <1>6, <4>1
    <3>3. CASE f # last
      <4>1. f < last /\ f + 1 \in 1..last
        BY <1>2, <3>1, <3>3
      <4> QED BY <1>9, <2>2, <3>1, <4>1
    <3> QED BY <3>2, <3>3
  <2>5. FramesChain'
    <3>1. ASSUME NEW f \in 1..(last + 1), f < last + 1, NEW node, node = stack'[f].node
          PROVE  stack'[f + 1].node \in DepsOf(node)'
      BY <1>4, <2>4, <3>1
    <3> QED BY <2>1, <2>3, <3>1 DEF FramesChain
  <2> QED BY <1>1, <1>3, <1>5, <2>5 DEF RefusalInv
<1> QED BY <1>11, <1>12 DEF VisitDep, NextDep, Top

LEMMA FinishVisitRefusal ==
  ASSUME IInv, RefusalInv, FinishVisit
  PROVE  RefusalInv'
<1> DEFINE last == Len(stack)
           top  == stack[last]
<1>1. /\ pc = "visit" /\ pc' = pc /\ workflow' = workflow /\ registered' = registered
      /\ stack # <<>> /\ top.next > Len(Tuple(top.node))
      /\ visiting' = visiting \ {top.node} /\ seen' = seen \cup {top.node}
      /\ stack' = SubSeq(stack, 1, last - 1)
  BY DEF FinishVisit, Top
<1>2. stack \in Seq(Frame) /\ last \in Nat \ {0} /\ top \in Frame /\ seen \subseteq Declared
  BY <1>1 DEF IInv, TypeOK
<1>3. /\ Len(stack') = last - 1
      /\ \A f \in 1..(last - 1) : stack'[f] = stack[f]
  BY <1>1, <1>2, PopOne
<1>4. Registering'
  BY <1>1 DEF RefusalInv, Registering, Declared, Duplicate
<1>5. \A m : DepsOf(m)' = DepsOf(m)
  BY <1>1, SameWorkflow
<1>6. top.node \notin seen /\ top.node \in Declared
  BY <1>2 DEF IInv, TypeOK, FramesVisiting
<1>7. DepsOf(top.node) \subseteq seen
  <2>1. \A i \in 1..Len(Tuple(top.node)) : i < top.next
    BY <1>1, <1>2, <1>6, WorkflowShape DEF Frame, IInv
  <2>2. \A i \in 1..Len(Tuple(top.node)) : Tuple(top.node)[i] \in seen
    BY <1>2, <2>1 DEF IInv, FramesPassed
  <2> QED BY <2>2 DEF DepsOf, Entries
<1>8. ASSUME NEW n \in seen, NEW d \in DepsOf(n)
      PROVE  d \in seen
  <2>1. PICK i \in 1..Len(ordered) : ordered[i] = n
    BY DEF IInv, OrderedSeen
  <2>2. PICK j \in 1..Len(ordered) : ordered[j] = d
    BY <2>1 DEF IInv, DepsBefore
  <2> QED BY <2>2 DEF IInv, OrderedSeen
<1>9. ASSUME NEW S \in (SUBSET (seen \cup {top.node})) \ {{}}
      PROVE  \E n \in S : DepsOf(n) \cap S = {}
  <2>1. CASE S \subseteq seen
    BY <2>1 DEF RefusalInv, AcyclicSeen
  <2>2. CASE S = {top.node}
    BY <1>6, <1>7, <2>2
  <2>3. CASE top.node \in S /\ S # {top.node}
    <3> DEFINE rest == S \ {top.node}
    <3>1. rest \in (SUBSET seen) \ {{}}
      BY <2>3
    <3>2. PICK n \in rest : DepsOf(n) \cap rest = {}
      BY <3>1 DEF RefusalInv, AcyclicSeen
    <3>3. DepsOf(n) \subseteq seen
      BY <1>8, <3>1, <3>2
    <3> QED BY <1>6, <3>2, <3>3
  <2> QED BY <2>1, <2>2, <2>3
<1>10. AcyclicSeen'
  <2>1. ASSUME NEW S \in (SUBSET (seen \cup {top.node})) \ {{}}
        PROVE  \E m \in S : DepsOf(m)' \cap S = {}
    BY <1>5, <1>9
  <2> QED BY <1>1, <2>1 DEF AcyclicSeen
<1>11. \A f \in 1..(last - 1) : f \in 1..last /\ f < last
  BY <1>2
<1>12. ASSUME NEW n \in visiting'
       PROVE  \E f \in 1..Len(stack') : stack'[f].node = n
  <2>1. n \in visiting /\ n # top.node
    BY <1>1
  <2>2. PICK f \in 1..last : stack[f].node = n
    BY <2>1 DEF RefusalInv, FramesChain
  <2>3. f \in 1..(last - 1)
    BY <1>2, <2>1, <2>2
  <2> QED BY <1>3, <2>2, <2>3
<1>13. ASSUME NEW f \in 1..(last - 1), f < last - 1, NEW node, node = stack'[f].node
       PROVE  stack'[f + 1].node \in DepsOf(node)'
  <2>1. f + 1 \in 1..(last - 1)
    BY <1>2, <1>13
  <2>2. stack[f + 1].node \in DepsOf(stack[f].node)
    BY <1>11 DEF RefusalInv, FramesChain
  <2>3. stack'[f + 1] = stack[f + 1] /\ stack'[f] = stack[f]
    BY <1>3, <2>1
  <2> QED BY <1>5, <1>13, <2>2, <2>3
<1>14. FramesChain'
  BY <1>3, <1>12, <1>13 DEF FramesChain
<1> QED BY <1>1, <1>4, <1>10, <1>14 DEF RefusalInv

(* A construction is refused exactly for a duplicate name, an unknown        *)
(* dependency or a cycle, whatever the size of the workflow and the order of  *)
(* declaration (the ValueErrors of __init__ and _topo_sort).                *)
THEOREM RefusedIffInvalidHolds == Spec => []RefusedIffInvalid
<1>1. Init => RefusalInv
  BY InitRefusal
<1>2. IInv /\ RefusalInv /\ [Next]_vars => RefusalInv'
  <2> SUFFICES ASSUME IInv, RefusalInv, [Next]_vars PROVE RefusalInv'
    OBVIOUS
  <2>1. CASE RefuseDuplicate \/ RefuseUnknown \/ RefuseCycle
    BY <2>1, FailRefusal
  <2>2. CASE Register
    BY <2>2, RegisterRefusal
  <2>3. CASE CheckDeps \/ NextPhase
    BY <2>3, PhaseRefusal
  <2>4. CASE VisitNext
    BY <2>4, VisitNextRefusal
  <2>5. CASE VisitDep
    BY <2>5, VisitDepRefusal
  <2>6. CASE FinishVisit
    BY <2>6, FinishVisitRefusal
  <2>7. CASE UNCHANGED vars
    <3>1. /\ workflow' = workflow /\ UNCHANGED searchVars /\ pc' = pc /\ k' = k
          /\ registered' = registered
      BY <2>7 DEF vars, searchVars
    <3>2. FramesChain' /\ AcyclicSeen'
      BY <3>1, SameSearch DEF RefusalInv
    <3>3. Registering'
      BY <3>1 DEF RefusalInv, Registering, Declared, Duplicate
    <3>4. Duplicate' = Duplicate /\ Unknown' = Unknown /\ Cyclic' = Cyclic
      BY <3>1 DEF Duplicate, Unknown, Cyclic, Declared, DepsOf, Tuple
    <3> QED BY <3>1, <3>2, <3>3, <3>4 DEF RefusalInv
  <2> QED BY <2>1, <2>2, <2>3, <2>4, <2>5, <2>6, <2>7 DEF Next
<1>3. IInv /\ RefusalInv => RefusedIffInvalid
  <2> SUFFICES ASSUME IInv, RefusalInv PROVE RefusedIffInvalid
    OBVIOUS
  <2>1. ASSUME pc = "done" PROVE ~Duplicate /\ ~Unknown /\ ~Cyclic
    <3>1. seen = Declared
      BY <2>1 DEF IInv, LoopsDone, TypeOK
    <3>2. ~Duplicate
      BY <2>1 DEF RefusalInv, Registering
    <3>3. ~Unknown
      BY <2>1 DEF IInv, LoopsDone, Unknown
    <3>4. ~Cyclic
      BY <3>1 DEF RefusalInv, AcyclicSeen, Cyclic
    <3> QED BY <3>2, <3>3, <3>4
  <2> QED BY <2>1 DEF RefusalInv, RefusedIffInvalid
<1> QED BY <1>1, <1>2, <1>3, Invariance, PTL DEF Spec

-----------------------------------------------------------------------------
(* What is left of a construction.                                         *)

(* The loops to come, the names no call of visit() has reached, the        *)
(* iterations of the loop pc is in, the calls of visit() that are active,  *)
(* and the dependencies the innermost one has not looked at.               *)
Phase     == IF pc = "register" THEN 3
             ELSE IF pc = "check" THEN 2
             ELSE IF pc = "visit" THEN 1 ELSE 0
Unreached == Cardinality(Declared \ (seen \cup visiting))
Ahead     == MaxNodes + 1 - k
DepsAhead == IF HasDep THEN Len(Tuple(Top.node)) + 1 - Top.next ELSE 0

Left  == <<Phase, Unreached, Ahead, Len(stack), DepsAhead>>
Lower == LexProductOrdering(OpToRel(<, Nat), Nat, 5)

(* Every step lowers what is left.                                         *)
Progresses == [][(<<Left', Left>> \in Lower)]_vars

LEMMA LowerAt ==
  ASSUME NEW a \in [1..5 -> Nat], NEW b \in [1..5 -> Nat], NEW j \in 1..5,
         \A i \in 1..(j - 1) : a[i] = b[i],
         a[j] < b[j]
  PROVE  <<a, b>> \in Lower
<1>1. <<a[j], b[j]>> \in OpToRel(<, Nat)
  BY DEF OpToRel
<1>2. QED
  BY <1>1 DEF Lower, LexProductOrdering

LEMMA DeclaredIsFinite ==
  ASSUME TypeOK
  PROVE  /\ IsFiniteSet(Declared)
         /\ \A S : Cardinality(Declared \ S) \in Nat
         /\ \A S : \A n \in Declared \ S :
              Cardinality(Declared \ (S \cup {n})) < Cardinality(Declared \ S)
<1>1. IsFiniteSet(Declared)
  <2>1. workflow.decl \in [1..Len(workflow.decl) -> Declared]
    BY TopoAssumption DEF TopoAssumption, TypeOK, Declared, Entries
  <2>2. workflow.decl \in Surjection(1..Len(workflow.decl), Declared)
    BY <2>1 DEF Surjection, Declared, Entries
  <2>3. QED
    BY <2>2, FS_NatSurjection, WorkflowShape DEF ExistsSurjection
<1>2. ASSUME NEW S PROVE IsFiniteSet(Declared \ S) /\ Cardinality(Declared \ S) \in Nat
  BY <1>1, FS_Subset, FS_CardinalityType
<1>3. ASSUME NEW S, NEW n \in Declared \ S
      PROVE  Cardinality(Declared \ (S \cup {n})) < Cardinality(Declared \ S)
  <2>1. Declared \ (S \cup {n}) = (Declared \ S) \ {n} /\ n \in Declared \ S
    BY <1>3
  <2>2. Cardinality((Declared \ S) \ {n}) = Cardinality(Declared \ S) - 1
    BY <1>2, <2>1, FS_RemoveElement, Zenon
  <2>3. QED
    BY <1>2, <2>1, <2>2
<1>4. QED
  BY <1>1, <1>2, <1>3

LEMMA LeftIsNat == IInv => Left \in [1..5 -> Nat]
<1> SUFFICES ASSUME IInv PROVE Left \in [1..5 -> Nat]
  OBVIOUS
<1>1. Unreached \in Nat
  BY DeclaredIsFinite DEF IInv, Unreached
<1>2. Ahead \in Nat
  BY TopoAssumption DEF TopoAssumption, IInv, TypeOK, Ahead
<1>3. Len(stack) \in Nat
  BY DEF IInv, TypeOK
<1>4. DepsAhead \in Nat
  <2>1. SUFFICES ASSUME HasDep PROVE Len(Tuple(Top.node)) + 1 - Top.next \in Nat
    BY DEF DepsAhead
  <2>2. Len(stack) \in 1..Len(stack) /\ Top \in Frame /\ Top.node \in Declared
    BY <1>3, <2>1 DEF HasDep, Top, IInv, TypeOK, FramesVisiting
  <2>3. Len(Tuple(Top.node)) \in Nat /\ Top.next \in Nat
    BY <2>2, WorkflowShape DEF IInv, Frame
  <2>4. QED
    BY <2>1, <2>3 DEF HasDep
<1>5. QED
  BY <1>1, <1>2, <1>3, <1>4 DEF Left, Phase

LEMMA LeftIsNatNext == (IInv => Left \in [1..5 -> Nat])'
BY LeftIsNat, PTL

(* A loop goes on, or the next one begins, or the construction is refused. *)
LEMMA LoopsLower ==
  ASSUME IInv, IInv',
         \/ Register \/ CheckDeps \/ NextPhase
         \/ RefuseDuplicate \/ RefuseUnknown \/ RefuseCycle
  PROVE  <<Left', Left>> \in Lower
<1>1. Left \in [1..5 -> Nat] /\ Left' \in [1..5 -> Nat]
  BY LeftIsNat, LeftIsNatNext
<1>2. CASE Register \/ CheckDeps
  <2>1. /\ UNCHANGED <<pc, workflow, seen, visiting>> /\ k' = k + 1
        /\ k \in Nat /\ MaxNodes \in Nat
    BY <1>2, WorkflowShape DEF Register, CheckDeps, searchVars, IInv, TypeOK
  <2>2. Phase' = Phase /\ Unreached' = Unreached /\ Ahead' < Ahead
    BY <2>1 DEF Phase, Unreached, Declared, Ahead
  <2>3. QED
    BY <1>1, <2>2, LowerAt, 3 \in 1..5 DEF Left
<1>3. CASE NextPhase \/ RefuseDuplicate \/ RefuseUnknown \/ RefuseCycle
  <2>1. Phase' < Phase
    BY <1>3 DEF NextPhase, RefuseDuplicate, RefuseUnknown, RefuseCycle, HasDep, Fail, Phase
  <2>2. QED
    BY <1>1, <2>1, LowerAt, 1 \in 1..5 DEF Left
<1>4. QED
  BY <1>2, <1>3

(* A call of visit() on a name no other call has reached.                  *)
LEMMA PushLowers ==
  ASSUME IInv, IInv', NEW n \in Declared \ seen, Push(n), UNCHANGED <<pc, workflow, seen>>
  PROVE  <<Left', Left>> \in Lower
<1>1. Left \in [1..5 -> Nat] /\ Left' \in [1..5 -> Nat]
  BY LeftIsNat, LeftIsNatNext
<1>2. n \in Declared \ (seen \cup visiting)
      /\ seen' \cup visiting' = (seen \cup visiting) \cup {n} /\ Declared' = Declared
  BY DEF Push, Declared
<1>3. Unreached' < Unreached /\ Phase' = Phase
  BY <1>2, DeclaredIsFinite DEF IInv, Unreached, Phase
<1>4. QED
  BY <1>1, <1>3, LowerAt, 2 \in 1..5 DEF Left

LEMMA VisitNextLowers ==
  ASSUME IInv, IInv', VisitNext
  PROVE  <<Left', Left>> \in Lower
<1> DEFINE n == workflow.decl[k]
<1>1. Left \in [1..5 -> Nat] /\ Left' \in [1..5 -> Nat]
  BY LeftIsNat, LeftIsNatNext
<1>2. /\ UNCHANGED <<pc, workflow, seen>> /\ k' = k + 1
      /\ k \in Nat /\ MaxNodes \in Nat /\ n \in Declared
  BY LoopEnd, WorkflowShape DEF VisitNext, IInv, Declared, Entries
<1>3. CASE UNCHANGED visiting
  <2>1. Phase' = Phase /\ Unreached' = Unreached /\ Ahead' < Ahead
    BY <1>2, <1>3 DEF Phase, Unreached, Declared, Ahead
  <2>2. QED
    BY <1>1, <2>1, LowerAt, 3 \in 1..5 DEF Left
<1>4. CASE n \notin seen /\ Push(n)
  BY <1>2, <1>4, PushLowers
<1>5. QED
  BY <1>3, <1>4 DEF VisitNext

LEMMA VisitDepLowers ==
  ASSUME IInv, IInv', VisitDep
  PROVE  <<Left', Left>> \in Lower
<1>1. Left \in [1..5 -> Nat] /\ Left' \in [1..5 -> Nat]
  BY LeftIsNat, LeftIsNatNext
<1>2. /\ HasDep /\ UNCHANGED <<pc, workflow, k, seen>>
      /\ stack \in Seq(Frame) /\ stack # <<>>
  BY DEF VisitDep, HasDep, IInv, TypeOK
<1>3. CASE stack' = Advanced /\ UNCHANGED visiting
  <2>1. Len(stack) \in 1..Len(stack) /\ Top \in Frame /\ Top.node \in Declared
    BY <1>2 DEF Top, IInv, TypeOK, FramesVisiting
  <2>2. /\ Len(stack') = Len(stack) /\ stack' # <<>>
        /\ Top' = [node |-> Top.node, next |-> Top.next + 1]
    BY <1>2, <1>3, <2>1 DEF Advanced, Top
  <2>3. /\ Top.next \in Nat /\ Len(Tuple(Top.node)) \in Nat
        /\ Top'.node = Top.node /\ Top'.next = Top.next + 1
        /\ Tuple(Top.node)' = Tuple(Top.node)
    BY <1>2, <2>1, <2>2, WorkflowShape DEF IInv, Frame, Tuple
  <2>4. DepsAhead' < DepsAhead
    BY <1>2, <2>2, <2>3 DEF DepsAhead, HasDep, Tuple
  <2>5. Phase' = Phase /\ Unreached' = Unreached /\ Ahead' = Ahead
    BY <1>2, <1>3 DEF Phase, Unreached, Declared, Ahead
  <2>6. QED
    BY <1>1, <2>2, <2>4, <2>5, LowerAt, 5 \in 1..5 DEF Left
<1>4. CASE NextDep \notin seen /\ Push(NextDep)
  <2>1. NextDep \in Declared
    BY <1>2, <1>4 DEF Push, IInv, TypeOK, Declared
  <2>2. QED
    BY <1>2, <1>4, <2>1, PushLowers
<1>5. QED
  BY <1>3, <1>4 DEF VisitDep

LEMMA FinishVisitLowers ==
  ASSUME IInv, IInv', FinishVisit
  PROVE  <<Left', Left>> \in Lower
<1>1. Left \in [1..5 -> Nat] /\ Left' \in [1..5 -> Nat]
  BY LeftIsNat, LeftIsNatNext
<1>2. /\ stack \in Seq(Frame) /\ stack # <<>> /\ UNCHANGED <<pc, workflow, k>>
      /\ stack' = SubSeq(stack, 1, Len(stack) - 1)
      /\ visiting' = visiting \ {Top.node} /\ seen' = seen \cup {Top.node}
  BY DEF FinishVisit, IInv, TypeOK
<1>3. Len(stack) \in 1..Len(stack) /\ Top.node \in visiting
  BY <1>2 DEF Top, IInv, FramesVisiting
<1>4. Len(stack') < Len(stack)
  BY <1>2, PopOne
<1>5. seen' \cup visiting' = seen \cup visiting
  BY <1>2, <1>3
<1>6. Phase' = Phase /\ Unreached' = Unreached /\ Ahead' = Ahead
  BY <1>2, <1>5 DEF Phase, Unreached, Declared, Ahead
<1>7. QED
  BY <1>1, <1>4, <1>6, LowerAt, 4 \in 1..5 DEF Left

(* No construction goes on for ever, on cyclic graphs neither: every step  *)
(* of __init__ and of the recursion of visit() lowers what is left of it in*)
(* a well-founded order.                                                   *)
THEOREM ConstructionRunsOut ==
  /\ IsWellFoundedOn(Lower, [1..5 -> Nat])
  /\ Spec => [](Left \in [1..5 -> Nat]) /\ Progresses
<1>1. IsWellFoundedOn(Lower, [1..5 -> Nat])
  BY NatLessThanWellFounded, WFLexProductOrdering DEF Lower
<1>2. ASSUME IInv, IInv', Next PROVE <<Left', Left>> \in Lower
  BY <1>2, LoopsLower, VisitNextLowers, VisitDepLowers, FinishVisitLowers DEF Next
<1>3. QED
  BY <1>1, <1>2, LeftIsNat, Invariance, PTL DEF Spec, Progresses

=============================================================================
