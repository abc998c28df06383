------------------------------- MODULE TopoSort -------------------------------
(***************************************************************************)
(* Building a DagExecutor: __init__ registers the nodes by name and        *)
(* _topo_sort orders them by depth-first search (orchestration/dag.py).    *)
(* The recursion of visit() is an explicit stack of frames; a frame knows  *)
(* its node and the dependency it looks at next.  A ValueError ends the    *)
(* construction.                                                           *)
(***************************************************************************)
EXTENDS Naturals, Sequences

CONSTANTS
  Name,      \* names a node or a dependency can have
  Workflows, \* the workflows explored: records [decl, deps]
  MaxNodes   \* bound: nodes a workflow declares

(* A workflow as its author wrote it: decl is the list of node names, and  *)
(* deps[i] the dependency tuple of the i-th node.                          *)
ASSUME TopoAssumption ==
  /\ MaxNodes \in Nat
  /\ \A w \in Workflows :
       /\ w.decl \in Seq(Name)
       /\ Len(w.decl) <= MaxNodes
       /\ w.deps \in [1..Len(w.decl) -> Seq(Name)]

VARIABLES
  workflow,   \* the constructor's argument
  pc,         \* "register", "check", "visit", "done" or "error"
  k,          \* index of the for loop that pc is in
  registered, \* keys of self._by_name
  stack,      \* active calls of visit(), outermost first
  visiting,   \* names being visited
  seen,       \* names visited
  ordered     \* the result so far

vars == <<workflow, pc, k, registered, stack, visiting, seen, ordered>>

TupleIn(w, n) == w.deps[CHOOSE i \in 1..Len(w.decl) : w.decl[i] = n]
Entries(s) == {s[i] : i \in 1..Len(s)}
Tuple(n)  == TupleIn(workflow, n)
DepsOf(n) == Entries(Tuple(n))
Declared  == Entries(workflow.decl)

Frame == [node : Name, next : Nat \ {0}]
Top   == stack[Len(stack)]
More  == k <= Len(workflow.decl)

TypeOK ==
  /\ workflow \in Workflows
  /\ pc \in {"register", "check", "visit", "done", "error"}
  /\ k \in 1..(MaxNodes + 1)
  /\ registered \subseteq Declared
  /\ stack \in Seq(Frame)
  /\ visiting \subseteq Declared
  /\ seen \subseteq Declared
  /\ ordered \in Seq(Name)

Init ==
  /\ workflow \in Workflows
  /\ pc = "register"
  /\ k = 1
  /\ registered = {} /\ stack = <<>> /\ visiting = {} /\ seen = {} /\ ordered = <<>>

searchVars == <<stack, visiting, seen, ordered>>
Fail == pc' = "error" /\ UNCHANGED <<workflow, k, registered, searchVars>>

(* __init__: duplicate names are refused.                                  *)
Register ==
  /\ pc = "register" /\ More
  /\ workflow.decl[k] \notin registered
  /\ registered' = registered \cup {workflow.decl[k]}
  /\ k' = k + 1
  /\ UNCHANGED <<workflow, pc, searchVars>>

RefuseDuplicate ==
  /\ pc = "register" /\ More
  /\ workflow.decl[k] \in registered
  /\ Fail

(* Fault: dependencies are not looked up.                                  *)
CheckNothing ==
  /\ pc = "check" /\ More
  /\ k' = k + 1
  /\ UNCHANGED <<workflow, pc, registered, searchVars>>

(* The first loop of _topo_sort: unknown dependencies are refused.         *)
CheckDeps ==
  /\ pc = "check" /\ More
  /\ DepsOf(workflow.decl[k]) \subseteq registered
  /\ k' = k + 1
  /\ UNCHANGED <<workflow, pc, registered, searchVars>>

RefuseUnknown ==
  /\ pc = "check" /\ More
  /\ ~(DepsOf(workflow.decl[k]) \subseteq registered)
  /\ Fail

(* Fault: the next loop starts where the previous one ended.               *)
NextPhaseNoReset ==
  /\ ~More
  /\ stack = <<>>
  /\ \/ pc = "register" /\ pc' = "check"
     \/ pc = "check"    /\ pc' = "visit"
     \/ pc = "visit"    /\ pc' = "done"
  /\ UNCHANGED <<workflow, k, registered, searchVars>>

NextPhase ==
  /\ ~More
  /\ stack = <<>>
  /\ \/ pc = "register" /\ pc' = "check"
     \/ pc = "check"    /\ pc' = "visit"
     \/ pc = "visit"    /\ pc' = "done"
  /\ k' = 1
  /\ UNCHANGED <<workflow, registered, searchVars>>

(* visit(n) for a node that is neither seen nor being visited.             *)
Push(n) ==
  /\ n \notin visiting
  /\ visiting' = visiting \cup {n}

VisitNext ==
  /\ pc = "visit" /\ More /\ stack = <<>>
  /\ LET n == workflow.decl[k] IN
       \/ n \in seen /\ UNCHANGED <<stack, visiting>>
       \/ n \notin seen /\ Push(n) /\ stack' = <<[node |-> n, next |-> 1]>>
  /\ k' = k + 1
  /\ UNCHANGED <<workflow, pc, registered, seen, ordered>>

HasDep  == pc = "visit" /\ stack # <<>> /\ Top.next <= Len(Tuple(Top.node))
NextDep == Tuple(Top.node)[Top.next]
Advanced == [stack EXCEPT ![Len(stack)] = [node |-> Top.node, next |-> Top.next + 1]]

(* Fault: a node being visited counts as visited, so a cycle passes.       *)
VisitDepThroughCycle ==
  /\ HasDep
  /\ \/ /\ NextDep \in seen \cup visiting
        /\ stack' = Advanced
        /\ UNCHANGED visiting
     \/ /\ NextDep \notin seen
        /\ Push(NextDep)
        /\ stack' = Append(Advanced, [node |-> NextDep, next |-> 1])
  /\ UNCHANGED <<workflow, pc, k, registered, seen, ordered>>

(* Fault: a dependency that was visited before is looked at again.         *)
VisitDepAgain ==
  /\ HasDep
  /\ NextDep \notin seen
  /\ Push(NextDep)
  /\ stack' = Append(Advanced, [node |-> NextDep, next |-> 1])
  /\ UNCHANGED <<workflow, pc, k, registered, seen, ordered>>

VisitDep ==
  /\ HasDep
  /\ \/ NextDep \in seen /\ stack' = Advanced /\ UNCHANGED visiting
     \/ /\ NextDep \notin seen
        /\ Push(NextDep)
        /\ stack' = Append(Advanced, [node |-> NextDep, next |-> 1])
  /\ UNCHANGED <<workflow, pc, k, registered, seen, ordered>>

(* Fault: reaching a node twice is taken for a cycle.                      *)
RefuseRevisit ==
  /\ HasDep
  /\ NextDep \in visiting \cup seen
  /\ Fail

RefuseCycle ==
  /\ HasDep
  /\ NextDep \notin seen
  /\ NextDep \in visiting
  /\ Fail

FinishVisit ==
  /\ pc = "visit" /\ stack # <<>>
  /\ Top.next > Len(Tuple(Top.node))
  /\ visiting' = visiting \ {Top.node}
  /\ seen' = seen \cup {Top.node}
  /\ ordered' = Append(ordered, Top.node)
  /\ stack' = SubSeq(stack, 1, Len(stack) - 1)
  /\ UNCHANGED <<workflow, pc, k, registered>>

Next ==
  \/ Register
  \/ RefuseDuplicate
  \/ CheckDeps
  \/ RefuseUnknown
  \/ NextPhase
  \/ VisitNext
  \/ VisitDep
  \/ RefuseCycle
  \/ FinishVisit

Spec     == Init /\ [][Next]_vars
FairSpec == Spec /\ WF_vars(Next)

-----------------------------------------------------------------------------
(* Properties.                                                             *)

(* Every node in the result stands after all of its dependencies, at every *)
(* moment of the search; execute() relies on it for running dependencies   *)
(* first.                                                                  *)
DepsBefore ==
  \A i \in 1..Len(ordered) : \A d \in DepsOf(ordered[i]) :
    \E j \in 1..Len(ordered) : j < i /\ ordered[j] = d

(* The finished order has every declared node, once.                       *)
CompleteOrder ==
  pc = "done" =>
    /\ Entries(ordered) = Declared
    /\ \A i, j \in 1..Len(ordered) : ordered[i] = ordered[j] => i = j

(* A workflow is refused exactly when it has a duplicate name, an unknown  *)
(* dependency or a dependency cycle, whatever the order of declaration.    *)
Duplicate == \E i, j \in 1..Len(workflow.decl) :
               i # j /\ workflow.decl[i] = workflow.decl[j]
Unknown   == \E n \in Declared : ~(DepsOf(n) \subseteq Declared)
Cyclic    == \E S \in (SUBSET Declared) \ {{}} : \A n \in S : DepsOf(n) \cap S # {}
RefusedIffInvalid ==
  /\ pc = "error" => Duplicate \/ Unknown \/ Cyclic
  /\ pc = "done"  => ~(Duplicate \/ Unknown \/ Cyclic)

(* The inductive invariant behind DepsBefore and CompleteOrder: the frames *)
(* are the names being visited, none of them finished; the dependencies a  *)
(* frame has passed are finished, or are what the next frame visits; the   *)
(* loops have dealt with what stands before k.                             *)
FramesVisiting ==
  /\ \A f \in 1..Len(stack) : stack[f].node \in visiting
  /\ \A f, g \in 1..Len(stack) : stack[f].node = stack[g].node => f = g
  /\ visiting \cap seen = {}
FramesPassed ==
  \A f \in 1..Len(stack) : \A i \in 1..Len(Tuple(stack[f].node)) :
    i < stack[f].next =>
      \/ Tuple(stack[f].node)[i] \in seen
      \/ f < Len(stack) /\ Tuple(stack[f].node)[i] = stack[f + 1].node
OrderedSeen ==
  /\ \A i \in 1..Len(ordered) : ordered[i] \in seen
  /\ \A n \in seen : \E i \in 1..Len(ordered) : ordered[i] = n
  /\ \A i, j \in 1..Len(ordered) : ordered[i] = ordered[j] => i = j
LoopsDone ==
  /\ pc = "check" => \A i \in 1..Len(workflow.decl) :
       i < k => DepsOf(workflow.decl[i]) \subseteq Declared
  /\ pc \in {"visit", "done"} => \A n \in Declared : DepsOf(n) \subseteq Declared
  /\ pc = "visit" => \A i \in 1..Len(workflow.decl) : i < k =>
       \/ workflow.decl[i] \in seen
       \/ stack # <<>> /\ workflow.decl[i] = stack[1].node
  /\ pc = "done" => Declared \subseteq seen
  /\ pc \in {"register", "check", "done"} => stack = <<>>
IInv ==
  /\ TypeOK
  /\ FramesVisiting
  /\ FramesPassed
  /\ OrderedSeen
  /\ LoopsDone
  /\ DepsBefore

(* Construction always comes to an end, also on cyclic graphs.             *)
Terminates == <>(pc \in {"done", "error"})
=============================================================================
