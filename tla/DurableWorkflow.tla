--------------------------- MODULE DurableWorkflow ----------------------------
(***************************************************************************)
(* What orchestration/dag.py promises the caller of execute(), as seen in  *)
(* the DagRun values it returns: progress is a set of done nodes that is   *)
(* closed under dependencies and only grows; a run stops at a gate that is *)
(* not done, any number of times; it ends once, and a run that ended is    *)
(* never reopened.  Nothing is said of attempts, retries, threads or of    *)
(* calls that raise.                                                       *)
(***************************************************************************)
CONSTANTS Node, Deps, GateNode, NoNode

VARIABLES
  status, \* status of the last DagRun, "NONE" before the first
  done,   \* nodes in its checkpoint
  gate    \* its pending gate, or NoNode

abstractVars == <<status, done, gate>>

Open == {"NONE", "PAUSED"}
DependencyClosed(S) == \A n \in S : Deps[n] \subseteq S

Init == status = "NONE" /\ done = {} /\ gate = NoNode

(* Progress made by one call: more nodes, still closed under dependencies. *)
Progress ==
  /\ status \in Open
  /\ done \subseteq done'
  /\ done' \subseteq Node
  /\ DependencyClosed(done')

Pause ==
  /\ Progress
  /\ status' = "PAUSED"
  /\ gate' \in GateNode \ done'
  /\ Deps[gate'] \subseteq done'

Complete ==
  /\ Progress
  /\ done' = Node
  /\ status' = "SUCCEEDED"
  /\ gate' = NoNode

Abort ==
  /\ Progress
  /\ done' # Node
  /\ status' \in {"FAILED", "COMPENSATED"}
  /\ gate' = NoNode

Next == Pause \/ Complete \/ Abort

Spec == Init /\ [][Next]_abstractVars
=============================================================================
