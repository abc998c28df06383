---------------------------- MODULE MCDagExecutor -----------------------------
(***************************************************************************)
(* A small workflow for DagExecutor: a planning step whose output          *)
(* decides whether the gate asks, the gate, a compensable write with a     *)
(* timeout, a second gate that also has a body, and a final check that is  *)
(* retried and has a timeout.                                              *)
(***************************************************************************)
EXTENDS DagExecutor

CONSTANTS plan, gate, apply, signoff, check

MCNode        == {plan, gate, apply, signoff, check}
MCOrder       == <<plan, gate, apply, signoff, check>>
MCDeps        == [n \in MCNode |->
                    CASE n = plan    -> {}
                      [] n = gate    -> {plan}
                      [] n = apply   -> {gate}
                      [] n = signoff -> {apply}
                      [] n = check   -> {apply, signoff}]
MCGateNode    == {gate, signoff}
MCGateInput   == [g \in MCGateNode |-> IF g = gate THEN plan ELSE signoff]
MCBodyless    == {gate}
MCMaxAttempts == [n \in MCNode |-> IF n = check THEN 2 ELSE 1]
MCTimed       == {apply, check}
MCCompensable == {plan, apply}
=============================================================================
