---------------------------- MODULE MCSharedClients ----------------------------
(***************************************************************************)
(* The whole workflow on one thread, and with it an investigation that was   *)
(* given up.                                                               *)
(***************************************************************************)
EXTENDS SharedClients, TLC

CONSTANTS main, late

Deploys(agent) == CallTool("list_recent_deploys", "service", agent)
Metrics(window, agent) == CallTool("query_metrics", window, agent)
RollBack(principal) == CallTool("rollback_deployment", "revision", principal)

Workflow ==
  <<Metrics("incident", "knowledge"), Deploys("planner"), Metrics("incident", "reviewer"),
    RollBack("executor"), Metrics("post-remediation", "verifier")>>

Threadwise(mine, other) == (main :> mine) @@ (late :> other)
Case(ops, backends) == [program |-> ops, chain |-> backends]

MCChains == {<<"offline">>, <<"ollama", "offline">>, <<"ollama">>}

Again(n) == [i \in 1..n |-> Metrics("incident", "knowledge")]

MCCases ==
  { Case(Threadwise(Workflow, <<Metrics("incident", "knowledge")>>), <<"offline">>),
    Case(Threadwise(Again(3), Again(2)), <<"offline">>),
    Case(Threadwise(<<RollBack("planner")>>, <<CallTool("delete", "all", "x")>>),
         <<"offline">>) }
  \cup {Case(Threadwise(<<Complete, Complete>>, <<Complete, Complete>>), backends) :
          backends \in MCChains}
=============================================================================
