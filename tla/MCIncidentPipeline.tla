------------------------- MODULE MCIncidentPipeline ---------------------------
(***************************************************************************)
(* The golden scenarios and the incidents that differ from them in one      *)
(* respect, and the tasks a live model answers.                            *)
(***************************************************************************)
EXTENDS IncidentPipeline

Hostile == {"hostile"}

(* The first message of the incident channel is an injection.               *)
PoisonedThread ==
  [Canonical EXCEPT !.id = "thread", !.snap.slack = <<Hostile>>]

(* The title of the commit is: it is withheld, and nothing else explains.    *)
PoisonedCommit ==
  [Canonical EXCEPT !.id = "commit", !.snap.title = @ \cup Hostile,
                    !.truth = Undiagnosable]

(* The rollback does not help.                                             *)
Relapse ==
  [PaymentsRegression EXCEPT !.id = "relapse", !.truth.outcome = "escalated",
     !.snap.post = <<Sample(At(11, 40), 1890), Sample(At(11, 45), 301)>>]

(* Outside prod, without a slack connector.                                 *)
Staging ==
  [CertExpiry EXCEPT !.id = "staging", !.environment = "staging",
                     !.registered = @ \ {"slack"}]

(* Outside prod, a deploy to roll back.                                      *)
StagedRegression ==
  [PaymentsRegression EXCEPT !.id = "staged", !.environment = "staging"]

MCWorlds ==
  AllScenarios \cup {PoisonedThread, PoisonedCommit, Relapse, Staging, StagedRegression}
GraphWorlds == {Canonical, UncorrelatedLatency, RevertedPool, Staging}
MCLiveTasks == {{}, {"investigate"}, {"root_cause", "plan"}}
MCCases == (MCWorlds \X {"dag"} \X MCLiveTasks)
             \cup (GraphWorlds \X {"langgraph"} \X MCLiveTasks)
MCBogusShas == {"beefbee"}

(* The case of the run that ends in a violation.                            *)
LiveDiagnostician == {<<RevertedPool, "dag", {"root_cause"}>>}
=============================================================================
