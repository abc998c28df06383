--------------------------- MODULE IncidentPipeline ---------------------------
(***************************************************************************)
(* One incident through the agents, from the alert to the postmortem        *)
(* (workflows/incident_remediation.py), under either driver: the DAG        *)
(* executor, or the LangGraph of integrations/langgraph_workflow.py.  What  *)
(* DagExecutor leaves abstract, the bodies of the nodes, is here; retries,  *)
(* timeouts and the writes one by one are in DagExecutor and                *)
(* IncidentRemediation.                                                    *)
(*                                                                         *)
(* A model backend is the deterministic offline one, or for the tasks in    *)
(* live a live model that may reply anything.                              *)
(***************************************************************************)
EXTENDS PlanAdmission

CONSTANTS Cases,        \* the incidents: a world, a driver, the live tasks
          MaxUpsets     \* bound: arbitrary decisions in one investigation, and
                        \* connector calls that end in TransientError

Drivers == {"dag", "langgraph"}
LiveTasks == {"investigate", "root_cause", "plan"}

IsList(s) == s \in Seq(Range(s))

(* What build_environment registers, the order of a time series, what is a   *)
(* list; and no document of the corpus is of the kind of a commit.          *)
WorldOK(world) ==
  /\ {"github", "kubernetes"} \subseteq world.registered
  /\ LET p99 == world.snap.p99
     IN  \A i, j \in DOMAIN p99 :
           /\ i \in Nat /\ p99[i].ts \in Nat
           /\ i <= j => p99[i].ts <= p99[j].ts
  /\ world.snap.deployedAt \in Nat
  /\ IsSha(world.snap.sha) /\ world.snap.sha # NoSha
  /\ IsList(world.guidance) /\ IsList(world.episodes)
  /\ \A i \in DOMAIN world.guidance : world.guidance[i].kind # "commit"

ASSUME PipelineAssumption ==
  /\ \A case \in Cases :
       WorldOK(case[1]) /\ case[2] \in Drivers /\ case[3] \subseteq LiveTasks
  /\ MaxUpsets \in Nat

VARIABLES
  world, driver, live,    \* chosen once
  node,         \* the node about to run, or how the run ended
  error,        \* the PermanentError of a run that failed
  k,            \* the bundle and the state of the investigation
  rca,          \* ctx.results["root_cause"]
  plan,         \* ctx.results["planner"]
  verdict,      \* ctx.params["policy_verdict"]
  decision,     \* the human's answer at the gate: "none", "approved", "denied"
  executed,     \* ctx.params["executed"], less what was undone
  learned,      \* episodes added to memory
  postmortem,   \* the document, or none
  upsets        \* arbitrary decisions and failed calls so far

choice == <<world, driver, live>>
vars == <<choice, node, error, k, rca, plan, verdict, decision, executed,
          learned, postmortem, upsets>>

Service == TriageOf(world).service
NoResult == [status |-> "none"]

Init ==
  /\ \E case \in Cases : /\ world = case[1]
                         /\ driver = case[2]
                         /\ live = case[3]
  /\ node = "triage"
  /\ error = "none"
  /\ k = Opening(<<>>)
  /\ rca = NoResult
  /\ plan = [steps |-> <<>>, confident |-> FALSE]
  /\ verdict = [allowed |-> FALSE, requiresApproval |-> TRUE, tier |-> 0]
  /\ decision = "none"
  /\ executed = <<>>
  /\ learned = <<>>
  /\ postmortem = {}
  /\ upsets = 0

(* A PermanentError fails a DAG run; LangGraph catches that of a review and  *)
(* lets the others out of the graph.                                       *)
Escalate(reason) ==
  /\ error' = reason
  /\ node' = IF driver = "dag" THEN "failed"
             ELSE IF node = "review" THEN "escalated" ELSE "raised"

Triage ==
  /\ node = "triage"
  /\ k' = Opening(TriageOf(world).evidence)
  /\ node' = "gather_evidence"
  /\ UNCHANGED <<choice, error, rca, plan, verdict, decision, executed, learned,
                 postmortem, upsets>>

Gathering == node = "gather_evidence" /\ k.ended = "no" /\ k.steps < MaxSteps

(* One iteration of the investigation, under the decision of a model.       *)
Act(action, arg, whims) ==
  /\ upsets + whims <= MaxUpsets
  /\ \E fails \in BOOLEAN :
       /\ fails => /\ upsets + whims < MaxUpsets
                   /\ action \in Menu /\ MayFail(world, action, arg)
                   /\ <<action, arg>> \notin k.called
       /\ k' = Take(world, k, action, arg, fails)
       /\ upsets' = upsets + whims + IF fails THEN 1 ELSE 0
  /\ UNCHANGED <<choice, node, error, rca, plan, verdict, decision, executed,
                 learned, postmortem>>

OfflineDecides ==
  /\ Gathering
  /\ Act(OfflineDecision(k)[1], OfflineDecision(k)[2], 0)

LiveDecides ==
  /\ Gathering
  /\ "investigate" \in live
  /\ \E d \in LiveDecisions(world) : Act(d[1], d[2], 1)

(* Two replies in a row that are no decision: the rest is scripted.          *)
FallBack ==
  /\ Gathering
  /\ "investigate" \in live /\ upsets < MaxUpsets
  /\ k' = [k EXCEPT !.ended = "falling back"]
  /\ upsets' = upsets + 1
  /\ UNCHANGED <<choice, node, error, rca, plan, verdict, decision, executed,
                 learned, postmortem>>

Scripted == node = "gather_evidence" /\ k.ended = "falling back"

FallBackCall ==
  /\ Scripted /\ ~Covered(k)
  /\ LET action == BaselineCall(k)[1]
         arg == BaselineCall(k)[2]
     IN  \E fails \in BOOLEAN :
           /\ fails => upsets < MaxUpsets /\ MayFail(world, action, arg)
           /\ k' = Perform(world, k, action, arg, fails)
           /\ upsets' = upsets + IF fails THEN 1 ELSE 0
  /\ UNCHANGED <<choice, node, error, rca, plan, verdict, decision, executed,
                 learned, postmortem>>

FallBackEnds ==
  /\ Scripted /\ Covered(k)
  /\ k' = [k EXCEPT !.ended = "fallback"]
  /\ UNCHANGED <<choice, node, error, rca, plan, verdict, decision, executed,
                 learned, postmortem, upsets>>

StopGathering ==
  /\ node = "gather_evidence" /\ ~Gathering /\ ~Scripted
  /\ k' = Recall(world, k)
  /\ node' = "security_screen"
  /\ UNCHANGED <<choice, error, rca, plan, verdict, decision, executed, learned,
                 postmortem, upsets>>

SecurityScreen ==
  /\ node = "security_screen"
  /\ k' = [k EXCEPT !.evidence = Screened(@)]
  /\ node' = "diagnose"
  /\ UNCHANGED <<choice, error, rca, plan, verdict, decision, executed, learned,
                 postmortem, upsets>>

(* A hallucinated citation escalates; LangGraph routes an insufficient       *)
(* diagnosis itself, the DAG leaves it to the planner.                     *)
Diagnose ==
  /\ node = "diagnose"
  /\ \E hyp \in {OfflineHypothesis(k.evidence)}
                \cup IF "root_cause" \in live
                     THEN LiveHypotheses(world, k.evidence) ELSE {} :
       IF Hallucinated(k.evidence, hyp) # {}
       THEN Escalate("hallucinated citation") /\ UNCHANGED rca
       ELSE LET found == Diagnosis(k.evidence, hyp)
            IN  /\ rca' = found
                /\ node' = IF driver = "langgraph" /\ found.status # "diagnosed"
                           THEN "escalated" ELSE "plan"
                /\ UNCHANGED error
  /\ UNCHANGED <<choice, k, plan, verdict, decision, executed, learned,
                 postmortem, upsets>>

(* Either of two replies that compile is the plan; after two that do not,    *)
(* the plan of the class is.                                               *)
Adopt(steps, selfEstimate) ==
  /\ plan' = [steps |-> steps,
              confident |-> AtLeast(<<selfEstimate * rca.confidence[1],
                                      100 * rca.confidence[2]>>, 80)]
  /\ node' = "review"
  /\ UNCHANGED error

Plan ==
  /\ node = "plan"
  /\ LET previous == PreviousRevision(world, "unknown")
         offline == OfflinePlan(Service, previous, rca)
         fallback == FallbackPlan(Service, previous, rca)
     IN  IF rca.status # "diagnosed"
         THEN Escalate("no diagnosis") /\ UNCHANGED plan
         ELSE \/ Compilable(world, offline) /\ Adopt(Compiled(offline), 90)
              \/ /\ "plan" \in live
                 /\ \E steps \in LiveProposals(world), selfEstimate \in {50, 99} :
                      Compilable(world, steps) /\ Adopt(Compiled(steps), selfEstimate)
              \/ /\ "plan" \in live \/ ~Compilable(world, offline)
                 /\ IF HasFallbackPlan(rca) THEN Adopt(fallback, 90)
                    ELSE Escalate("no remediation") /\ UNCHANGED plan
  /\ UNCHANGED <<choice, k, rca, verdict, decision, executed, learned,
                 postmortem, upsets>>

Review ==
  /\ node = "review"
  /\ IF ReviewPasses(world, Service, rca, plan.steps)
     THEN /\ node' = IF driver = "dag" THEN "policy_check" ELSE "approval_gate"
          /\ UNCHANGED error
     ELSE Escalate("review")
  /\ UNCHANGED <<choice, k, rca, plan, verdict, decision, executed, learned,
                 postmortem, upsets>>

PolicyCheck ==
  /\ node = "policy_check"
  /\ LET judged == EvaluatePlan(StepCatalog, plan.steps, world.environment,
                                plan.confident)
     IN  IF judged.allowed
         THEN verdict' = judged /\ node' = "approval_gate" /\ UNCHANGED error
         ELSE Escalate("policy") /\ UNCHANGED verdict
  /\ UNCHANGED <<choice, k, rca, plan, decision, executed, learned, postmortem,
                 upsets>>

(* Fault: a verdict of the first tier runs without its human.               *)
GateNeededAboveFirstTier == driver = "langgraph" \/ verdict.tier > 1

(* The gate of the DAG is needed when the verdict says so; the interrupt of  *)
(* LangGraph always waits for a human.                                     *)
GateNeeded == driver = "langgraph" \/ verdict.requiresApproval

PassGate ==
  /\ node = "approval_gate" /\ ~GateNeeded
  /\ node' = "execute"
  /\ UNCHANGED <<choice, error, k, rca, plan, verdict, decision, executed,
                 learned, postmortem, upsets>>

Approve ==
  /\ node = "approval_gate" /\ GateNeeded
  /\ decision' = "approved"
  /\ node' = "execute"
  /\ UNCHANGED <<choice, error, k, rca, plan, verdict, executed, learned,
                 postmortem, upsets>>

Deny ==
  /\ node = "approval_gate" /\ GateNeeded
  /\ decision' = "denied"
  /\ node' = IF driver = "dag" THEN "failed" ELSE "denied"
  /\ error' = "denied"
  /\ UNCHANGED <<choice, k, rca, plan, verdict, executed, learned, postmortem,
                 upsets>>

(* LangGraph's execute node only sets the status.                           *)
Execute ==
  /\ node = "execute"
  /\ executed' = IF driver = "dag" THEN plan.steps ELSE <<>>
  /\ node' = IF driver = "dag" THEN "verify" ELSE "remediated"
  /\ UNCHANGED <<choice, error, k, rca, plan, verdict, decision, learned,
                 postmortem, upsets>>

P99Baseline == 300

Recovered(after) == Last(after.series).ms <= P99Baseline /\ after.oomkilled = 0

(* A failed verification undoes every executed step that left a descriptor.  *)
Verify ==
  /\ node = "verify"
  /\ IF Recovered(Datadog(world.snap, "post-remediation"))
     THEN node' = "learn" /\ UNCHANGED <<error, executed>>
     ELSE /\ Escalate("verification")
          /\ executed' = SelectSeq(executed, LAMBDA s : UndoOf(s.action) = "none")
  /\ UNCHANGED <<choice, k, rca, plan, verdict, decision, learned, postmortem,
                 upsets>>

Learn ==
  /\ node = "learn"
  /\ learned' = Append(learned,
                  [service |-> Service, class |-> rca.class, verified |-> TRUE,
                   remediation |-> [i \in DOMAIN plan.steps |-> plan.steps[i].action]])
  /\ node' = "postmortem"
  /\ UNCHANGED <<choice, error, k, rca, plan, verdict, decision, executed,
                 postmortem, upsets>>

(* The document lists what follows and every item, withholding the hostile;  *)
(* the store of runbooks takes it in.                                      *)
FollowUps ==
  {"merge the revert" : i \in {j \in DOMAIN executed :
                                 executed[j].action = "create_revert_pr"}}
    \cup {rca.class : c \in {rca.class} \cap {"deploy-regression/memory",
                                              "cert-expiry/tls"}}

WritePostmortem ==
  /\ node = "postmortem"
  /\ postmortem' = {[followUps |-> FollowUps,
                     approval |-> verdict.tier,
                     shown |-> {i \in DOMAIN k.evidence :
                                  k.evidence[i].class # "QUARANTINED"}]}
  /\ node' = "succeeded"
  /\ UNCHANGED <<choice, error, k, rca, plan, verdict, decision, executed,
                 learned, upsets>>

Ended ==
  node \in {"succeeded", "failed", "escalated", "raised", "denied", "remediated"}

Work ==
  \/ Triage \/ OfflineDecides \/ LiveDecides
  \/ FallBack \/ FallBackCall \/ FallBackEnds \/ StopGathering
  \/ SecurityScreen \/ Diagnose \/ Plan \/ Review \/ PolicyCheck
  \/ PassGate \/ Execute \/ Verify \/ Learn \/ WritePostmortem

Next == Work \/ Approve \/ Deny

Spec == Init /\ [][Next]_vars

(* The executor and the graph run the next node; the human at the gate owes  *)
(* no answer.                                                              *)
FairSpec == Spec /\ WF_vars(Work)
-----------------------------------------------------------------------------
(***************************************************************************)
(* The row evals/harness.py makes of a finished run.                        *)
(***************************************************************************)
Escalations == {"no diagnosis", "no remediation", "review", "verification"}

Outcome ==
  IF node \in {"succeeded", "remediated"} THEN "remediated"
  ELSE IF error \in Escalations \/ node = "escalated" THEN "escalated"
  ELSE "failed"

Predicted ==
  IF rca.status = "diagnosed" THEN [class |-> rca.class, commit |-> rca.suspect]
                              ELSE [class |-> "none", commit |-> NoSha]

PlannedActions == [i \in DOMAIN plan.steps |-> plan.steps[i].action]

OutcomeCorrect == Outcome = world.truth.outcome

RowCorrect ==
  /\ OutcomeCorrect
  /\ Predicted = [class |-> world.truth.class, commit |-> world.truth.commit]
  /\ PlannedActions = world.truth.steps
-----------------------------------------------------------------------------
(***************************************************************************)
(* Properties.                                                             *)
(***************************************************************************)

(* The golden set: with the offline backend and no failing connector, every  *)
(* scenario whose gates are approved reaches its adjudicated outcome, and   *)
(* the diagnosable ones its class, commit and steps (harness.py run_scenario *)
(* and the verdict evals/__main__.py prints).                              *)
GoldenOutcomes ==
  Ended /\ live = {} /\ upsets = 0 /\ decision # "denied" /\ driver = "dag"
    => IF world.truth.class = "none" THEN OutcomeCorrect ELSE RowCorrect

(* Whatever a live model replied, at the gate: no write is outside the menu  *)
(* of a registered connector or off the incident's service; the (first)     *)
(* rollback goes to the revision before a deploy that preceded the first    *)
(* latency breach; and if the diagnosis names a commit, that is one the     *)
(* agents inspected and, for a memory regression, its diff raises a limit.  *)
GroundedAtTheGate ==
  LET breached(i) == world.snap.p99[i].ms > 2 * world.snap.p99[1].ms
      rollbacks == {i \in DOMAIN plan.steps :
                      plan.steps[i].action = "rollback_deployment"}
  IN  node \in {"approval_gate", "execute", "verify", "learn", "postmortem"} =>
        /\ rca.status = "diagnosed" /\ plan.steps # <<>>
        /\ \A i \in DOMAIN plan.steps :
             /\ \E system \in world.registered :
                  /\ plan.steps[i].action \in DOMAIN Tools[system]
                  /\ Tools[system][plan.steps[i].action] \in {"MEDIUM", "HIGH"}
             /\ "service" \in DOMAIN plan.steps[i].args
                  => plan.steps[i].args.service = world.snap.service
        /\ rollbacks # {} =>
             /\ world.snap.hasDeploy
             /\ plan.steps[Min(rollbacks)].args.revision = world.snap.previous
             /\ \A i \in DOMAIN world.snap.p99 :
                  breached(i) => world.snap.deployedAt <= world.snap.p99[i].ts
        /\ rca.suspect # NoSha =>
             \E i \in DOMAIN k.evidence : /\ k.evidence[i].kind = "commit"
                                          /\ k.evidence[i].sha = rca.suspect
        /\ /\ rca.suspect # NoSha /\ rca.class = "deploy-regression/memory"
           /\ rollbacks # {}
           => DiffRaisesResource(world.snap)

(* Nothing is written, and LangGraph reports nothing remediated, without the *)
(* approval of a human, except by a DAG outside prod, with a plan of which  *)
(* the agents are confident and every step, whatever its risk, can by the   *)
(* catalog be undone (engine.py, evaluate).                                *)
RemediationAuthorised ==
  (executed # <<>> \/ node \in {"execute", "verify", "remediated"}) /\ decision # "approved" =>
    /\ driver = "dag" /\ world.environment # "prod" /\ plan.confident
    /\ \A i \in DOMAIN plan.steps : StepCatalog[plan.steps[i].action].compensable

(* The scripted fallback is a floor: whatever the model did before its two   *)
(* invalid replies, every tool of the baseline was called and no discovered *)
(* commit is left uninspected (knowledge.py _scripted_fallback).            *)
FallbackCoversBaseline ==
  node = "gather_evidence" /\ k.ended = "fallback" =>
    /\ k.pending = <<>>
    /\ \A action \in Menu \ {"get_commit_diff"} : \E call \in k.called : call[1] = action
    /\ world.snap.hasDeploy /\ k.gaps = <<>> => SuspectCommit(k.evidence) # NoSha

(* Every incident ends or waits for a human: a model that repeats itself     *)
(* runs out of steps, it does not spin (knowledge.py MAX_STEPS).            *)
Concludes == <>(Ended \/ node = "approval_gate")

(* A deploy that lowered a limit is not rolled back for exhausting memory    *)
(* (reviewer.py mechanism consistency, scenario 5).                        *)
InnocentDeployKept ==
  node = "approval_gate" /\ rca.class = "deploy-regression/memory" =>
    DiffRaisesResource(world.snap)
=============================================================================
