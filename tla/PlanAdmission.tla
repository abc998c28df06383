---------------------------- MODULE PlanAdmission -----------------------------
(***************************************************************************)
(* From a bundle of evidence to an admitted plan: the diagnosis             *)
(* (agents/root_cause.py), the plan and its compilation against the catalog *)
(* (agents/planner.py), the review (agents/reviewer.py), the policy verdict *)
(* (policy/engine.py), and what the offline backend replies to the first    *)
(* two (gateway/offline.py).                                               *)
(***************************************************************************)
EXTENDS Investigation, PolicyEngine

CONSTANT MaxProposed    \* bound: steps of a live model's plan

ASSUME PlanAssumption == MaxProposed \in Nat

(* A diagnosis in prose, by what the code reads of it: whether it leads with *)
(* the refusal, the items it cites, the sha it names and whether it speaks  *)
(* of a certificate expiry.                                                *)
Hypothesis(refuses, cites, names, cert) ==
  [refuses |-> refuses, cites |-> cites, names |-> names, cert |-> cert]

(* The line of a quarantined item does not show its kind.                   *)
FirstOf(evidence, kind) ==
  LET at == {i \in DOMAIN evidence : /\ evidence[i].kind = kind
                                     /\ evidence[i].class # "QUARANTINED"}
  IN  IF at = {} THEN {} ELSE {Min(at)}

Cite(evidence, kinds) == UNION {FirstOf(evidence, kind) : kind \in kinds}

OfflineHypothesis(evidence) ==
  LET commits == {i \in Visible(evidence) : evidence[i].kind = "commit"}
      sha == IF commits = {} THEN NoSha ELSE evidence[Min(commits)].sha
      change == UNION {evidence[i].marks : i \in commits}
      Have(kinds) == \A kind \in kinds : FirstOf(evidence, kind) # {}
      cause == {"metrics", "deploy", "commit", "k8s-event"}
      certExpired == /\ {"TLSHandshakeError", "certificate"} \subseteq Digest(evidence)
                     /\ sha = NoSha
                     /\ Have({"metrics", "k8s-event"})
      poolRaised == /\ sha # NoSha
                    /\ "OOMKilled" \in Digest(evidence)
                    /\ "pool" \in change /\ "shrinks" \notin change
                    /\ Have(cause)
  IN  IF certExpired
      THEN Hypothesis(FALSE, Cite(evidence, {"metrics", "k8s-event", "deploy", "runbook"}),
                      NoSha, TRUE)
      ELSE IF poolRaised
           THEN Hypothesis(FALSE, Cite(evidence, cause \cup {"episode"}), sha, FALSE)
           ELSE Hypothesis(TRUE, {}, NoSha, FALSE)

(* Shapes of a live model's reply: it may cite nothing, one item, every      *)
(* item, or one that does not exist.                                       *)
LiveHypotheses(world, evidence) ==
  { Hypothesis(refuses, cites, names, cert) :
      refuses \in BOOLEAN, cert \in BOOLEAN,
      names \in {NoSha, world.snap.sha} \cup BogusShas,
      cites \in {{}, {1}, DOMAIN evidence, {Len(evidence) + 1}} }

(* The class comes from the evidence, quarantined or not, never from prose.  *)
FailureClass(evidence) ==
  LET Marked(kind, mark) ==
        \E i \in DOMAIN evidence : evidence[i].kind = kind /\ mark \in evidence[i].marks
      hasDeploy == \E i \in DOMAIN evidence :
                     evidence[i].kind = "deploy" /\ "nothing" \notin evidence[i].marks
      tls == \E i \in DOMAIN evidence : "tls" \in evidence[i].marks
  IN  IF Marked("k8s-event", "OOMKilled") /\ Marked("commit", "pool") /\ hasDeploy
      THEN "deploy-regression/memory"
      ELSE IF tls /\ ~hasDeploy THEN "cert-expiry/tls" ELSE "unclassified"

SuspectCommit(evidence) ==
  LET commits == {i \in DOMAIN evidence : evidence[i].kind = "commit"}
  IN  IF commits = {} THEN NoSha ELSE evidence[Min(commits)].sha

(* A confidence is a fraction <<numerator, denominator>> of 100 percent.    *)
AtLeast(confidence, percent) == confidence[1] >= percent * confidence[2]

Hallucinated(evidence, hyp) == hyp.cites \ DOMAIN evidence

(* RootCauseAgent.run, for a hypothesis without hallucinated citations.     *)
Diagnosis(evidence, hyp) ==
  IF hyp.refuses \/ hyp.cites = {}
  THEN [status |-> "insufficient-evidence", hyp |-> hyp, class |-> "none",
        suspect |-> NoSha, confidence |-> <<9, 1>>]
  ELSE LET suspect == SuspectCommit(evidence)
           class == FailureClass(evidence)
           grounded == \/ suspect # NoSha /\ hyp.names = suspect
                       \/ class = "cert-expiry/tls"
           causal == Cardinality({i \in DOMAIN evidence :
                                    evidence[i].kind \notin {"runbook", "postmortem"}})
       IN  [status |-> "diagnosed", hyp |-> hyp, class |-> class,
            suspect |-> IF grounded THEN suspect ELSE NoSha,
            confidence |-> <<(IF grounded THEN 90 ELSE 60)
                               * Min({causal, Cardinality(hyp.cites)}), causal>>]
-----------------------------------------------------------------------------
(***************************************************************************)
(* Planning.  A step names an action and gives it arguments, a function     *)
(* from the names of the arguments to their values.                        *)
(***************************************************************************)
Entry(system, risk, compensable, required) ==
  [system |-> system, risk |-> risk, compensable |-> compensable,
   required |-> required]

StepCatalog ==
  [ rollback_deployment |-> Entry("kubernetes", "HIGH", TRUE, {"service", "revision"}),
    create_revert_pr    |-> Entry("github", "MEDIUM", TRUE, {"sha"}),
    restart_pods        |-> Entry("kubernetes", "LOW", FALSE, {"service"}),
    scale_deployment    |-> Entry("kubernetes", "MEDIUM", TRUE, {"service"}),
    rotate_certificate  |-> Entry("kubernetes", "MEDIUM", TRUE, {"service"}) ]

MaxPlanSteps == 6

Step(action, args) == [action |-> action, args |-> args]

(* _compile: what a proposal must be to become a plan ...                   *)
Compilable(world, steps) ==
  /\ Len(steps) \in 1..MaxPlanSteps
  /\ \A i \in DOMAIN steps :
       /\ steps[i].action \in DOMAIN StepCatalog
       /\ LET entry == StepCatalog[steps[i].action]
          IN  /\ entry.required \subseteq DOMAIN steps[i].args
              /\ entry.system \in world.registered
              /\ steps[i].action \in DOMAIN Tools[entry.system]
  /\ \A i, j \in DOMAIN steps : steps[i] = steps[j] => i = j

(* ... and the plan, whose steps keep only the arguments of the catalog.     *)
Compiled(steps) ==
  [i \in DOMAIN steps |->
     Step(steps[i].action,
          Restrict(steps[i].args, StepCatalog[steps[i].action].required))]

PreviousRevision(world, default) ==
  LET deploys == RecentDeploys(world.snap)
  IN  IF deploys = <<>> THEN default ELSE deploys[1].previous

Rollback(service, revision) ==
  Step("rollback_deployment", [service |-> service, revision |-> revision])
Revert(sha) == Step("create_revert_pr", [sha |-> sha])
Rotate(service) == Step("rotate_certificate", [service |-> service])

OfflinePlan(service, previous, rca) ==
  IF rca.hyp.cert THEN <<Rotate(service)>>
  ELSE <<Rollback(service, previous)>>
         \o IF rca.suspect = NoSha THEN <<>> ELSE <<Revert(rca.suspect)>>

(* The plan of the class when both proposals are rejected; without one, the *)
(* agent escalates.                                                        *)
HasFallbackPlan(rca) == rca.class \in {"cert-expiry/tls", "deploy-regression/memory"}

FallbackPlan(service, previous, rca) ==
  IF rca.class = "cert-expiry/tls" THEN <<Rotate(service)>>
  ELSE <<Rollback(service, previous), Revert(rca.suspect)>>

(* What a live model may propose: MaxProposed steps with arguments that are *)
(* right, wrong, missing or superfluous.                                   *)
LiveSteps(world) ==
  LET services == {world.snap.service, "another-service"}
      revisions == {world.snap.previous, world.snap.revision}
      shas == {world.snap.sha} \cup BogusShas
  IN  {Rollback(s, r) : s \in services, r \in revisions}
        \cup {Revert(x) : x \in shas} \cup {Rotate(s) : s \in services}
        \cup {Step("create_revert_pr", [sha |-> world.snap.sha, title |-> "extra"]),
               Step("rollback_deployment", [service |-> world.snap.service]),
               Step("restart_pods", [service |-> world.snap.service]),
               Step("delete_namespace", [service |-> world.snap.service])}

LiveProposals(world) == BoundedSeq(LiveSteps(world), MaxProposed)
-----------------------------------------------------------------------------
(***************************************************************************)
(* Review, against the reviewer's own reads of the connectors.              *)
(***************************************************************************)
FirstBreach(series) ==
  LET late == {i \in DOMAIN series : series[i].ms > 2 * series[1].ms}
  IN  IF late = {} THEN {} ELSE {series[Min(late)].ts}

DiffRaisesResource(diff) ==
  IF diff.added # {} /\ diff.removed # {} THEN Max(diff.added) > Max(diff.removed)
                                         ELSE diff.raisesInWords

(* The checks look at the first rollback and the first revert of the plan.   *)
FirstStep(steps, action) ==
  LET at == {i \in DOMAIN steps : steps[i].action = action}
  IN  IF at = {} THEN {} ELSE {steps[Min(at)]}

RollbackTargetGrounded(world, steps) ==
  \A step \in FirstStep(steps, "rollback_deployment") :
    step.args.revision = PreviousRevision(world, "none")

(* Fault: a deploy is enough, whenever it was.                              *)
TemporalPrecedenceOfAny(world) == RecentDeploys(world.snap) # <<>>

TemporalPrecedence(world) ==
  LET deploys == RecentDeploys(world.snap)
  IN  /\ deploys # <<>>
      /\ \E breach \in FirstBreach(Datadog(world.snap, "incident").series) :
           deploys[1].deployedAt <= breach

MechanismConsistent(world, rca) ==
  rca.suspect # NoSha /\ rca.class = "deploy-regression/memory"
    => DiffRaisesResource(CommitDiff(world.snap, rca.suspect))

RevertShaGrounded(rca, steps) ==
  \A step \in FirstStep(steps, "create_revert_pr") : step.args.sha = rca.suspect

(* Fault: of the first step alone.                                         *)
ServiceScopeOfFirst(service, steps) ==
  "service" \in DOMAIN steps[1].args => steps[1].args.service = service

ServiceScope(service, steps) ==
  \A i \in DOMAIN steps :
    "service" \in DOMAIN steps[i].args => steps[i].args.service = service

AddressesFailureClass(rca, steps) ==
  rca.class = "deploy-regression/memory"
    => FirstStep(steps, "rollback_deployment") # {}

ReviewPasses(world, service, rca, steps) ==
  /\ \A i \in DOMAIN steps : steps[i].action \in DOMAIN StepCatalog
  /\ FirstStep(steps, "rollback_deployment") # {} =>
       /\ RollbackTargetGrounded(world, steps)
       /\ TemporalPrecedence(world)
       /\ MechanismConsistent(world, rca)
  /\ RevertShaGrounded(rca, steps)
  /\ ServiceScope(service, steps)
  /\ AddressesFailureClass(rca, steps)
=============================================================================
