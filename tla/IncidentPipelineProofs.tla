------------------------ MODULE IncidentPipelineProofs ------------------------
(***************************************************************************)
(* Proofs about IncidentPipeline for all incidents, both drivers, any tasks *)
(* a live model answers and any bounds.                                    *)
(*                                                                         *)
(* The argument: whoever proposed it, a plan that is adopted has a step and *)
(* only writes of the catalog that a connector serves; past the review it  *)
(* is the plan the review passed, as nothing changes it or the diagnosis;  *)
(* and the verdict at the gate is the policy's about this plan, which asks  *)
(* for no approval only where it may.                                      *)
(*                                                                         *)
(* And the bundle it cites is a list of items in every state, which the     *)
(* loop and its scripted fallback extend one call at a time, losing no       *)
(* commit before it is inspected.                                          *)
(*                                                                         *)
(* Every step lowers what is left of the incident, so none goes on for ever. *)
(* And the policy never judges a plan less strictly for being riskier.       *)
(***************************************************************************)
EXTENDS IncidentPipeline, FiniteSetTheorems, SequenceTheorems, WellFoundedInduction, TLAPS

WriteActions == {"rollback_deployment", "create_revert_pr", "rotate_certificate"}

PlanShape(steps) ==
  /\ steps # <<>> /\ 1 \in DOMAIN steps
  /\ \A i \in DOMAIN steps : steps[i].action \in WriteActions

AtGate   == {"approval_gate", "execute", "verify", "learn", "postmortem"}
Reviewed == AtGate \cup {"policy_check"}
Planned  == Reviewed \cup {"review"}

ChoiceInv == driver \in Drivers /\ WorldOK(world)

PlanInv == node \in Planned => rca.status = "diagnosed" /\ PlanShape(plan.steps)

(* The bundle does not change after the diagnosis.                         *)
SuspectInv ==
  node \in Planned \cup {"plan"} => rca.suspect \in {NoSha, SuspectCommit(k.evidence)}

ReviewInv == node \in Reviewed => ReviewPasses(world, Service, rca, plan.steps)

Judged == EvaluatePlan(StepCatalog, plan.steps, world.environment, plan.confident)

VerdictInv == driver = "dag" /\ node = "approval_gate" => verdict = Judged

Cleared ==
  /\ driver = "dag" /\ world.environment # "prod" /\ plan.confident
  /\ \A i \in DOMAIN plan.steps : StepCatalog[plan.steps[i].action].compensable

Past == executed # <<>> \/ node \in {"execute", "verify", "remediated"}

(* Nothing is executed before the gate, and past it nothing without leave.   *)
GateInv ==
  /\ executed # <<>> =>
       node \in {"verify", "learn", "postmortem", "succeeded", "failed", "raised"}
  /\ Past /\ decision # "approved" => Cleared

IInv == ChoiceInv /\ PlanInv /\ SuspectInv /\ ReviewInv /\ VerdictInv /\ GateInv

(* The bundle.                                                              *)
IsItem(item) ==
  /\ DOMAIN item = {"kind", "marks", "sha", "class"}
  /\ item.kind = "commit" => item.sha # NoSha

IsBundle(evidence) == IsList(evidence) /\ \A item \in Range(evidence) : IsItem(item)

HasCommit(evidence) == \E item \in Range(evidence) : item.kind = "commit"

(* The state of the loop.  As long as no query failed, the commit of the     *)
(* deploys asked for is pending, or a commit is in the bundle.              *)
LoopFields == {"evidence", "called", "pending", "attempted", "gaps", "steps", "ended"}

Bundled(loop) == DOMAIN loop = LoopFields /\ IsBundle(loop.evidence)

DeploysListed(loop) == \E call \in loop.called : call[1] = "list_recent_deploys"

Discovering(loop) ==
  /\ loop.pending \in Seq({world.snap.sha}) /\ loop.gaps \in Seq(Menu)
  /\ world.snap.hasDeploy /\ loop.gaps = <<>> /\ DeploysListed(loop)
       => loop.pending # <<>> \/ HasCommit(loop.evidence)

GatherInv ==
  /\ Bundled(k)
  /\ node = "gather_evidence" => /\ Discovering(k)
                                 /\ k.ended = "fallback" => Covered(k)
-----------------------------------------------------------------------------
(* Every set of numbers that is not empty has a least one.                  *)
LEMMA LeastExists ==
  ASSUME NEW S \in SUBSET Nat, S # {}
  PROVE  Min(S) \in S /\ \A x \in S : Min(S) <= x
<1> DEFINE R == {ss \in Nat \X Nat : ss[1] < ss[2]}
<1>1. IsWellFoundedOn(R, Nat)
  BY NatLessThanWellFounded DEF OpToRel
<1>2. \E x \in S : \A y \in S : <<y, x>> \notin R
  <2> HIDE DEF R
  <2> QED BY <1>1, WFMin
<1>3. ASSUME NEW x \in S, NEW y \in S, <<y, x>> \notin R PROVE x <= y
  <2>1. x \in Nat /\ y \in Nat /\ ~(y < x)
    BY <1>3
  <2> QED BY <2>1
<1>4. \E x \in S : \A y \in S : x <= y
  BY <1>2, <1>3
<1> QED BY <1>4 DEF Min

(* A step the catalog knows and a connector serves writes, and is no LOW one.*)
LEMMA ServedActions ==
  ASSUME NEW action \in DOMAIN StepCatalog,
         action \in DOMAIN Tools[StepCatalog[action].system]
  PROVE  action \in WriteActions
<1>1. action \in WriteActions \cup {"restart_pods", "scale_deployment"}
  BY DEF StepCatalog, WriteActions
<1>2. action \notin {"restart_pods", "scale_deployment"}
  <2>1. StepCatalog["restart_pods"].system = "kubernetes"
        /\ StepCatalog["scale_deployment"].system = "kubernetes"
    BY DEF StepCatalog, Entry
  <2>2. "restart_pods" \notin DOMAIN Tools["kubernetes"]
        /\ "scale_deployment" \notin DOMAIN Tools["kubernetes"]
    BY DEF Tools
  <2> QED BY <2>1, <2>2
<1> QED BY <1>1, <1>2

(* What the catalog and the connectors say of a write.                       *)
LEMMA WriteFacts ==
  ASSUME NEW action \in WriteActions
  PROVE  /\ action \in DOMAIN StepCatalog
         /\ StepCatalog[action].risk \in {"MEDIUM", "HIGH"}
         /\ StepCatalog[action].compensable = TRUE
         /\ \E system \in {"github", "kubernetes"} :
              action \in DOMAIN Tools[system] /\ Tools[system][action] \in {"MEDIUM", "HIGH"}
<1>1. CASE action = "rollback_deployment"
  <2>1. StepCatalog["rollback_deployment"].risk = "HIGH"
        /\ StepCatalog["rollback_deployment"].compensable = TRUE
        /\ "rollback_deployment" \in DOMAIN StepCatalog
    BY DEF StepCatalog, Entry
  <2>2. "rollback_deployment" \in DOMAIN Tools["kubernetes"]
        /\ Tools["kubernetes"]["rollback_deployment"] = "HIGH"
    BY DEF Tools
  <2> QED BY <1>1, <2>1, <2>2
<1>2. CASE action = "create_revert_pr"
  <2>1. StepCatalog["create_revert_pr"].risk = "MEDIUM"
        /\ StepCatalog["create_revert_pr"].compensable = TRUE
        /\ "create_revert_pr" \in DOMAIN StepCatalog
    BY DEF StepCatalog, Entry
  <2>2. "create_revert_pr" \in DOMAIN Tools["github"]
        /\ Tools["github"]["create_revert_pr"] = "MEDIUM"
    BY DEF Tools
  <2> QED BY <1>2, <2>1, <2>2
<1>3. CASE action = "rotate_certificate"
  <2>1. StepCatalog["rotate_certificate"].risk = "MEDIUM"
        /\ StepCatalog["rotate_certificate"].compensable = TRUE
        /\ "rotate_certificate" \in DOMAIN StepCatalog
    BY DEF StepCatalog, Entry
  <2>2. "rotate_certificate" \in DOMAIN Tools["kubernetes"]
        /\ Tools["kubernetes"]["rotate_certificate"] = "MEDIUM"
    BY DEF Tools
  <2> QED BY <1>3, <2>1, <2>2
<1> QED BY <1>1, <1>2, <1>3 DEF WriteActions

(* The policy lets a write of at least MEDIUM risk pass without a human only *)
(* outside prod and with confidence.                                        *)
LEMMA UngatedWrite ==
  ASSUME NEW risk \in {"MEDIUM", "HIGH"}, NEW environment, NEW confident, NEW compensable,
         ~Evaluate(risk, environment, confident, compensable).requiresApproval
  PROVE  environment # "prod" /\ confident
<1>1. RiskLevel[risk] \in {2, 3} /\ RiskLevel["CRITICAL"] = 4 /\ RiskLevel["HIGH"] = 3
      /\ RiskLevel["MEDIUM"] = 2
  BY DEF RiskLevel
<1> QED BY <1>1 DEF Evaluate, Decision

(* A plan of writes that the verdict lets pass without a human.              *)
LEMMA UngatedPlan ==
  ASSUME PlanShape(plan.steps), ~Judged.requiresApproval
  PROVE  /\ world.environment # "prod" /\ plan.confident
         /\ \A i \in DOMAIN plan.steps : StepCatalog[plan.steps[i].action].compensable
<1> DEFINE judge(i) ==
             Evaluate(StepCatalog[plan.steps[i].action].risk, world.environment,
                      plan.confident, StepCatalog[plan.steps[i].action].compensable)
<1>1. ~\E d \in {judge(i) : i \in DOMAIN plan.steps} : d.requiresApproval
  BY DEF Judged, EvaluatePlan
<1>2. ~judge(1).requiresApproval
  <2> HIDE DEF judge
  <2> QED BY <1>1 DEF PlanShape
<1>3. plan.steps[1].action \in WriteActions
  BY DEF PlanShape
<1>4. StepCatalog[plan.steps[1].action].risk \in {"MEDIUM", "HIGH"}
  BY <1>3, WriteFacts
<1>5. world.environment # "prod" /\ plan.confident
  BY <1>2, <1>4, UngatedWrite
<1>6. \A i \in DOMAIN plan.steps : StepCatalog[plan.steps[i].action].compensable
  BY WriteFacts DEF PlanShape
<1> QED BY <1>5, <1>6
-----------------------------------------------------------------------------
(* Plans.                                                                  *)

(* What is compiled has a step, and writes only.                            *)
LEMMA CompiledShape ==
  ASSUME NEW steps, NEW S, steps \in Seq(S), Compilable(world, steps)
  PROVE  PlanShape(Compiled(steps))
<1>1. Len(steps) \in 1..6 /\ DOMAIN steps = 1..Len(steps)
  BY DEF Compilable, MaxPlanSteps
<1>2. \A i \in DOMAIN steps : steps[i].action \in WriteActions
  BY ServedActions DEF Compilable
<1>3. /\ DOMAIN Compiled(steps) = DOMAIN steps
      /\ \A i \in DOMAIN steps : Compiled(steps)[i].action = steps[i].action
  BY DEF Compiled, Step
<1>4. 1 \in DOMAIN Compiled(steps)
  BY <1>1, <1>3
<1>5. Compiled(steps) # <<>>
  BY <1>4
<1> QED BY <1>2, <1>3, <1>4, <1>5 DEF PlanShape

(* The proposals are sequences.                                             *)
LEMMA OfflineIsSequence ==
  ASSUME NEW service, NEW previous
  PROVE  \E S : OfflinePlan(service, previous, rca) \in Seq(S)
<1> DEFINE S == {Rotate(service), Rollback(service, previous), Revert(rca.suspect)}
<1>1. /\ <<Rotate(service)>> \in Seq(S) /\ <<Rollback(service, previous)>> \in Seq(S)
      /\ <<Revert(rca.suspect)>> \in Seq(S) /\ <<>> \in Seq(S)
  OBVIOUS
<1>2. \A s, t \in Seq(S) : s \o t \in Seq(S)
  OBVIOUS
<1>3. OfflinePlan(service, previous, rca) \in Seq(S)
  <2> HIDE DEF S
  <2> QED BY <1>1, <1>2 DEF OfflinePlan
<1> QED BY <1>3

LEMMA LiveIsSequence ==
  ASSUME NEW steps \in LiveProposals(world)
  PROVE  steps \in Seq(LiveSteps(world))
<1>1. PICK m \in 0..MaxProposed : steps \in [1..m -> LiveSteps(world)]
  BY DEF LiveProposals, BoundedSeq, SeqOf
<1>2. m \in Nat
  BY <1>1, PlanAssumption DEF PlanAssumption
<1> QED BY <1>1, <1>2

LEMMA FallbackShape ==
  ASSUME NEW service, NEW previous
  PROVE  PlanShape(FallbackPlan(service, previous, rca))
<1>1. /\ Rotate(service).action = "rotate_certificate"
      /\ Rollback(service, previous).action = "rollback_deployment"
      /\ Revert(rca.suspect).action = "create_revert_pr"
  BY DEF Rotate, Rollback, Revert, Step
<1>2. PlanShape(<<Rotate(service)>>)
  BY <1>1 DEF PlanShape, WriteActions
<1>3. PlanShape(<<Rollback(service, previous), Revert(rca.suspect)>>)
  BY <1>1 DEF PlanShape, WriteActions
<1> QED BY <1>2, <1>3 DEF FallbackPlan
-----------------------------------------------------------------------------
(* The steps.                                                              *)

LEMMA InitIInv == Init => IInv
<1> SUFFICES ASSUME Init PROVE IInv
  OBVIOUS
<1>1. ChoiceInv
  BY PipelineAssumption DEF Init, PipelineAssumption, ChoiceInv
<1> QED BY <1>1 DEF Init, IInv, PlanInv, SuspectInv, ReviewInv, VerdictInv, GateInv,
                    Planned, Reviewed, AtGate, Past

(* Until the plan is there, only the node and the bundle matter.            *)
LEMMA EarlyKeeps ==
  ASSUME IInv, node \in {"triage", "gather_evidence", "security_screen"},
         node' \in {"triage", "gather_evidence", "security_screen", "diagnose"},
         UNCHANGED <<choice, decision, executed>>
  PROVE  IInv'
<1>1. executed = <<>>
  BY DEF IInv, GateInv
<1> QED BY <1>1 DEF IInv, ChoiceInv, PlanInv, SuspectInv, ReviewInv, VerdictInv, GateInv,
                    Planned, Reviewed, AtGate, Past, choice

LEMMA GatherKeeps ==
  ASSUME IInv, Triage \/ OfflineDecides \/ LiveDecides \/ FallBack
               \/ FallBackCall \/ FallBackEnds \/ StopGathering \/ SecurityScreen
  PROVE  IInv'
<1>1. CASE Triage
  BY <1>1, EarlyKeeps DEF Triage
<1>2. ASSUME NEW action, NEW arg, NEW whims, Gathering, Act(action, arg, whims)
      PROVE  IInv'
  BY <1>2, EarlyKeeps DEF Act, Gathering
<1>3. CASE OfflineDecides
  BY <1>2, <1>3 DEF OfflineDecides
<1>4. CASE LiveDecides
  BY <1>2, <1>4 DEF LiveDecides
<1>5. CASE FallBack
  BY <1>5, EarlyKeeps DEF FallBack, Gathering
<1>6. CASE StopGathering
  BY <1>6, EarlyKeeps DEF StopGathering
<1>8. CASE FallBackCall
  BY <1>8, EarlyKeeps DEF FallBackCall, Scripted
<1>9. CASE FallBackEnds
  BY <1>9, EarlyKeeps DEF FallBackEnds, Scripted
<1>7. CASE SecurityScreen
  BY <1>7, EarlyKeeps DEF SecurityScreen
<1> QED BY <1>1, <1>3, <1>4, <1>5, <1>6, <1>7, <1>8, <1>9

(* The end of a run before the gate.                                        *)
LEMMA EndKeeps ==
  ASSUME IInv, executed = <<>>,
         node' \in {"failed", "escalated", "raised", "denied"},
         UNCHANGED <<choice, executed>>
  PROVE  IInv'
BY DEF IInv, ChoiceInv, PlanInv, SuspectInv, ReviewInv, VerdictInv, GateInv,
       Planned, Reviewed, AtGate, Past, choice

LEMMA EscalateEnds ==
  ASSUME NEW reason, Escalate(reason)
  PROVE  node' \in {"failed", "escalated", "raised"}
BY DEF Escalate

LEMMA DiagnoseKeeps ==
  ASSUME IInv, Diagnose
  PROVE  IInv'
<1>1. executed = <<>> /\ UNCHANGED <<choice, executed, k, decision>>
  BY DEF Diagnose, IInv, GateInv
<1>2. PICK hyp : IF Hallucinated(k.evidence, hyp) # {}
                 THEN Escalate("hallucinated citation") /\ UNCHANGED rca
                 ELSE /\ rca' = Diagnosis(k.evidence, hyp)
                      /\ node' \in {"escalated", "plan"}
  BY DEF Diagnose
<1>3. CASE Hallucinated(k.evidence, hyp) # {}
  BY <1>1, <1>2, <1>3, EndKeeps, EscalateEnds
<1>4. CASE Hallucinated(k.evidence, hyp) = {}
  <2>1. rca'.suspect \in {NoSha, SuspectCommit(k.evidence)}
    BY <1>2, <1>4 DEF Diagnosis
  <2>2. SuspectInv'
    BY <1>1, <2>1 DEF SuspectInv
  <2> QED BY <1>1, <1>2, <1>4, <2>2 DEF IInv, ChoiceInv, PlanInv, ReviewInv, VerdictInv,
                                       GateInv, Planned, Reviewed, AtGate, Past, choice
<1> QED BY <1>3, <1>4

LEMMA AdoptKeeps ==
  ASSUME IInv, node = "plan", rca.status = "diagnosed",
         NEW steps, PlanShape(steps), NEW selfEstimate, Adopt(steps, selfEstimate),
         UNCHANGED <<choice, k, rca, decision, executed>>
  PROVE  IInv'
<1>1. plan'.steps = steps /\ node' = "review"
  BY DEF Adopt
<1>2. executed = <<>>
  BY DEF IInv, GateInv
<1>3. PlanInv'
  BY <1>1 DEF PlanInv
<1>4. SuspectInv'
  BY <1>1 DEF IInv, SuspectInv
<1> QED BY <1>1, <1>2, <1>3, <1>4 DEF IInv, ChoiceInv, ReviewInv, VerdictInv,
                                     GateInv, Reviewed, AtGate, Past, choice

LEMMA PlanKeeps ==
  ASSUME IInv, Plan
  PROVE  IInv'
<1> DEFINE previous == PreviousRevision(world, "unknown")
           offline  == OfflinePlan(Service, previous, rca)
           fallback == FallbackPlan(Service, previous, rca)
<1>1. /\ node = "plan" /\ executed = <<>>
      /\ UNCHANGED <<choice, k, rca, decision, executed>>
  BY DEF Plan, IInv, GateInv
<1>2. ASSUME NEW reason, Escalate(reason) PROVE IInv'
  BY <1>1, <1>2, EndKeeps, EscalateEnds
<1>3. CASE rca.status # "diagnosed"
  BY <1>2, <1>3 DEF Plan
<1>4. CASE rca.status = "diagnosed" /\ Compilable(world, offline) /\ Adopt(Compiled(offline), 90)
  <2>1. PlanShape(Compiled(offline))
    BY <1>4, OfflineIsSequence, CompiledShape
  <2> QED BY <1>1, <1>4, <2>1, AdoptKeeps
<1>5. ASSUME rca.status = "diagnosed", NEW steps \in LiveProposals(world),
             Compilable(world, steps),
             NEW selfEstimate \in {50, 99}, Adopt(Compiled(steps), selfEstimate)
      PROVE  IInv'
  <2>1. PlanShape(Compiled(steps))
    BY <1>5, LiveIsSequence, CompiledShape
  <2> QED BY <1>1, <1>5, <2>1, AdoptKeeps
<1>6. CASE rca.status = "diagnosed" /\ Adopt(fallback, 90)
  BY <1>1, <1>6, FallbackShape, AdoptKeeps
<1>7. CASE rca.status = "diagnosed"
  <2>1. \/ Compilable(world, offline) /\ Adopt(Compiled(offline), 90)
        \/ \E steps \in LiveProposals(world), selfEstimate \in {50, 99} :
             Compilable(world, steps) /\ Adopt(Compiled(steps), selfEstimate)
        \/ Adopt(fallback, 90)
        \/ Escalate("no remediation")
    BY <1>7 DEF Plan
  <2> HIDE DEF offline, fallback
  <2>2. CASE Compilable(world, offline) /\ Adopt(Compiled(offline), 90)
    BY <1>4, <1>7, <2>2
  <2>3. CASE \E steps \in LiveProposals(world), selfEstimate \in {50, 99} :
               Compilable(world, steps) /\ Adopt(Compiled(steps), selfEstimate)
    BY <1>5, <1>7, <2>3
  <2>4. CASE Adopt(fallback, 90)
    BY <1>6, <1>7, <2>4
  <2>5. CASE Escalate("no remediation")
    BY <1>2, <2>5
  <2> QED BY <2>1, <2>2, <2>3, <2>4, <2>5
<1> QED BY <1>3, <1>7


LEMMA ReviewKeeps ==
  ASSUME IInv, Review
  PROVE  IInv'
<1>1. /\ node = "review" /\ executed = <<>>
      /\ UNCHANGED <<choice, k, rca, plan, verdict, decision, executed>>
  BY DEF Review, IInv, GateInv
<1>2. CASE ~ReviewPasses(world, Service, rca, plan.steps)
  BY <1>1, <1>2, EndKeeps, EscalateEnds DEF Review
<1>3. CASE ReviewPasses(world, Service, rca, plan.steps)
  <2>1. /\ driver = "dag" => node' = "policy_check"
        /\ driver # "dag" => node' = "approval_gate"
    BY <1>3 DEF Review
  <2>2. Service' = Service
    BY <1>1 DEF Service, choice
  <2>3. ReviewInv'
    BY <1>1, <1>3, <2>2 DEF ReviewInv, choice
  <2>4. PlanInv' /\ SuspectInv'
    BY <1>1, <2>1 DEF IInv, PlanInv, SuspectInv, Planned
  <2> QED BY <1>1, <2>1, <2>3, <2>4 DEF IInv, ChoiceInv, VerdictInv, GateInv, Past, choice
<1> QED BY <1>2, <1>3

LEMMA PolicyKeeps ==
  ASSUME IInv, PolicyCheck
  PROVE  IInv'
<1>1. /\ node = "policy_check" /\ executed = <<>>
      /\ UNCHANGED <<choice, k, rca, plan, decision, executed>>
  BY DEF PolicyCheck, IInv, GateInv
<1>2. CASE ~Judged.allowed
  BY <1>1, <1>2, EndKeeps, EscalateEnds DEF PolicyCheck, Judged
<1>3. CASE Judged.allowed
  <2>1. verdict' = Judged /\ node' = "approval_gate"
    BY <1>3 DEF PolicyCheck, Judged
  <2>2. Judged' = Judged /\ Service' = Service
    BY <1>1 DEF Judged, Service, choice
  <2>3. ReviewInv'
    BY <1>1, <2>2 DEF IInv, ReviewInv, Reviewed, choice
  <2>4. PlanInv' /\ SuspectInv'
    BY <1>1, <2>1 DEF IInv, PlanInv, SuspectInv, Planned, Reviewed
  <2>5. VerdictInv'
    BY <2>1, <2>2 DEF VerdictInv
  <2> QED BY <1>1, <2>1, <2>3, <2>4, <2>5 DEF IInv, ChoiceInv, GateInv, Past, choice
<1> QED BY <1>2, <1>3

(* Past the review, the plan, the diagnosis and the bundle stay.             *)
LEMMA LateKeeps ==
  ASSUME IInv, node \in AtGate,
         node' \in {"execute", "verify", "learn", "postmortem"}
                     \cup {"succeeded", "failed", "raised", "denied", "remediated"},
         UNCHANGED <<choice, k, rca, plan>>
  PROVE  ChoiceInv' /\ PlanInv' /\ SuspectInv' /\ ReviewInv' /\ VerdictInv'
<1>1. Service' = Service
  BY DEF Service, choice
<1>2. ReviewInv'
  BY <1>1 DEF IInv, ReviewInv, Reviewed, choice
<1>3. PlanInv' /\ SuspectInv'
  BY DEF IInv, PlanInv, SuspectInv, Planned, Reviewed
<1> QED BY <1>2, <1>3 DEF IInv, ChoiceInv, VerdictInv, choice

LEMMA GateKeeps ==
  ASSUME IInv, PassGate \/ Approve \/ Deny
  PROVE  IInv'
<1>1. /\ node = "approval_gate" /\ executed = <<>>
      /\ UNCHANGED <<choice, k, rca, plan, executed>>
  BY DEF PassGate, Approve, Deny, IInv, GateInv
<1>2. CASE PassGate
  <2>1. node' = "execute" /\ driver = "dag" /\ ~verdict.requiresApproval
    BY <1>2 DEF PassGate, GateNeeded, IInv, ChoiceInv, Drivers
  <2>2. ~Judged.requiresApproval /\ PlanShape(plan.steps)
    BY <1>1, <2>1 DEF IInv, VerdictInv, PlanInv, Planned, Reviewed, AtGate
  <2>3. Cleared
    BY <2>1, <2>2, UngatedPlan DEF Cleared
  <2>4. Cleared'
    BY <1>1, <2>3 DEF Cleared, choice
  <2> QED BY <1>1, <2>1, <2>4, LateKeeps DEF IInv, GateInv, AtGate
<1>3. CASE Approve
  <2>1. node' = "execute" /\ decision' = "approved"
    BY <1>3 DEF Approve
  <2> QED BY <1>1, <2>1, LateKeeps DEF IInv, GateInv, AtGate
<1>4. CASE Deny
  <2>1. node' \in {"failed", "denied"}
    BY <1>4 DEF Deny
  <2> QED BY <1>1, <2>1, LateKeeps DEF IInv, GateInv, AtGate, Past
<1> QED BY <1>2, <1>3, <1>4

LEMMA ExecuteKeeps ==
  ASSUME IInv, Execute
  PROVE  IInv'
<1>1. /\ node = "execute" /\ node' \in {"verify", "remediated"}
      /\ UNCHANGED <<choice, k, rca, plan, decision>>
      /\ driver = "dag" => node' = "verify"
      /\ driver # "dag" => executed' = <<>>
  BY DEF Execute
<1>2. decision # "approved" => Cleared
  BY <1>1 DEF IInv, GateInv, Past
<1>3. decision' # "approved" => Cleared'
  BY <1>1, <1>2 DEF Cleared, choice
<1>4. executed' # <<>> => node' = "verify"
  BY <1>1
<1> QED BY <1>1, <1>3, <1>4, LateKeeps DEF IInv, GateInv, AtGate

(* The verifier, and what follows it.                                       *)
LEMMA AfterwardsKeeps ==
  ASSUME IInv, Verify \/ Learn \/ WritePostmortem
  PROVE  IInv'
<1>1. /\ node \in {"verify", "learn", "postmortem"}
      /\ node' \in {"learn", "postmortem", "succeeded", "failed", "raised"}
      /\ UNCHANGED <<choice, k, rca, plan, decision>>
      /\ node = "verify" \/ UNCHANGED executed
  <2>1. CASE Verify
    BY <2>1 DEF Verify, Escalate
  <2>2. CASE Learn
    BY <2>2 DEF Learn
  <2>3. CASE WritePostmortem
    BY <2>3 DEF WritePostmortem
  <2> QED BY <2>1, <2>2, <2>3
<1>2. Past' => Past
  BY <1>1 DEF Past
<1>3. Past' /\ decision' # "approved" => Cleared'
  BY <1>1, <1>2 DEF IInv, GateInv, Cleared, choice
<1> QED BY <1>1, <1>3, LateKeeps DEF IInv, GateInv, AtGate

LEMMA StutterKeeps ==
  ASSUME IInv, UNCHANGED vars
  PROVE  IInv'
BY DEF IInv, ChoiceInv, PlanInv, SuspectInv, ReviewInv, VerdictInv, GateInv,
       Past, Cleared, Judged, Service, vars, choice

LEMMA NextIInv == IInv /\ [Next]_vars => IInv'
BY GatherKeeps, DiagnoseKeeps, PlanKeeps, ReviewKeeps, PolicyKeeps, GateKeeps,
   ExecuteKeeps, AfterwardsKeeps, StutterKeeps DEF Next, Work

(* The invariant of the module comment: what is adopted, reviewed, judged    *)
(* and let past the gate is one plan.                                       *)
THEOREM Invariance == Spec => []IInv
BY InitIInv, NextIInv, PTL DEF Spec

(* Without a human nothing is executed or reported remediated but by the     *)
(* DAG, outside prod, with confidence and with steps that can be undone.     *)
THEOREM ExecutionIsAuthorised == Spec => []RemediationAuthorised
<1>1. IInv => RemediationAuthorised
  BY DEF IInv, GateInv, Past, Cleared, RemediationAuthorised
<1> QED BY <1>1, Invariance, PTL

-----------------------------------------------------------------------------
(* What a review that passed says of a plan with a rollback.                *)
LEMMA ReviewedRollback ==
  ASSUME NEW steps, NEW service, WorldOK(world), ReviewPasses(world, service, rca, steps),
         NEW rollbacks,
         rollbacks = {i \in DOMAIN steps : steps[i].action = "rollback_deployment"},
         rollbacks # {}
  PROVE  /\ world.snap.hasDeploy
         /\ steps[Min(rollbacks)].args.revision = world.snap.previous
         /\ \A i \in DOMAIN world.snap.p99 :
              world.snap.p99[i].ms > 2 * world.snap.p99[1].ms
                => world.snap.deployedAt <= world.snap.p99[i].ts
         /\ rca.suspect # NoSha /\ rca.class = "deploy-regression/memory"
              => DiffRaisesResource(world.snap)
<1> DEFINE p99  == world.snap.p99
           late == {i \in DOMAIN p99 : p99[i].ms > 2 * p99[1].ms}
<1>1. FirstStep(steps, "rollback_deployment") = {steps[Min(rollbacks)]}
  BY DEF FirstStep
<1>2. /\ RollbackTargetGrounded(world, steps) /\ TemporalPrecedence(world)
      /\ MechanismConsistent(world, rca)
  BY <1>1 DEF ReviewPasses
<1>3. RecentDeploys(world.snap) # <<>>
  BY <1>2 DEF TemporalPrecedence
<1>4. world.snap.hasDeploy
  BY <1>3 DEF RecentDeploys
<1>5. /\ RecentDeploys(world.snap)[1].previous = world.snap.previous
      /\ RecentDeploys(world.snap)[1].deployedAt = world.snap.deployedAt
  BY <1>4 DEF RecentDeploys
<1>6. steps[Min(rollbacks)].args.revision = world.snap.previous
  BY <1>1, <1>2, <1>3, <1>5 DEF RollbackTargetGrounded, PreviousRevision
<1>7. FirstBreach(p99) = IF late = {} THEN {} ELSE {p99[Min(late)].ts}
  BY DEF FirstBreach
<1>8. \E breach \in FirstBreach(p99) : world.snap.deployedAt <= breach
  BY <1>2, <1>5 DEF TemporalPrecedence, Datadog
<1>9. ASSUME NEW i \in late PROVE world.snap.deployedAt <= p99[i].ts
  <2>1. late \in SUBSET Nat /\ late # {} /\ late \subseteq DOMAIN p99
    BY <1>9 DEF WorldOK
  <2>2. Min(late) \in late /\ Min(late) <= i
    <3> HIDE DEF late
    <3> QED BY <1>9, <2>1, LeastExists
  <2>3. world.snap.deployedAt <= p99[Min(late)].ts
    <3> HIDE DEF late
    <3> QED BY <1>7, <1>8, <2>1
  <2>4. /\ Min(late) \in DOMAIN p99 /\ i \in DOMAIN p99
    BY <2>1, <2>2, <1>9
  <2>5. p99[Min(late)].ts <= p99[i].ts /\ p99[Min(late)].ts \in Nat /\ p99[i].ts \in Nat
        /\ world.snap.deployedAt \in Nat
    <3> HIDE DEF late
    <3> QED BY <2>2, <2>4 DEF WorldOK
  <2> QED BY <2>3, <2>5
<1>10. rca.suspect # NoSha /\ rca.class = "deploy-regression/memory"
         => DiffRaisesResource(world.snap)
  <2>1. DiffRaisesResource(CommitDiff(world.snap, rca.suspect)) = DiffRaisesResource(world.snap)
    BY DEF DiffRaisesResource, CommitDiff
  <2> QED BY <1>2, <2>1 DEF MechanismConsistent
<1> QED BY <1>4, <1>6, <1>9, <1>10

-----------------------------------------------------------------------------
(***************************************************************************)
(* The bundle of evidence.                                                 *)
(***************************************************************************)

(* Two lists make a list, of the elements of both.                          *)
LEMMA ListConcat ==
  ASSUME NEW s, NEW t, IsList(s), IsList(t)
  PROVE  /\ IsList(s \o t)
         /\ Range(s \o t) = Range(s) \cup Range(t)
<1> DEFINE S == Range(s) \cup Range(t)
<1>1. s \in Seq(S) /\ t \in Seq(S)
  <2>1. s \in Seq(Range(s)) /\ t \in Seq(Range(t))
    BY DEF IsList
  <2> QED BY <2>1, SeqMonotonic
<1>2. /\ s \o t \in Seq(S)
      /\ Len(s \o t) = Len(s) + Len(t)
      /\ \A i \in 1 .. Len(s) + Len(t) :
           (s \o t)[i] = IF i <= Len(s) THEN s[i] ELSE t[i - Len(s)]
  <2> HIDE DEF S
  <2> QED BY <1>1, ConcatProperties
<1>3. /\ DOMAIN (s \o t) = 1 .. Len(s) + Len(t)
      /\ DOMAIN s = 1 .. Len(s) /\ DOMAIN t = 1 .. Len(t)
      /\ Len(s) \in Nat /\ Len(t) \in Nat
  <2> HIDE DEF S
  <2> QED BY <1>1, <1>2
<1>4. Range(s \o t) \subseteq S
  BY <1>2, <1>3 DEF Range
<1>5. ASSUME NEW x \in Range(s) PROVE x \in Range(s \o t)
  <2>1. PICK i \in 1 .. Len(s) : x = s[i]
    BY <1>3 DEF Range
  <2>2. i \in 1 .. Len(s) + Len(t) /\ (s \o t)[i] = x
    BY <1>2, <1>3, <2>1
  <2> QED BY <1>3, <2>2 DEF Range
<1>6. ASSUME NEW x \in Range(t) PROVE x \in Range(s \o t)
  <2>1. PICK i \in 1 .. Len(t) : x = t[i]
    BY <1>3 DEF Range
  <2>2. /\ Len(s) + i \in 1 .. Len(s) + Len(t)
        /\ (s \o t)[Len(s) + i] = x
    BY <1>2, <1>3, <2>1
  <2> QED BY <1>3, <2>2 DEF Range
<1>7. Range(s \o t) = S
  BY <1>4, <1>5, <1>6
<1> QED BY <1>2, <1>7 DEF IsList

(* A function on the first numbers is a list.                               *)
LEMMA FunctionIsList ==
  ASSUME NEW n \in Nat, NEW f, f = [i \in 1 .. n |-> f[i]]
  PROVE  IsList(f)
<1>1. f \in [1 .. n -> Range(f)]
  BY DEF Range
<1> QED BY <1>1 DEF IsList

LEMMA BundleGrows ==
  ASSUME NEW s, NEW t, IsBundle(s), IsBundle(t)
  PROVE  /\ IsBundle(s \o t)
         /\ HasCommit(s) \/ HasCommit(t) => HasCommit(s \o t)
BY ListConcat DEF IsBundle, HasCommit

LEMMA OneItem ==
  ASSUME NEW item, IsItem(item)
  PROVE  /\ IsBundle(<<item>>)
         /\ item.kind = "commit" => HasCommit(<<item>>)
<1>1. <<item>> = [i \in 1 .. 1 |-> <<item>>[i]]
  OBVIOUS
<1>2. IsList(<<item>>)
  BY <1>1, FunctionIsList
<1>3. Range(<<item>>) = {item}
  BY DEF Range
<1> QED BY <1>2, <1>3 DEF IsBundle, HasCommit

LEMMA NoItems == IsBundle(<<>>)
<1>1. <<>> \in Seq(Range(<<>>)) /\ DOMAIN <<>> = {}
  BY EmptySeq
<1>2. Range(<<>>) = {}
  BY <1>1 DEF Range
<1> QED BY <1>1, <1>2 DEF IsBundle, IsList

LEMMA ItemIsItem ==
  ASSUME NEW kind, NEW marks, NEW sha, kind = "commit" => sha # NoSha
  PROVE  IsItem(Item(kind, marks, sha)) /\ Item(kind, marks, sha).kind = kind
BY DEF IsItem, Item

(* What is made of a list, item by item, is a list.                         *)
LEMMA ListIsBundle ==
  ASSUME NEW s, IsList(s), NEW t, DOMAIN t = DOMAIN s, t = [i \in DOMAIN t |-> t[i]],
         \A i \in DOMAIN s : IsItem(t[i])
  PROVE  IsBundle(t)
<1>1. PICK n \in Nat : DOMAIN s = 1 .. n
  BY LenProperties DEF IsList
<1>2. t = [i \in 1 .. n |-> t[i]]
  BY <1>1
<1>3. IsList(t)
  BY <1>2, FunctionIsList
<1> QED BY <1>3 DEF IsBundle, Range

LEMMA MenuActions ==
  Menu = {"query_metrics", "list_recent_deploys", "get_commit_diff", "get_events",
          "get_thread", "search_runbooks"}
BY DEF Menu, Range, BaselineSequence

(* What a call of the menu finds is a bundle, and a diff brings a commit.     *)
LEMMA FoundIsBundle ==
  ASSUME WorldOK(world), NEW action \in Menu, NEW arg, arg # NoSha
  PROVE  /\ IsBundle(Found(world, action, arg))
         /\ action = "get_commit_diff" /\ IsSha(arg)
              => HasCommit(Found(world, action, arg))
<1>1. ASSUME NEW kind \in {"metrics", "deploy", "k8s-event"}, NEW marks
      PROVE  IsBundle(<<Item(kind, marks, NoSha)>>)
  BY ItemIsItem, OneItem
<1>2. CASE action = "query_metrics"
  BY <1>1, <1>2 DEF Found
<1>3. CASE action = "list_recent_deploys"
  BY <1>1, <1>3 DEF Found
<1>4. CASE action = "get_events"
  BY <1>1, <1>4 DEF Found
<1>5. CASE action = "get_commit_diff"
  <2>1. \A marks : /\ IsBundle(<<Item("commit", marks, arg)>>)
                   /\ HasCommit(<<Item("commit", marks, arg)>>)
    BY ItemIsItem, OneItem
  <2>2. Found(world, action, arg) =
          IF IsSha(arg) THEN <<Item("commit", CommitDiff(world.snap, arg).title, arg)>>
          ELSE <<>>
    BY <1>5 DEF Found
  <2> QED BY <2>1, <2>2, NoItems
<1>6. CASE action = "get_thread"
  <2>1. ASSUME NEW marks
        PROVE  IsBundle(<<[Item("discussion", marks, NoSha) EXCEPT !.class = "CONFIDENTIAL"]>>)
    <3>1. IsItem([Item("discussion", marks, NoSha) EXCEPT !.class = "CONFIDENTIAL"])
      BY DEF IsItem, Item
    <3> QED BY <3>1, OneItem
  <2>2. Found(world, action, arg) =
          IF "slack" \notin world.registered \/ Thread(world.snap) = <<>> THEN <<>>
          ELSE <<[Item("discussion", Head(Thread(world.snap)), NoSha)
                    EXCEPT !.class = "CONFIDENTIAL"]>>
    BY <1>6 DEF Found
  <2> QED BY <1>6, <2>1, <2>2, NoItems
<1>7. CASE action = "search_runbooks"
  <2> DEFINE found == [i \in DOMAIN world.guidance |->
                         Item(world.guidance[i].kind, world.guidance[i].marks, NoSha)]
  <2>1. Found(world, action, arg) = found
    BY <1>7 DEF Found
  <2>2. \A i \in DOMAIN world.guidance : IsItem(found[i])
    BY ItemIsItem DEF WorldOK
  <2>3. IsBundle(found)
    <3>1. /\ DOMAIN found = DOMAIN world.guidance /\ IsList(world.guidance)
          /\ found = [i \in DOMAIN found |-> found[i]]
      BY DEF WorldOK
    <3> HIDE DEF found
    <3> QED BY <2>2, <3>1, ListIsBundle
  <2> QED BY <1>7, <2>1, <2>3
<1> QED BY <1>2, <1>3, <1>4, <1>5, <1>6, <1>7, MenuActions

LEMMA AppendNewKeeps ==
  ASSUME NEW x, NEW s \in Seq({x}), NEW t \in {<<>>, <<x>>}
  PROVE  /\ AppendNew(s, t) \in Seq({x})
         /\ s # <<>> \/ t # <<>> => AppendNew(s, t) # <<>>
<1>1. CASE t = <<>>
  BY <1>1 DEF AppendNew
<1>2. CASE t = <<x>>
  <2>1. t[1] = x /\ t # <<>>
    BY <1>2
  <2>2. Append(s, x) \in Seq({x}) /\ Append(s, x) # <<>>
    BY AppendProperties, EmptySeq
  <2>3. Contains(s, x) => s # <<>>
    BY EmptySeq DEF Contains
  <2> QED BY <2>1, <2>2, <2>3 DEF AppendNew
<1> QED BY <1>1, <1>2

LEMMA WithoutKeeps ==
  ASSUME NEW x, NEW s \in Seq({x}), NEW y
  PROVE  Without(s, y) \in Seq({x}) /\ (y # x => Without(s, y) = s)
<1>1. CASE ~Contains(s, y)
  BY <1>1 DEF Without
<1>2. CASE Contains(s, y)
  <2> DEFINE at == {i \in DOMAIN s : s[i] = y}
  <2>1. y = x /\ at # {} /\ at \in SUBSET Nat
    BY <1>2 DEF Contains
  <2>2. Min(at) \in 1 .. Len(s)
    <3>1. Min(at) \in at
      <4> HIDE DEF at
      <4> QED BY <2>1, LeastExists
    <3> QED BY <3>1
  <2>3. ASSUME NEW m \in 1 .. Len(s) PROVE RemoveAt(s, m) \in Seq({x})
    <3>1. /\ Len(s) \in Nat /\ \A i \in 1 .. Len(s) : s[i] \in {x}
      BY LenProperties, ElementOfSeq
    <3>2. SubSeq(s, 1, m - 1) \in Seq({x}) /\ SubSeq(s, m + 1, Len(s)) \in Seq({x})
      <4>1. \A i \in 1 .. m - 1 : s[i] \in {x}
        BY <3>1
      <4>2. \A i \in m + 1 .. Len(s) : s[i] \in {x}
        BY <3>1
      <4>3. m - 1 \in Int /\ m + 1 \in Int /\ 1 \in Int /\ Len(s) \in Int
        BY <3>1
      <4> QED BY <4>1, <4>2, <4>3, SubSeqProperties
    <3> QED BY <3>2, ConcatProperties DEF RemoveAt
  <2> QED BY <1>2, <2>1, <2>2, <2>3 DEF Without
<1> QED BY <1>1, <1>2

LEMMA PerformKeeps ==
  ASSUME WorldOK(world), NEW loop, Bundled(loop), Discovering(loop),
         NEW action \in Menu, NEW arg, arg # NoSha, NEW fails \in BOOLEAN
  PROVE  LET after == Perform(world, loop, action, arg, fails)
         IN  Bundled(after) /\ Discovering(after) /\ after.ended = loop.ended
<1> DEFINE noted == [loop EXCEPT !.called = @ \cup {<<action, arg>>}]
           found == Found(world, action, arg)
           ran   == RunTool(world, noted, action, arg, fails)
           after == Perform(world, loop, action, arg, fails)
<1>1. /\ DOMAIN noted = LoopFields /\ noted.called = loop.called \cup {<<action, arg>>}
      /\ noted.pending = loop.pending /\ noted.gaps = loop.gaps
      /\ noted.evidence = loop.evidence /\ noted.ended = loop.ended
  BY DEF Bundled, LoopFields
<1>2. DOMAIN ran = LoopFields /\ ran.called = noted.called /\ ran.ended = loop.ended
  BY <1>1 DEF RunTool, LoopFields
<1>3. fails => /\ ran.gaps = Append(loop.gaps, action)
               /\ ran.evidence = loop.evidence /\ ran.pending = loop.pending
  BY <1>1 DEF RunTool, LoopFields
<1>4. ~fails => /\ ran.gaps = loop.gaps /\ ran.evidence = loop.evidence \o found
                /\ ran.pending = AppendNew(loop.pending, Discovered(world, action))
  BY <1>1 DEF RunTool, LoopFields
<1>5. /\ DOMAIN after = LoopFields /\ after.called = ran.called /\ after.ended = loop.ended
      /\ after.gaps = ran.gaps /\ after.evidence = ran.evidence
      /\ after.pending = IF action = "get_commit_diff" THEN Without(ran.pending, arg)
                         ELSE ran.pending
  BY <1>2 DEF Perform, LoopFields
<1>6. Discovered(world, action) \in {<<>>, <<world.snap.sha>>}
  BY DEF Discovered, RecentDeploys
<1>7. action = "list_recent_deploys" /\ world.snap.hasDeploy
        => Discovered(world, action) = <<world.snap.sha>>
  BY DEF Discovered, RecentDeploys
<1> HIDE DEF noted, ran, after
<1>8. IsBundle(after.evidence)
  <2>1. IsBundle(found)
    BY FoundIsBundle
  <2> HIDE DEF found
  <2> QED BY <1>3, <1>4, <1>5, <2>1, BundleGrows DEF Bundled
<1>9. after.pending \in Seq({world.snap.sha})
  <2>1. ran.pending \in Seq({world.snap.sha})
    BY <1>3, <1>4, <1>6, AppendNewKeeps DEF Discovering
  <2> QED BY <1>5, <2>1, WithoutKeeps
<1>10. after.gaps \in Seq(Menu) /\ (fails => after.gaps # <<>>)
  <2>1. /\ Append(loop.gaps, action) \in Seq(Menu)
        /\ Append(loop.gaps, action) # <<>>
    BY AppendProperties, EmptySeq DEF Discovering
  <2> QED BY <1>3, <1>4, <1>5, <2>1 DEF Discovering
<1>11. ASSUME world.snap.hasDeploy, after.gaps = <<>>, DeploysListed(after)
       PROVE  after.pending # <<>> \/ HasCommit(after.evidence)
  <2>1. ~fails /\ loop.gaps = <<>>
    BY <1>4, <1>5, <1>10, <1>11
  <2>2. IsBundle(found) /\ IsBundle(loop.evidence)
    BY FoundIsBundle DEF Bundled
  <2>3. HasCommit(loop.evidence) \/ HasCommit(found) => HasCommit(after.evidence)
    <3> HIDE DEF found
    <3> QED BY <1>4, <1>5, <2>1, <2>2, BundleGrows
  <2>4. CASE action = "get_commit_diff"
    <3>1. CASE IsSha(arg)
      BY <2>3, <2>4, <3>1, FoundIsBundle
    <3>2. CASE ~IsSha(arg)
      <4>1. arg # world.snap.sha
        BY <3>2 DEF WorldOK
      <4>2. Discovered(world, action) = <<>>
        BY <2>4 DEF Discovered
      <4>3. ran.pending = loop.pending
        BY <1>4, <2>1, <4>2 DEF AppendNew
      <4>4. after.pending = loop.pending
        BY <1>5, <2>4, <4>1, <4>3, WithoutKeeps DEF Discovering
      <4>5. DeploysListed(loop)
        BY <1>1, <1>2, <1>5, <1>11, <2>4 DEF DeploysListed
      <4> QED BY <1>11, <2>1, <2>3, <4>4, <4>5 DEF Discovering
    <3> QED BY <3>1, <3>2
  <2>5. CASE action = "list_recent_deploys"
    <3>1. Discovered(world, action) = <<world.snap.sha>> /\ <<world.snap.sha>> # <<>>
      BY <1>7, <1>11, <2>5
    <3>2. AppendNew(loop.pending, Discovered(world, action)) # <<>>
      BY <3>1, <1>6, AppendNewKeeps DEF Discovering
    <3> QED BY <1>4, <1>5, <2>1, <2>5, <3>2
  <2>6. CASE action \notin {"get_commit_diff", "list_recent_deploys"}
    <3>1. DeploysListed(loop)
      BY <1>1, <1>2, <1>5, <1>11, <2>6 DEF DeploysListed
    <3>2. loop.pending # <<>> => after.pending # <<>>
      BY <1>4, <1>5, <1>6, <2>1, <2>6, AppendNewKeeps DEF Discovering
    <3> QED BY <1>11, <2>1, <2>3, <3>1, <3>2 DEF Discovering
  <2> QED BY <2>4, <2>5, <2>6
<1>12. Bundled(after)
  BY <1>5, <1>8 DEF Bundled
<1>13. Discovering(after)
  BY <1>9, <1>10, <1>11 DEF Discovering
<1>14. after.ended = loop.ended
  BY <1>5
<1> QED BY <1>12, <1>13, <1>14 DEF after

LEMMA OpeningKeeps ==
  ASSUME NEW evidence, IsBundle(evidence)
  PROVE  Bundled(Opening(evidence)) /\ Discovering(Opening(evidence))
<1>1. Opening(evidence).pending = <<>> /\ Opening(evidence).gaps = <<>>
      /\ Opening(evidence).called = {}
  BY DEF Opening
<1>2. Discovering(Opening(evidence))
  BY <1>1, EmptySeq DEF Discovering, DeploysListed
<1>3. Bundled(Opening(evidence))
  BY DEF Opening, Bundled, LoopFields
<1> QED BY <1>2, <1>3

(* What changes neither the bundle nor the calls keeps both.                 *)
LEMMA CountingKeeps ==
  ASSUME NEW loop, NEW after, Bundled(loop), Discovering(loop),
         DOMAIN after = LoopFields, after.evidence = loop.evidence,
         after.pending = loop.pending, after.gaps = loop.gaps, after.called = loop.called
  PROVE  Bundled(after) /\ Discovering(after)
BY DEF Bundled, Discovering, DeploysListed

LEMMA TakeKeeps ==
  ASSUME WorldOK(world), NEW loop, Bundled(loop), Discovering(loop), loop.ended = "no",
         NEW action, NEW arg, arg # NoSha, NEW fails \in BOOLEAN
  PROVE  LET after == Take(world, loop, action, arg, fails)
         IN  Bundled(after) /\ Discovering(after) /\ after.ended # "fallback"
<1> DEFINE stepped == [loop EXCEPT !.steps = @ + 1]
           after == Take(world, loop, action, arg, fails)
<1>1. Bundled(stepped) /\ Discovering(stepped) /\ stepped.ended = "no"
  <2>1. /\ DOMAIN stepped = LoopFields /\ stepped.evidence = loop.evidence
        /\ stepped.pending = loop.pending /\ stepped.gaps = loop.gaps
        /\ stepped.called = loop.called /\ stepped.ended = "no"
    BY DEF Bundled, LoopFields
  <2> HIDE DEF stepped
  <2> QED BY <2>1, CountingKeeps
<1>2. CASE action = "finish"
  <2>1. after = [stepped EXCEPT !.ended = "model"]
    BY <1>2 DEF Take
  <2> HIDE DEF stepped
  <2>2. /\ DOMAIN after = LoopFields /\ after.evidence = stepped.evidence
        /\ after.pending = stepped.pending /\ after.gaps = stepped.gaps
        /\ after.called = stepped.called /\ after.ended = "model"
    BY <1>1, <2>1 DEF Bundled, LoopFields
  <2> HIDE DEF after
  <2>3. Bundled(after) /\ Discovering(after) /\ after.ended # "fallback"
    BY <1>1, <2>2, CountingKeeps
  <2> QED BY <2>3 DEF after
<1>3. CASE action # "finish" /\ Idles(stepped, action, arg)
  <2>1. stepped.called = loop.called
    BY DEF Bundled, LoopFields
  <2>2. after = stepped
    BY <1>3, <2>1 DEF Take, Idles
  <2> QED BY <1>1, <2>2
<1>4. CASE action # "finish" /\ ~Idles(stepped, action, arg)
  <2>1. stepped.called = loop.called
    BY DEF Bundled, LoopFields
  <2>2. after = Perform(world, stepped, action, arg, fails) /\ action \in Menu
    BY <1>4, <2>1 DEF Take, Idles
  <2> HIDE DEF stepped, after
  <2>3. Bundled(after) /\ Discovering(after) /\ after.ended = "no"
    BY <1>1, <2>2, PerformKeeps
  <2> QED BY <2>3 DEF after
<1> QED BY <1>2, <1>3, <1>4

LEMMA ActKeeps ==
  ASSUME WorldOK(world), GatherInv, Gathering,
         NEW action, NEW arg, arg # NoSha, NEW whims, Act(action, arg, whims)
  PROVE  GatherInv'
<1>1. PICK fails \in BOOLEAN : k' = Take(world, k, action, arg, fails)
  BY DEF Act
<1>2. Bundled(k) /\ Discovering(k) /\ k.ended = "no"
  BY DEF GatherInv, Gathering
<1>3. Bundled(k') /\ Discovering(k') /\ k'.ended # "fallback"
  BY <1>1, <1>2, TakeKeeps
<1>4. UNCHANGED world
  BY DEF Act, choice
<1> QED BY <1>3, <1>4 DEF GatherInv, Bundled, Discovering, DeploysListed

(* The call of the baseline that is due.                                    *)
LEMMA BaselineCallIsOne ==
  ASSUME WorldOK(world), Discovering(k), ~Covered(k)
  PROVE  /\ BaselineCall(k)[1] \in Menu /\ BaselineCall(k)[2] # NoSha
         /\ BaselineCall(k)[1] = "get_commit_diff"
              => BaselineCall(k)[2] = world.snap.sha /\ k.pending # <<>>
<1> DEFINE action == BaselineCall(k)[1]
           at == IF Uninspected(k) = {} THEN 1 ELSE Min(Uninspected(k))
<1>1. /\ action = IF Due(k) = {} THEN "get_commit_diff" ELSE BaselineSequence[Min(Due(k))]
      /\ BaselineCall(k)[2] = IF action # "get_commit_diff" THEN NoArg ELSE k.pending[at]
  BY DEF BaselineCall
<1>2. ASSUME Due(k) # {}
      PROVE  Min(Due(k)) \in Due(k) /\ Min(Due(k)) \in DOMAIN BaselineSequence
  <2>1. Due(k) \in SUBSET Nat /\ Due(k) \subseteq DOMAIN BaselineSequence
    BY DEF Due, BaselineSequence
  <2> QED BY <1>2, <2>1, LeastExists
<1>3. action \in Menu
  <2>1. \A i \in DOMAIN BaselineSequence : BaselineSequence[i] \in Menu
    BY DEF Menu, Range
  <2> QED BY <1>1, <1>2, <2>1, MenuActions
<1>4. ASSUME action = "get_commit_diff" PROVE k.pending[at] = world.snap.sha /\ k.pending # <<>>
  <2>1. k.pending # <<>>
    <3>1. CASE Due(k) = {}
      BY <3>1 DEF Covered
    <3>2. CASE Due(k) # {}
      <4>1. Uninspected(k) # {}
        BY <1>1, <1>2, <1>4, <3>2 DEF Due
      <4>2. DOMAIN <<>> = {}
        BY EmptySeq
      <4> QED BY <4>1, <4>2 DEF Uninspected
    <3> QED BY <3>1, <3>2
  <2>2. /\ k.pending \in Seq({world.snap.sha}) /\ DOMAIN k.pending = 1 .. Len(k.pending)
        /\ Len(k.pending) \in Nat \ {0}
    BY <2>1, EmptySeq, LenProperties DEF Discovering
  <2>3. at \in 1 .. Len(k.pending)
    <3>1. CASE Uninspected(k) = {}
      BY <2>2, <3>1
    <3>2. CASE Uninspected(k) # {}
      <4>1. Uninspected(k) \in SUBSET Nat /\ Uninspected(k) \subseteq DOMAIN k.pending
        BY <2>2 DEF Uninspected
      <4> QED BY <2>2, <3>2, <4>1, LeastExists
    <3> QED BY <3>1, <3>2
  <2> QED BY <2>1, <2>2, <2>3, ElementOfSeq
<1>5. NoArg # NoSha
  BY DEF NoArg, NoSha
<1> QED BY <1>1, <1>3, <1>4, <1>5 DEF WorldOK

LEMMA ScriptKeeps ==
  ASSUME WorldOK(world), GatherInv, FallBack \/ FallBackCall \/ FallBackEnds
  PROVE  GatherInv'
<1>1. Bundled(k) /\ Discovering(k) /\ UNCHANGED <<world, node>>
  BY DEF GatherInv, FallBack, FallBackCall, FallBackEnds, Gathering, Scripted, choice
<1>2. CASE FallBackCall
  <2>1. PICK fails \in BOOLEAN :
          k' = Perform(world, k, BaselineCall(k)[1], BaselineCall(k)[2], fails)
    BY <1>2 DEF FallBackCall
  <2>2. BaselineCall(k)[1] \in Menu /\ BaselineCall(k)[2] # NoSha
    BY <1>1, <1>2, BaselineCallIsOne DEF FallBackCall
  <2>3. Bundled(k') /\ Discovering(k') /\ k'.ended = "falling back"
    BY <1>1, <1>2, <2>1, <2>2, PerformKeeps DEF FallBackCall, Scripted
  <2> QED BY <1>1, <2>3 DEF GatherInv, Bundled, Discovering, DeploysListed
<1>3. CASE FallBack \/ FallBackEnds
  <2>1. PICK how \in {"falling back", "fallback"} :
          /\ k' = [k EXCEPT !.ended = how]
          /\ how = "fallback" => Covered(k)
    BY <1>3 DEF FallBack, FallBackEnds
  <2>2. /\ DOMAIN k' = LoopFields /\ k'.evidence = k.evidence /\ k'.pending = k.pending
        /\ k'.gaps = k.gaps /\ k'.called = k.called /\ k'.ended = how
    BY <1>1, <2>1 DEF Bundled, LoopFields
  <2>3. Bundled(k') /\ Discovering(k')
    BY <1>1, <2>2, CountingKeeps
  <2>4. k'.ended = "fallback" => Covered(k')
    BY <2>1, <2>2 DEF Covered, Due, Uninspected
  <2> QED BY <1>1, <2>3, <2>4 DEF GatherInv, Bundled, Discovering, DeploysListed
<1> QED BY <1>2, <1>3

LEMMA RecallKeeps ==
  ASSUME WorldOK(world), NEW loop, Bundled(loop)
  PROVE  Bundled(Recall(world, loop))
<1> DEFINE past == [i \in DOMAIN world.episodes |->
                      Item("episode", world.episodes[i], NoSha)]
           open == Opening(loop.evidence \o past)
<1>1. IsBundle(past)
  <2>1. \A i \in DOMAIN world.episodes : IsItem(past[i])
    BY ItemIsItem
  <2>2. /\ DOMAIN past = DOMAIN world.episodes /\ IsList(world.episodes)
        /\ past = [i \in DOMAIN past |-> past[i]]
    BY DEF WorldOK
  <2> HIDE DEF past
  <2> QED BY <2>1, <2>2, ListIsBundle
<1>2. Bundled(open)
  <2> HIDE DEF past
  <2> QED BY <1>1, BundleGrows, OpeningKeeps DEF Bundled
<1>3. Recall(world, loop) =
        [open EXCEPT !.gaps = loop.gaps,
                     !.ended = IF loop.ended = "no" THEN "budget" ELSE loop.ended]
  BY DEF Recall
<1> HIDE DEF open
<1> QED BY <1>2, <1>3 DEF Bundled, LoopFields

LEMMA ScreenedIsBundle ==
  ASSUME NEW evidence, IsBundle(evidence)
  PROVE  IsBundle(Screened(evidence))
<1> DEFINE screened == Screened(evidence)
<1>1. ASSUME NEW item, IsItem(item) PROVE IsItem([item EXCEPT !.class = "QUARANTINED"])
  BY <1>1 DEF IsItem
<1>2. /\ DOMAIN screened = DOMAIN evidence
      /\ screened = [i \in DOMAIN screened |-> screened[i]]
  BY DEF Screened
<1>3. \A i \in DOMAIN evidence : IsItem(screened[i])
  <2>1. \A i \in DOMAIN evidence : IsItem(evidence[i])
    BY DEF IsBundle, Range
  <2> QED BY <1>1, <2>1 DEF Screened
<1> HIDE DEF screened
<1>4. IsBundle(screened)
  BY <1>2, <1>3, ListIsBundle DEF IsBundle
<1> QED BY <1>4 DEF screened

(* Which nodes gather; the others leave the bundle alone.                    *)
LEMMA GatherElsewhere ==
  ASSUME GatherInv, UNCHANGED <<world, k>>, node' # "gather_evidence" \/ UNCHANGED node
  PROVE  GatherInv'
BY DEF GatherInv, Bundled, Discovering, DeploysListed, Covered, Due, Uninspected

LEMMA NextGatherInv == IInv /\ GatherInv /\ [Next]_vars => GatherInv'
<1> SUFFICES ASSUME IInv, GatherInv, [Next]_vars PROVE GatherInv'
  OBVIOUS
<1>1. WorldOK(world)
  BY DEF IInv, ChoiceInv
<1>2. CASE Triage
  <2>1. IsBundle(TriageOf(world).evidence)
    BY ItemIsItem, OneItem DEF TriageOf
  <2>2. k' = Opening(TriageOf(world).evidence) /\ UNCHANGED world
    BY <1>2 DEF Triage, choice
  <2>3. k'.ended = "no"
    BY <2>2 DEF Opening
  <2>4. Bundled(k') /\ Discovering(k')
    BY <2>1, <2>2, OpeningKeeps
  <2> QED BY <2>2, <2>3, <2>4 DEF GatherInv, Bundled, Discovering, DeploysListed
<1>3. CASE OfflineDecides
  <2>1. Gathering /\ Act(OfflineDecision(k)[1], OfflineDecision(k)[2], 0)
    BY <1>3 DEF OfflineDecides
  <2>2. OfflineDecision(k)[2] \in {NoArg} \cup
          (IF k.pending = <<>> THEN {} ELSE {Head(k.pending)})
    BY DEF OfflineDecision
  <2>3. k.pending # <<>> => Head(k.pending) = world.snap.sha
    BY <2>1, HeadTailProperties DEF GatherInv, Gathering, Discovering
  <2>4. OfflineDecision(k)[2] # NoSha
    BY <1>1, <2>2, <2>3 DEF WorldOK, NoArg, NoSha
  <2> QED BY <1>1, <2>1, <2>4, ActKeeps
<1>4. CASE LiveDecides
  <2>1. PICK d \in LiveDecisions(world) : Gathering /\ Act(d[1], d[2], 1)
    BY <1>4 DEF LiveDecides
  <2>2. d[2] # NoSha
    BY <1>1, <2>1, InvestigationAssumption
       DEF LiveDecisions, WorldOK, NoArg, NoSha, Extra, InvestigationAssumption
  <2> QED BY <1>1, <2>1, <2>2, ActKeeps
<1>5. CASE FallBack \/ FallBackCall \/ FallBackEnds
  BY <1>1, <1>5, ScriptKeeps
<1>6. CASE StopGathering
  <2>1. k' = Recall(world, k) /\ node' = "security_screen"
    BY <1>6 DEF StopGathering
  <2> QED BY <1>1, <2>1, RecallKeeps DEF GatherInv, Bundled
<1>7. CASE SecurityScreen
  <2>1. k' = [k EXCEPT !.evidence = Screened(@)] /\ node' = "diagnose"
    BY <1>7 DEF SecurityScreen
  <2>2. DOMAIN k' = LoopFields /\ k'.evidence = Screened(k.evidence)
    BY <2>1 DEF GatherInv, Bundled, LoopFields
  <2> QED BY <2>1, <2>2, ScreenedIsBundle DEF GatherInv, Bundled
<1>8. CASE Diagnose \/ Plan
  <2>1. UNCHANGED <<world, k>> /\ node' # "gather_evidence"
    BY <1>8 DEF Diagnose, Plan, Escalate, Adopt, choice
  <2> QED BY <2>1, GatherElsewhere
<1>9. CASE Review \/ PolicyCheck \/ PassGate \/ Approve \/ Deny
  <2>1. UNCHANGED <<world, k>> /\ node' # "gather_evidence"
    BY <1>9 DEF Review, PolicyCheck, PassGate, Approve, Deny, Escalate, choice
  <2> QED BY <2>1, GatherElsewhere
<1>10. CASE Execute \/ Verify \/ Learn \/ WritePostmortem
  <2>1. UNCHANGED <<world, k>> /\ node' # "gather_evidence"
    BY <1>10 DEF Execute, Verify, Learn, WritePostmortem, Escalate, choice
  <2> QED BY <2>1, GatherElsewhere
<1>11. CASE UNCHANGED vars
  BY <1>11, GatherElsewhere DEF vars, choice
<1> QED BY <1>2, <1>3, <1>4, <1>5, <1>6, <1>7, <1>8, <1>9, <1>10, <1>11 DEF Next, Work

(* The bundle is a list of items in every state, and the loop loses no       *)
(* commit before it is inspected (knowledge.py run, _scripted_fallback).     *)
THEOREM BundleIsKept == Spec => [](IInv /\ GatherInv)
<1>1. Init => GatherInv
  <2> SUFFICES ASSUME Init PROVE GatherInv
    OBVIOUS
  <2>1. k = Opening(<<>>) /\ node = "triage"
    BY DEF Init
  <2> QED BY <2>1, NoItems, OpeningKeeps DEF GatherInv
<1>2. IInv /\ GatherInv /\ [Next]_vars => (IInv /\ GatherInv)'
  BY NextIInv, NextGatherInv
<1> QED BY InitIInv, <1>1, <1>2, PTL DEF Spec

(* The first commit of a bundle that has one.                               *)
LEMMA SuspectIsInBundle ==
  ASSUME NEW evidence, IsBundle(evidence),
         HasCommit(evidence) \/ SuspectCommit(evidence) # NoSha
  PROVE  /\ SuspectCommit(evidence) # NoSha
         /\ \E i \in DOMAIN evidence : /\ evidence[i].kind = "commit"
                                        /\ evidence[i].sha = SuspectCommit(evidence)
<1> DEFINE commits == {i \in DOMAIN evidence : evidence[i].kind = "commit"}
<1>1. commits # {}
  BY DEF SuspectCommit, HasCommit, Range
<1>2. SuspectCommit(evidence) = evidence[Min(commits)].sha
  BY <1>1 DEF SuspectCommit
<1>3. Min(commits) \in commits
  <2>1. commits \in SUBSET Nat
    BY LenProperties DEF IsBundle, IsList
  <2> HIDE DEF commits
  <2> QED BY <1>1, <2>1, LeastExists
<1>4. evidence[Min(commits)].kind = "commit" /\ Min(commits) \in DOMAIN evidence
  BY <1>3
<1>5. evidence[Min(commits)].sha # NoSha
  <2> HIDE DEF commits
  <2> QED BY <1>4 DEF IsBundle, IsItem, Range
<1> HIDE DEF commits
<1> QED BY <1>2, <1>4, <1>5

(* Whatever the model did before it was given up, the script leaves no tool  *)
(* of the baseline uncalled and no commit of the deploys uninspected.        *)
THEOREM FallbackIsAFloor == Spec => []FallbackCoversBaseline
<1>1. ASSUME GatherInv, node = "gather_evidence", k.ended = "fallback"
      PROVE  FallbackCoversBaseline
  <2>1. Due(k) = {} /\ k.pending = <<>> /\ Discovering(k) /\ IsBundle(k.evidence)
    BY <1>1 DEF GatherInv, Covered, Bundled
  <2>2. ASSUME NEW action \in Menu \ {"get_commit_diff"}
        PROVE  \E call \in k.called : call[1] = action
    <3>1. PICK i \in DOMAIN BaselineSequence : BaselineSequence[i] = action
      BY DEF Menu, Range
    <3> QED BY <2>1, <3>1 DEF Due
  <2>3. DeploysListed(k)
    BY <2>2, MenuActions DEF DeploysListed
  <2>4. world.snap.hasDeploy /\ k.gaps = <<>> => SuspectCommit(k.evidence) # NoSha
    BY <2>1, <2>3, SuspectIsInBundle DEF Discovering
  <2> QED BY <2>1, <2>2, <2>4 DEF FallbackCoversBaseline
<1>2. GatherInv => FallbackCoversBaseline
  <2>1. CASE node = "gather_evidence" /\ k.ended = "fallback"
    BY <1>1, <2>1
  <2>2. CASE ~(node = "gather_evidence" /\ k.ended = "fallback")
    BY <2>2 DEF FallbackCoversBaseline
  <2> QED BY <2>1, <2>2
<1> QED BY <1>2, BundleIsKept, PTL

(* Whatever a live model replied, in every world: what stands at the gate    *)
(* and is executed is on the menu, on the incident's service, aimed at a    *)
(* deploy that preceded every breach, and named by inspected evidence.      *)
THEOREM PlansAreGrounded == Spec => []GroundedAtTheGate
<1>1. ASSUME IInv, GatherInv, node \in AtGate PROVE GroundedAtTheGate
  <2> DEFINE rollbacks == {i \in DOMAIN plan.steps :
                             plan.steps[i].action = "rollback_deployment"}
  <2>1. /\ rca.status = "diagnosed" /\ PlanShape(plan.steps) /\ WorldOK(world)
        /\ ReviewPasses(world, Service, rca, plan.steps)
        /\ rca.suspect \in {NoSha, SuspectCommit(k.evidence)}
    BY <1>1 DEF IInv, ChoiceInv, PlanInv, ReviewInv, SuspectInv, Planned, Reviewed
  <2>2. Service = world.snap.service
    BY DEF Service, TriageOf, PagerDuty
  <2>3. ASSUME NEW i \in DOMAIN plan.steps
        PROVE  /\ \E system \in world.registered :
                    /\ plan.steps[i].action \in DOMAIN Tools[system]
                    /\ Tools[system][plan.steps[i].action] \in {"MEDIUM", "HIGH"}
               /\ "service" \in DOMAIN plan.steps[i].args
                    => plan.steps[i].args.service = world.snap.service
    <3>1. plan.steps[i].action \in WriteActions
      BY <2>1 DEF PlanShape
    <3>2. {"github", "kubernetes"} \subseteq world.registered
      BY <2>1 DEF WorldOK
    <3>3. ServiceScope(Service, plan.steps)
      BY <2>1 DEF ReviewPasses
    <3> QED BY <2>2, <3>1, <3>2, <3>3, WriteFacts DEF ServiceScope
  <2>4. rollbacks # {} =>
          /\ world.snap.hasDeploy
          /\ plan.steps[Min(rollbacks)].args.revision = world.snap.previous
          /\ \A i \in DOMAIN world.snap.p99 :
               world.snap.p99[i].ms > 2 * world.snap.p99[1].ms
                 => world.snap.deployedAt <= world.snap.p99[i].ts
          /\ rca.suspect # NoSha /\ rca.class = "deploy-regression/memory"
               => DiffRaisesResource(world.snap)
    BY <2>1, ReviewedRollback
  <2>5. rca.suspect # NoSha =>
          \E i \in DOMAIN k.evidence : /\ k.evidence[i].kind = "commit"
                                       /\ k.evidence[i].sha = rca.suspect
    BY <1>1, <2>1, SuspectIsInBundle DEF GatherInv, Bundled
  <2>6. plan.steps # <<>>
    BY <2>1 DEF PlanShape
  <2> QED BY <2>1, <2>3, <2>4, <2>5, <2>6 DEF GroundedAtTheGate
<1>2. IInv /\ GatherInv => GroundedAtTheGate
  <2>1. CASE node \in AtGate
    BY <1>1, <2>1
  <2>2. CASE node \notin AtGate
    BY <2>2 DEF GroundedAtTheGate, AtGate
  <2> QED BY <2>1, <2>2
<1> QED BY <1>2, BundleIsKept, PTL

-----------------------------------------------------------------------------
(***************************************************************************)
(* What is left of an incident.                                            *)
(***************************************************************************)

(* The nodes to come, the loops of the investigation to come, the rounds of  *)
(* the one it is in (the steps of the budget, or the tools of the menu the   *)
(* fallback has not called), and the commits the fallback has to inspect.    *)
Order ==
  [triage |-> 12, gather_evidence |-> 11, security_screen |-> 10, diagnose |-> 9,
   plan |-> 8, review |-> 7, policy_check |-> 6, approval_gate |-> 5, execute |-> 4,
   verify |-> 3, learn |-> 2, postmortem |-> 1]
NodesAhead == IF node \in DOMAIN Order THEN Order[node] ELSE 0
LoopsAhead == IF k.ended = "no" THEN 2 ELSE IF k.ended = "falling back" THEN 1 ELSE 0

Uncalled(loop) == {tool \in Menu : ~\E call \in loop.called : call[1] = tool}
RoundsAhead == IF Scripted THEN Cardinality(Uncalled(k)) ELSE MaxSteps - k.steps
ToInspect   == IF Scripted THEN Len(k.pending) ELSE 0

Left  == <<NodesAhead, LoopsAhead, RoundsAhead, ToInspect>>
Lower == LexProductOrdering(OpToRel(<, Nat), Nat, 4)

(* Every step lowers what is left.                                         *)
Progresses == [][(<<Left', Left>> \in Lower)]_vars

(* The loop stays within its budget.                                       *)
StepsInv == k.steps \in 0..MaxSteps

LEMMA LowerAt ==
  ASSUME NEW a \in [1..4 -> Nat], NEW b \in [1..4 -> Nat], NEW j \in 1..4,
         \A i \in 1..(j - 1) : a[i] = b[i],
         a[j] < b[j]
  PROVE  <<a, b>> \in Lower
<1>1. <<a[j], b[j]>> \in OpToRel(<, Nat)
  BY DEF OpToRel
<1> QED BY <1>1 DEF Lower, LexProductOrdering

(* A call crosses its tool off.                                            *)
LEMMA UncalledFacts ==
  ASSUME NEW loop
  PROVE  /\ Cardinality(Uncalled(loop)) \in Nat
         /\ \A after, tool, arg :
              after.called = loop.called \cup {<<tool, arg>>}
                => /\ Cardinality(Uncalled(after)) <= Cardinality(Uncalled(loop))
                   /\ tool \in Uncalled(loop)
                        => Cardinality(Uncalled(after)) < Cardinality(Uncalled(loop))
<1>1. IsFiniteSet(Menu)
  <2>1. BaselineSequence \in [1..6 -> Menu]
    BY MenuActions DEF BaselineSequence
  <2>2. BaselineSequence \in Surjection(1..6, Menu)
    BY <2>1 DEF Surjection, Menu, Range, BaselineSequence
  <2> QED BY <2>2, FS_NatSurjection DEF ExistsSurjection
<1>2. IsFiniteSet(Uncalled(loop)) /\ Cardinality(Uncalled(loop)) \in Nat
  BY <1>1, FS_Subset, FS_CardinalityType DEF Uncalled
<1>3. ASSUME NEW after, NEW tool, NEW arg,
             after.called = loop.called \cup {<<tool, arg>>}
      PROVE  Uncalled(after) = Uncalled(loop) \ {tool}
  <2>1. <<tool, arg>>[1] = tool
    OBVIOUS
  <2>2. \A other : (\E call \in after.called : call[1] = other)
                    <=> other = tool \/ \E call \in loop.called : call[1] = other
    BY <1>3, <2>1, Zenon
  <2> QED BY <2>2 DEF Uncalled
<1>4. ASSUME NEW tool \in Uncalled(loop)
      PROVE  Cardinality(Uncalled(loop) \ {tool}) = Cardinality(Uncalled(loop)) - 1
  BY <1>2, FS_RemoveElement
<1>5. ASSUME NEW tool, tool \notin Uncalled(loop)
      PROVE  Uncalled(loop) \ {tool} = Uncalled(loop)
  BY <1>5
<1>6. ASSUME NEW after, NEW tool, NEW arg,
             after.called = loop.called \cup {<<tool, arg>>}
      PROVE  /\ Cardinality(Uncalled(after)) <= Cardinality(Uncalled(loop))
             /\ tool \in Uncalled(loop)
                  => Cardinality(Uncalled(after)) < Cardinality(Uncalled(loop))
  <2>1. Uncalled(after) = Uncalled(loop) \ {tool}
    BY <1>3, <1>6
  <2>2. CASE tool \in Uncalled(loop)
    BY <1>2, <1>4, <2>1, <2>2
  <2>3. CASE tool \notin Uncalled(loop)
    BY <1>2, <1>5, <2>1, <2>3
  <2> QED BY <2>2, <2>3
<1> QED BY <1>2, <1>6

LEMMA WithoutShortens ==
  ASSUME NEW x, NEW s \in Seq({x}), s # <<>>
  PROVE  Len(Without(s, x)) < Len(s)
<1> DEFINE at == {i \in DOMAIN s : s[i] = x}
<1>1. Len(s) \in Nat \ {0} /\ DOMAIN s = 1 .. Len(s) /\ \A i \in 1 .. Len(s) : s[i] = x
  BY EmptySeq, LenProperties, ElementOfSeq
<1>2. Contains(s, x) /\ at # {} /\ at \in SUBSET Nat
  BY <1>1 DEF Contains
<1>3. Min(at) \in 1 .. Len(s)
  <2>1. Min(at) \in at
    <3> HIDE DEF at
    <3> QED BY <1>2, LeastExists
  <2> QED BY <1>1, <2>1
<1>4. ASSUME NEW m \in 1 .. Len(s) PROVE Len(RemoveAt(s, m)) < Len(s)
  <2> DEFINE front == SubSeq(s, 1, m - 1)
             rest  == SubSeq(s, m + 1, Len(s))
  <2>1. /\ front \in Seq({x}) /\ Len(front) = m - 1
        /\ rest \in Seq({x}) /\ Len(rest) = Len(s) - m
    <3>1. /\ m - 1 \in Int /\ m + 1 \in Int /\ 1 \in Int /\ Len(s) \in Int
          /\ \A i \in 1 .. m - 1 : s[i] \in {x}
          /\ \A i \in m + 1 .. Len(s) : s[i] \in {x}
      BY <1>1
    <3>2. front \in Seq({x}) /\ rest \in Seq({x})
      BY <3>1, SubSeqProperties
    <3>3. /\ Len(front) = IF 1 <= m - 1 THEN (m - 1) - 1 + 1 ELSE 0
          /\ Len(rest) = IF m + 1 <= Len(s) THEN Len(s) - (m + 1) + 1 ELSE 0
      BY <3>1, SubSeqProperties
    <3>4. m \in Int /\ Len(s) \in Int /\ 1 <= m /\ m <= Len(s)
      BY <1>1
    <3> HIDE DEF front, rest
    <3>5. Len(front) = m - 1
      BY <3>3, <3>4
    <3>6. Len(rest) = Len(s) - m
      BY <3>3, <3>4
    <3> QED BY <3>2, <3>5, <3>6
  <2>2. RemoveAt(s, m) = front \o rest
    BY DEF RemoveAt
  <2> HIDE DEF front, rest
  <2>3. Len(front \o rest) = Len(front) + Len(rest)
    BY <2>1, ConcatProperties
  <2> QED BY <1>1, <2>1, <2>2, <2>3
<1>5. Without(s, x) = RemoveAt(s, Min(at))
  BY <1>2 DEF Without
<1> HIDE DEF at
<1> QED BY <1>3, <1>4, <1>5

LEMMA PerformCounts ==
  ASSUME NEW loop, Bundled(loop), NEW action, NEW arg, NEW fails \in BOOLEAN
  PROVE  LET after == Perform(world, loop, action, arg, fails)
         IN  /\ after.called = loop.called \cup {<<action, arg>>}
             /\ after.steps = loop.steps /\ after.ended = loop.ended
             /\ action = "get_commit_diff" => after.pending = Without(loop.pending, arg)
<1> DEFINE noted == [loop EXCEPT !.called = @ \cup {<<action, arg>>}]
           ran   == RunTool(world, noted, action, arg, fails)
<1>1. /\ DOMAIN noted = LoopFields /\ noted.called = loop.called \cup {<<action, arg>>}
      /\ noted.steps = loop.steps /\ noted.ended = loop.ended
      /\ noted.pending = loop.pending
  BY DEF Bundled, LoopFields
<1>2. /\ DOMAIN ran = LoopFields /\ ran.called = noted.called
      /\ ran.steps = loop.steps /\ ran.ended = loop.ended
      /\ action = "get_commit_diff" => ran.pending = loop.pending
  <2>1. action = "get_commit_diff" => AppendNew(loop.pending, Discovered(world, action)) = loop.pending
    BY DEF Discovered, AppendNew
  <2> HIDE DEF noted
  <2> QED BY <1>1, <2>1 DEF RunTool, LoopFields
<1>3. Perform(world, loop, action, arg, fails) =
        [ran EXCEPT !.pending = IF action = "get_commit_diff" THEN Without(@, arg) ELSE @]
  BY DEF Perform
<1> HIDE DEF noted, ran
<1> QED BY <1>1, <1>2, <1>3 DEF LoopFields

LEMMA TakeCounts ==
  ASSUME NEW loop, Bundled(loop), loop.ended = "no",
         NEW action, NEW arg, NEW fails \in BOOLEAN
  PROVE  LET after == Take(world, loop, action, arg, fails)
         IN  after.steps = loop.steps + 1 /\ after.ended \in {"no", "model"}
<1> DEFINE stepped == [loop EXCEPT !.steps = @ + 1]
<1>1. /\ DOMAIN stepped = LoopFields /\ stepped.steps = loop.steps + 1
      /\ stepped.ended = "no" /\ Bundled(stepped)
  BY DEF Bundled, LoopFields
<1>2. Take(world, loop, action, arg, fails) =
        IF action = "finish" THEN [stepped EXCEPT !.ended = "model"]
        ELSE IF Idles(loop, action, arg) THEN stepped
        ELSE Perform(world, stepped, action, arg, fails)
  BY DEF Take
<1> HIDE DEF stepped
<1> QED BY <1>1, <1>2, PerformCounts DEF LoopFields

LEMMA DecidesCounts ==
  ASSUME GatherInv, StepsInv, OfflineDecides \/ LiveDecides
  PROVE  /\ Gathering /\ k.ended = "no" /\ UNCHANGED node
         /\ k.steps \in Nat /\ MaxSteps \in Nat /\ k.steps < MaxSteps
         /\ k'.steps = k.steps + 1 /\ k'.ended \in {"no", "model"}
<1>1. PICK action, arg, whims : Gathering /\ Act(action, arg, whims)
  BY DEF OfflineDecides, LiveDecides
<1>2. PICK fails \in BOOLEAN : k' = Take(world, k, action, arg, fails)
  BY <1>1 DEF Act
<1>3. Bundled(k) /\ k.ended = "no" /\ UNCHANGED node
  BY <1>1 DEF GatherInv, Gathering, Act
<1>4. k'.steps = k.steps + 1 /\ k'.ended \in {"no", "model"}
  BY <1>2, <1>3, TakeCounts
<1>5. k.steps \in Nat /\ MaxSteps \in Nat /\ k.steps < MaxSteps
  BY <1>1, InvestigationAssumption DEF Gathering, StepsInv, InvestigationAssumption
<1> QED BY <1>1, <1>3, <1>4, <1>5

(* Every other node leaves the count of the steps alone, or starts it anew. *)
LEMMA NextStepsInv == GatherInv /\ StepsInv /\ [Next]_vars => StepsInv'
<1> SUFFICES ASSUME GatherInv, StepsInv, [Next]_vars PROVE StepsInv'
  OBVIOUS
<1>1. CASE OfflineDecides \/ LiveDecides
  BY <1>1, DecidesCounts DEF StepsInv
<1>2. Bundled(k) /\ 0 \in 0..MaxSteps
  BY InvestigationAssumption DEF GatherInv, InvestigationAssumption
<1>3. CASE FallBackCall
  <2>1. PICK fails \in BOOLEAN :
          k' = Perform(world, k, BaselineCall(k)[1], BaselineCall(k)[2], fails)
    BY <1>3 DEF FallBackCall
  <2> QED BY <1>2, <2>1, PerformCounts DEF StepsInv
<1>4. CASE Triage \/ StopGathering
  <2>1. k'.steps = 0
    <3>1. k' = Opening(TriageOf(world).evidence) \/ k' = Recall(world, k)
      BY <1>4 DEF Triage, StopGathering
    <3>2. \A evidence : Opening(evidence).steps = 0 /\ DOMAIN Opening(evidence) = LoopFields
      BY DEF Opening, LoopFields
    <3>3. Recall(world, k).steps = 0
      BY <3>2 DEF Recall, LoopFields
    <3> QED BY <3>1, <3>2, <3>3
  <2> QED BY <1>2, <2>1 DEF StepsInv
<1>5. CASE FallBack \/ FallBackEnds \/ SecurityScreen
  <2>1. k'.steps = k.steps
    BY <1>2, <1>5 DEF FallBack, FallBackEnds, SecurityScreen, Bundled, LoopFields
  <2> QED BY <2>1 DEF StepsInv
<1>6. CASE \/ Diagnose \/ Plan \/ Review \/ PolicyCheck \/ PassGate \/ Approve \/ Deny
           \/ Execute \/ Verify \/ Learn \/ WritePostmortem \/ UNCHANGED vars
  <2>1. UNCHANGED k
    BY <1>6 DEF Diagnose, Plan, Review, PolicyCheck, PassGate, Approve, Deny, Execute,
                Verify, Learn, WritePostmortem, vars
  <2> QED BY <2>1 DEF StepsInv
<1> QED BY <1>1, <1>3, <1>4, <1>5, <1>6 DEF Next, Work

LEMMA LeftIsNat == GatherInv /\ StepsInv => Left \in [1..4 -> Nat]
<1> SUFFICES ASSUME GatherInv, StepsInv PROVE Left \in [1..4 -> Nat]
  OBVIOUS
<1>1. NodesAhead \in Nat /\ LoopsAhead \in Nat
  BY DEF NodesAhead, Order, LoopsAhead
<1>2. RoundsAhead \in Nat
  BY UncalledFacts, InvestigationAssumption
     DEF RoundsAhead, StepsInv, InvestigationAssumption
<1>3. ToInspect \in Nat
  BY LenProperties DEF ToInspect, Scripted, GatherInv, Discovering
<1> QED BY <1>1, <1>2, <1>3 DEF Left

LEMMA LeftIsNatNext == (GatherInv /\ StepsInv => Left \in [1..4 -> Nat])'
BY LeftIsNat, PTL

(* The node is done, and the run ends or goes on with a later one.          *)
LEMMA NodeLowers ==
  ASSUME GatherInv, StepsInv, (GatherInv /\ StepsInv)',
         \/ Triage \/ StopGathering \/ SecurityScreen \/ Diagnose \/ Plan \/ Review
         \/ PolicyCheck \/ PassGate \/ Approve \/ Deny \/ Execute \/ Verify \/ Learn
         \/ WritePostmortem
  PROVE  <<Left', Left>> \in Lower
<1>1. Left \in [1..4 -> Nat] /\ Left' \in [1..4 -> Nat]
  BY LeftIsNat, LeftIsNatNext
<1>2. \/ node = "triage" /\ node' = "gather_evidence"
      \/ node = "gather_evidence" /\ node' = "security_screen"
      \/ node = "security_screen" /\ node' = "diagnose"
      \/ node = "diagnose" /\ node' = "plan"
      \/ node = "plan" /\ node' = "review"
      \/ node = "review" /\ node' \in {"policy_check", "approval_gate"}
      \/ node = "policy_check" /\ node' = "approval_gate"
      \/ node = "approval_gate" /\ node' = "execute"
      \/ node = "execute" /\ node' = "verify"
      \/ node = "verify" /\ node' = "learn"
      \/ node = "learn" /\ node' = "postmortem"
      \/ node \in DOMAIN Order /\ node' \notin DOMAIN Order
  <2>1. CASE Triage \/ StopGathering \/ SecurityScreen
    BY <2>1 DEF Triage, StopGathering, SecurityScreen
  <2>2. CASE Diagnose
    BY <2>2 DEF Diagnose, Escalate, Order
  <2>3. CASE Plan
    BY <2>3 DEF Plan, Adopt, Escalate, Order
  <2>4. CASE Review \/ PolicyCheck
    BY <2>4 DEF Review, PolicyCheck, Escalate, Order
  <2>5. CASE PassGate \/ Approve \/ Deny \/ Execute
    BY <2>5 DEF PassGate, Approve, Deny, Execute, Order
  <2>6. CASE Verify \/ Learn \/ WritePostmortem
    BY <2>6 DEF Verify, Learn, WritePostmortem, Escalate, Order
  <2> QED BY <2>1, <2>2, <2>3, <2>4, <2>5, <2>6
<1>3. NodesAhead' < NodesAhead
  BY <1>2 DEF NodesAhead, Order
<1> QED BY <1>1, <1>3, LowerAt, 1 \in 1..4 DEF Left

(* A decision takes a step of the budget, or ends the loop; and so does the *)
(* end of the fallback, and its beginning the loop of the model.             *)
LEMMA DecisionLowers ==
  ASSUME GatherInv, StepsInv, (GatherInv /\ StepsInv)',
         OfflineDecides \/ LiveDecides \/ FallBack \/ FallBackEnds
  PROVE  <<Left', Left>> \in Lower
<1>1. Left \in [1..4 -> Nat] /\ Left' \in [1..4 -> Nat]
  BY LeftIsNat, LeftIsNatNext
<1>2. CASE OfflineDecides \/ LiveDecides
  <2>1. NodesAhead' = NodesAhead
    BY <1>2, DecidesCounts DEF NodesAhead
  <2>2. CASE k'.ended = "model"
    <3>1. LoopsAhead = 2 /\ LoopsAhead' = 0
      BY <1>2, <2>2, DecidesCounts DEF LoopsAhead
    <3> QED BY <1>1, <2>1, <3>1, LowerAt, 2 \in 1..4 DEF Left
  <2>3. CASE k'.ended = "no"
    <3>1. LoopsAhead' = LoopsAhead
      BY <1>2, <2>3, DecidesCounts DEF LoopsAhead
    <3>2. RoundsAhead = MaxSteps - k.steps /\ RoundsAhead' = MaxSteps - (k.steps + 1)
      BY <1>2, <2>3, DecidesCounts DEF RoundsAhead, Scripted
    <3>3. RoundsAhead' < RoundsAhead
      BY <1>2, <3>2, DecidesCounts
    <3> QED BY <1>1, <2>1, <3>1, <3>3, LowerAt, 3 \in 1..4 DEF Left
  <2> QED BY <1>2, <2>2, <2>3, DecidesCounts
<1>3. CASE FallBack \/ FallBackEnds
  <2>1. Bundled(k) /\ UNCHANGED node
    BY <1>3 DEF GatherInv, FallBack, FallBackEnds
  <2>2. \/ k.ended = "no" /\ k'.ended = "falling back"
        \/ k.ended = "falling back" /\ k'.ended = "fallback"
    BY <1>3, <2>1 DEF FallBack, FallBackEnds, Gathering, Scripted, Bundled, LoopFields
  <2>3. NodesAhead' = NodesAhead
    BY <2>1 DEF NodesAhead
  <2>4. \/ LoopsAhead = 2 /\ LoopsAhead' = 1
        \/ LoopsAhead = 1 /\ LoopsAhead' = 0
    BY <2>2 DEF LoopsAhead
  <2> QED BY <1>1, <2>3, <2>4, LowerAt, 2 \in 1..4 DEF Left
<1> QED BY <1>2, <1>3

(* A call of the fallback crosses off a tool of the menu, or inspects a      *)
(* commit and finds none.                                                  *)
LEMMA FallBackCallLowers ==
  ASSUME IInv, GatherInv, StepsInv, (GatherInv /\ StepsInv)', FallBackCall
  PROVE  <<Left', Left>> \in Lower
<1> DEFINE action == BaselineCall(k)[1]
           arg == BaselineCall(k)[2]
<1>1. Left \in [1..4 -> Nat] /\ Left' \in [1..4 -> Nat]
  BY LeftIsNat, LeftIsNatNext
<1>2. /\ WorldOK(world) /\ Bundled(k) /\ Discovering(k) /\ k.ended = "falling back"
      /\ UNCHANGED <<node, world>> /\ ~Covered(k) /\ Scripted
  BY DEF IInv, ChoiceInv, GatherInv, FallBackCall, Scripted, choice
<1>3. PICK fails \in BOOLEAN : k' = Perform(world, k, action, arg, fails)
  BY DEF FallBackCall
<1>4. /\ k'.called = k.called \cup {<<action, arg>>} /\ k'.ended = "falling back"
      /\ action = "get_commit_diff" => k'.pending = Without(k.pending, arg)
  <2> HIDE DEF action, arg
  <2>0. Bundled(k)
    BY <1>2
  <2>1. k'.called = k.called \cup {<<action, arg>>}
    BY <2>0, <1>3, PerformCounts
  <2>2. k'.ended = k.ended
    BY <2>0, <1>3, PerformCounts
  <2>3. action = "get_commit_diff" => k'.pending = Without(k.pending, arg)
    BY <2>0, <1>3, PerformCounts
  <2> QED BY <1>2, <2>1, <2>2, <2>3
<1>5. NodesAhead' = NodesAhead /\ LoopsAhead' = LoopsAhead /\ Scripted'
  BY <1>2, <1>4 DEF NodesAhead, LoopsAhead, Scripted
<1>6. /\ RoundsAhead = Cardinality(Uncalled(k)) /\ RoundsAhead' = Cardinality(Uncalled(k'))
      /\ ToInspect = Len(k.pending) /\ ToInspect' = Len(k'.pending)
  BY <1>2, <1>5 DEF RoundsAhead, ToInspect
<1>7. /\ RoundsAhead \in Nat /\ RoundsAhead' \in Nat /\ RoundsAhead' <= RoundsAhead
      /\ action \in Uncalled(k) => RoundsAhead' < RoundsAhead
  <2>1. Cardinality(Uncalled(k')) \in Nat
    BY UncalledFacts
  <2> HIDE DEF action, arg
  <2> QED BY <1>4, <1>6, <2>1, UncalledFacts
<1>8. action # "get_commit_diff" => action \in Uncalled(k)
  <2> SUFFICES ASSUME action # "get_commit_diff" PROVE action \in Uncalled(k)
    OBVIOUS
  <2>1. Due(k) # {} /\ action = BaselineSequence[Min(Due(k))]
    BY DEF BaselineCall
  <2>2. Due(k) \in SUBSET Nat
    BY DEF Due, BaselineSequence
  <2>3. Min(Due(k)) \in Due(k)
    BY <2>1, <2>2, LeastExists
  <2>4. ~\E call \in k.called : call[1] = action
    BY <2>1, <2>3 DEF Due
  <2> QED BY <1>2, <2>4, BaselineCallIsOne DEF Uncalled
<1>9. action = "get_commit_diff" => ToInspect' < ToInspect
  <2> SUFFICES ASSUME action = "get_commit_diff" PROVE Len(k'.pending) < Len(k.pending)
    BY <1>6
  <2>1. arg = world.snap.sha /\ k.pending # <<>>
    BY <1>2, BaselineCallIsOne
  <2>2. k'.pending = Without(k.pending, arg)
    BY <1>4
  <2> QED BY <1>2, <2>1, <2>2, WithoutShortens DEF Discovering
<1> HIDE DEF action
<1>10. CASE RoundsAhead' < RoundsAhead
  BY <1>1, <1>5, <1>10, LowerAt, 3 \in 1..4 DEF Left
<1>11. CASE RoundsAhead' = RoundsAhead
  <2>1. ToInspect' < ToInspect
    BY <1>7, <1>8, <1>9, <1>11
  <2> QED BY <1>1, <1>5, <1>11, <2>1, LowerAt, 4 \in 1..4 DEF Left
<1> QED BY <1>7, <1>10, <1>11

(* No incident goes on for ever, under either driver and whatever a live     *)
(* model replies: every step of it lowers what is left in a well-founded      *)
(* order (the loop and _scripted_fallback of knowledge.py, the order of the   *)
(* nodes of build_incident_workflow and of the graph).  The loop stays in its *)
(* budget.                                                                 *)
THEOREM IncidentsRunOut ==
  /\ IsWellFoundedOn(Lower, [1..4 -> Nat])
  /\ Spec => [](Left \in [1..4 -> Nat] /\ StepsInv) /\ Progresses
<1>1. IsWellFoundedOn(Lower, [1..4 -> Nat])
  BY NatLessThanWellFounded, WFLexProductOrdering DEF Lower
<1>2. Init => StepsInv
  BY InvestigationAssumption DEF Init, Opening, StepsInv, InvestigationAssumption
<1>3. ASSUME IInv, GatherInv, StepsInv, (GatherInv /\ StepsInv)', Next
      PROVE  <<Left', Left>> \in Lower
  BY <1>3, NodeLowers, DecisionLowers, FallBackCallLowers DEF Next, Work
<1> QED BY <1>1, <1>2, <1>3, NextStepsInv, LeftIsNat, BundleIsKept, PTL DEF Spec, Progresses

-----------------------------------------------------------------------------
(***************************************************************************)
(* The policy.                                                             *)
(***************************************************************************)

(* A verdict denies, or asks of whom it does not deny at least as much.     *)
AsStrict(strict, loose) ==
  strict.allowed => /\ loose.allowed
                    /\ loose.requiresApproval => strict.requiresApproval
                    /\ loose.tier <= strict.tier

(* A step that is as risky, and no more compensable.                        *)
AsRisky(catalog, risky, mild) ==
  /\ RiskLevel[catalog[mild.action].risk] <= RiskLevel[catalog[risky.action].risk]
  /\ catalog[risky.action].compensable => catalog[mild.action].compensable

LEMMA EvaluateIsMonotone ==
  ASSUME NEW mild \in DOMAIN RiskLevel, NEW risky \in DOMAIN RiskLevel,
         RiskLevel[mild] <= RiskLevel[risky],
         NEW environment, NEW stricter \in {environment, "prod"},
         NEW sure \in BOOLEAN, NEW confident \in BOOLEAN, confident => sure,
         NEW undoable \in BOOLEAN, NEW compensable \in BOOLEAN, compensable => undoable
  PROVE  /\ AsStrict(Evaluate(risky, stricter, confident, compensable),
                     Evaluate(mild, environment, sure, undoable))
         /\ Evaluate(mild, environment, sure, undoable).tier \in 0..3
<1> DEFINE m == RiskLevel[mild]
           r == RiskLevel[risky]
<1>1. m \in 0..4 /\ r \in 0..4 /\ m <= r
  BY DEF RiskLevel
<1>2. /\ RiskLevel["CRITICAL"] = 4 /\ RiskLevel["HIGH"] = 3 /\ RiskLevel["MEDIUM"] = 2
  BY DEF RiskLevel
<1>3. ASSUME NEW risk, NEW place, NEW certain \in BOOLEAN, NEW undo \in BOOLEAN,
             RiskLevel[risk] \in 0..4
      PROVE  LET d == Evaluate(risk, place, certain, undo)
                 n == RiskLevel[risk]
             IN  /\ d.allowed <=> ~(n = 4 /\ place = "prod")
                 /\ d.requiresApproval <=>
                      /\ d.allowed
                      /\ \/ n >= 3 /\ ~undo
                         \/ n >= 2 /\ (place = "prod" \/ ~certain)
                 /\ d.tier = IF ~d.allowed THEN 0
                             ELSE IF n >= 3 /\ ~undo THEN 3
                             ELSE IF n >= 3 /\ place = "prod" THEN 2
                             ELSE IF n >= 2 /\ (place = "prod" \/ ~certain) THEN 1 ELSE 0
  BY <1>2, <1>3 DEF Evaluate, Decision
<1> QED BY <1>1, <1>3 DEF AsStrict

LEMMA GreatestTier ==
  ASSUME NEW T \in SUBSET (0..3), T # {}
  PROVE  LET top == CHOOSE t \in T : \A u \in T : u <= t
         IN  top \in T /\ \A u \in T : u <= top
<1>1. \E t \in T : \A u \in T : u <= t
  <2>1. \A t \in T : t \in {0, 1, 2, 3}
    OBVIOUS
  <2>2. CASE 3 \in T
    BY <2>1, <2>2
  <2>3. CASE 3 \notin T /\ 2 \in T
    BY <2>1, <2>3
  <2>4. CASE 3 \notin T /\ 2 \notin T /\ 1 \in T
    BY <2>1, <2>4
  <2>5. CASE 3 \notin T /\ 2 \notin T /\ 1 \notin T
    <3>1. \A t \in T : t = 0
      BY <2>1, <2>5
    <3>2. PICK t \in T : t = 0
      BY <3>1
    <3>3. \A u \in T : u <= t
      BY <3>1, <3>2
    <3> QED BY <3>3
  <2> QED BY <2>2, <2>3, <2>4, <2>5
<1> QED BY <1>1

(* A plan that another covers with steps as risky is never judged more       *)
(* strictly than it, nor one in prod less strictly than elsewhere, nor a     *)
(* confident one more strictly: no step that is added to a plan, and no      *)
(* confidence that is lost, loosens the verdict (PolicyEngine.evaluate and   *)
(* evaluate_plan, whose rules are first-match and might shadow each other). *)
THEOREM PolicyIsMonotone ==
  ASSUME NEW catalog,
         \A name \in DOMAIN catalog : /\ catalog[name].risk \in DOMAIN RiskLevel
                                      /\ catalog[name].compensable \in BOOLEAN,
         NEW mild, \A i \in DOMAIN mild : mild[i].action \in DOMAIN catalog,
         NEW risky, \A i \in DOMAIN risky : risky[i].action \in DOMAIN catalog,
         \A i \in DOMAIN mild : \E j \in DOMAIN risky : AsRisky(catalog, risky[j], mild[i]),
         NEW environment, NEW stricter \in {environment, "prod"},
         NEW sure \in BOOLEAN, NEW confident \in BOOLEAN, confident => sure
  PROVE  AsStrict(EvaluatePlan(catalog, risky, stricter, confident),
                  EvaluatePlan(catalog, mild, environment, sure))
<1> DEFINE Rule(step, place, certain) ==
             Evaluate(catalog[step.action].risk, place, certain,
                      catalog[step.action].compensable)
           strict == {Rule(risky[j], stricter, confident) : j \in DOMAIN risky}
           loose  == {Rule(mild[i], environment, sure) : i \in DOMAIN mild}
           Tiers(decisions) == {d.tier : d \in decisions} \cup {0}
           Top(tiers) == CHOOSE t \in tiers : \A u \in tiers : u <= t
<1>1. \A d \in loose : \E e \in strict : AsStrict(e, d)
  <2> SUFFICES ASSUME NEW i \in DOMAIN mild
               PROVE  \E e \in strict : AsStrict(e, Rule(mild[i], environment, sure))
    OBVIOUS
  <2>1. PICK j \in DOMAIN risky : AsRisky(catalog, risky[j], mild[i])
    OBVIOUS
  <2>2. AsStrict(Rule(risky[j], stricter, confident), Rule(mild[i], environment, sure))
    BY <2>1, EvaluateIsMonotone DEF AsRisky
  <2> QED BY <2>2
<1>2. \A d \in strict \cup loose : d.tier \in 0..3
  <2>1. ASSUME NEW name \in DOMAIN catalog, NEW place, NEW certain \in BOOLEAN
        PROVE  Evaluate(catalog[name].risk, place, certain, catalog[name].compensable).tier
                 \in 0..3
    <3>1. RiskLevel[catalog[name].risk] <= RiskLevel[catalog[name].risk]
      BY DEF RiskLevel
    <3> QED BY <3>1, EvaluateIsMonotone
  <2> QED BY <2>1
<1>3. /\ EvaluatePlan(catalog, risky, stricter, confident) =
           [allowed |-> \A d \in strict : d.allowed,
            requiresApproval |-> \E d \in strict : d.requiresApproval,
            tier |-> Top(Tiers(strict))]
      /\ EvaluatePlan(catalog, mild, environment, sure) =
           [allowed |-> \A d \in loose : d.allowed,
            requiresApproval |-> \E d \in loose : d.requiresApproval,
            tier |-> Top(Tiers(loose))]
  BY DEF EvaluatePlan
<1> HIDE DEF strict, loose
<1>4. ASSUME \A d \in strict : d.allowed
      PROVE  /\ \A d \in loose : d.allowed
             /\ (\E d \in loose : d.requiresApproval) => \E d \in strict : d.requiresApproval
             /\ \A d \in loose : \E e \in strict : d.tier <= e.tier
  BY <1>1, <1>4 DEF AsStrict
<1>5. /\ Tiers(strict) \in SUBSET (0..3) /\ Tiers(strict) # {}
      /\ Tiers(loose) \in SUBSET (0..3) /\ Tiers(loose) # {}
  BY <1>2
<1>6. /\ Top(Tiers(strict)) \in Tiers(strict) /\ \A u \in Tiers(strict) : u <= Top(Tiers(strict))
      /\ Top(Tiers(loose)) \in Tiers(loose)
  <2> HIDE DEF Tiers
  <2> QED BY <1>5, GreatestTier
<1> HIDE DEF Top
<1>7. ASSUME \A d \in strict : d.allowed PROVE Top(Tiers(loose)) <= Top(Tiers(strict))
  <2>1. CASE Top(Tiers(loose)) = 0
    BY <1>5, <1>6, <2>1
  <2>2. CASE \E d \in loose : Top(Tiers(loose)) = d.tier
    <3>1. PICK d \in loose, e \in strict : Top(Tiers(loose)) = d.tier /\ d.tier <= e.tier
      BY <1>4, <1>7, <2>2
    <3>2. e.tier \in Tiers(strict)
      OBVIOUS
    <3>3. e.tier <= Top(Tiers(strict))
      <4> HIDE DEF Tiers
      <4> QED BY <1>6, <3>2
    <3>4. d.tier \in Nat /\ e.tier \in Nat
      BY <1>2
    <3>5. Top(Tiers(strict)) \in Nat
      <4> HIDE DEF Tiers
      <4> QED BY <1>5, <1>6
    <3> QED BY <3>1, <3>3, <3>4, <3>5
  <2> QED BY <1>6, <2>1, <2>2
<1> QED BY <1>3, <1>4, <1>7 DEF AsStrict

=============================================================================
