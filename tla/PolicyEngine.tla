----------------------------- MODULE PolicyEngine -----------------------------
(***************************************************************************)
(* policy/engine.py: the first-match rules that admit a write, a plan and a *)
(* change.                                                                 *)
(***************************************************************************)
EXTENDS Naturals, Sequences

RiskLevel == [READ |-> 0, LOW |-> 1, MEDIUM |-> 2, HIGH |-> 3, CRITICAL |-> 4]

Decision(rule, allowed, requiresApproval, tier) ==
  [rule |-> rule, allowed |-> allowed, requiresApproval |-> requiresApproval,
   tier |-> tier]

(* confident says whether the confidence reaches AUTO_CONFIDENCE.           *)
Evaluate(risk, environment, confident, compensable) ==
  LET prod == environment = "prod"
      AtOrAbove(level) == RiskLevel[risk] >= RiskLevel[level]
  IN  IF AtOrAbove("CRITICAL") /\ prod
      THEN Decision("R1-critical-prod", FALSE, FALSE, 0)
      ELSE IF AtOrAbove("HIGH") /\ ~compensable
      THEN Decision("R2-noncompensable", TRUE, TRUE, 3)
      ELSE IF AtOrAbove("HIGH") /\ prod
      THEN Decision("R3-high-prod", TRUE, TRUE, 2)
      ELSE IF AtOrAbove("MEDIUM") /\ (prod \/ ~confident)
      THEN Decision("R4-medium-gated", TRUE, TRUE, 1)
      ELSE IF AtOrAbove("MEDIUM")
      THEN Decision("R5-medium-auto", TRUE, FALSE, 0)
      ELSE Decision("R6-read-low", TRUE, FALSE, 0)

(* A plan is as strict as its strictest step, and denied with any of them.   *)
EvaluatePlan(catalog, steps, environment, confident) ==
  LET decisions == {Evaluate(catalog[steps[i].action].risk, environment, confident,
                             catalog[steps[i].action].compensable) : i \in DOMAIN steps}
      tiers == {d.tier : d \in decisions} \cup {0}
  IN  [allowed |-> \A d \in decisions : d.allowed,
       requiresApproval |-> \E d \in decisions : d.requiresApproval,
       tier |-> CHOOSE t \in tiers : \A u \in tiers : u <= t]

(* Change admission by the band of the score.                               *)
ChangeVerdict(rule, allowed, requiresApproval, tier, canary) ==
  [rule |-> rule, allowed |-> allowed, requiresApproval |-> requiresApproval,
   tier |-> tier, canary |-> canary]

EvaluateChange(band, freeze) ==
  IF freeze /\ band # "LOW" THEN ChangeVerdict("C1-freeze", FALSE, FALSE, 0, FALSE)
  ELSE IF band = "HIGH" THEN ChangeVerdict("C2-high", TRUE, TRUE, 2, TRUE)
  ELSE IF band = "MEDIUM" THEN ChangeVerdict("C3-medium", TRUE, FALSE, 0, TRUE)
  ELSE ChangeVerdict("C4-low", TRUE, FALSE, 0, FALSE)
=============================================================================
