------------------------------ MODULE ChangeRisk -------------------------------
(***************************************************************************)
(* The learning flywheel across requests: incidents add verified episodes   *)
(* to the shared memory (_learn of workflows/incident_remediation.py), and  *)
(* POST /v1/changes/score scores a change against it: agents/change_intel.py *)
(* and workflows/change_risk.py, assess -> score -> policy_check ->          *)
(* approval_gate -> record.                                                *)
(***************************************************************************)
EXTENDS EpisodicMemory, PolicyEngine, Relation, FiniteSetsExt

CONSTANTS Changes,      \* changes clients ask to have scored
          Incidents     \* what incidents learn: records of tokens and service

ASSUME ChangeAssumption == \A change \in Changes : change.peakWindow \in BOOLEAN

VARIABLE request        \* per thread: the change it scores, and how far it is

vars == <<memoryVars, request>>

(* default_graph(): caller and callee.                                      *)
CallsGraph ==
  { <<"checkout-service", "payments-service">>, <<"checkout-service", "search-api">>,
    <<"orders-service", "payments-service">>, <<"storefront-web", "checkout-service">>,
    <<"storefront-web", "search-api">>, <<"storefront-web", "orders-service">>,
    <<"mobile-bff", "orders-service">> }

Services == UNION {{call[1], call[2]} : call \in CallsGraph}

(* Every service whose call path reaches the given one.                     *)
Reaches ==
  TransitiveClosure([pair \in Services \X Services |-> pair \in CallsGraph], Services)

Dependents(service) ==
  {s \in Services : service \in Services /\ Reaches[s, service]}

Capped(cap, points) == Min({cap, points})

ScoreOf(matched, blastRadius, peakWindow, incidentCount) ==
  Capped(40, 20 * matched) + Capped(30, 10 * blastRadius)
    + (IF peakWindow THEN 15 ELSE 0) + Capped(15, 5 * incidentCount)

BandOf(score) ==
  IF score >= 70 THEN "HIGH" ELSE IF score >= 40 THEN "MEDIUM" ELSE "LOW"

Idle == [stage |-> "idle", matched |-> 0, history |-> 0]

Init ==
  /\ MemoryInit
  /\ request = [t \in Threads |-> Idle]

(* assess: two searches, the first filtered for verified incidents, the      *)
(* second for incidents of the service, each after taking its k best.      *)
SignatureK == 3
HistoryK == 10

Submit(t, change) ==
  /\ request[t].stage = "idle"
  /\ request' = [request EXCEPT ![t] =
                   [stage |-> "signature", change |-> change, matched |-> 0,
                    history |-> 0]]
  /\ StartSearch(t, change.title \cup change.diff, SignatureK)
  /\ UNCHANGED <<durable, episodes, rows, dbLock, adding, added, acknowledged,
                 restarts>>

Search(t) ==
  /\ request[t].stage \in {"signature", "history"}
  /\ Visit(t)
  /\ UNCHANGED request

(* Fault: recorded decisions count.                                        *)
MatchAnyEpisode(t) ==
  /\ request[t].stage = "signature" /\ ~Searching(t)
  /\ request' = [request EXCEPT ![t].stage = "history",
                                ![t].matched = Cardinality(Found(t))]
  /\ StartSearch(t, request[t].change.serviceTokens, HistoryK)
  /\ UNCHANGED <<durable, episodes, rows, dbLock, adding, added, acknowledged,
                 restarts>>

MatchSignature(t) ==
  /\ request[t].stage = "signature" /\ ~Searching(t)
  /\ request' = [request EXCEPT ![t].stage = "history",
                   ![t].matched = Cardinality({e \in Found(t) :
                                                 IsIncident(e) /\ e.verified})]
  /\ StartSearch(t, request[t].change.serviceTokens, HistoryK)
  /\ UNCHANGED <<durable, episodes, rows, dbLock, adding, added, acknowledged,
                 restarts>>

CountHistory(t) ==
  /\ request[t].stage = "history" /\ ~Searching(t)
  /\ request' = [request EXCEPT ![t].stage = "score",
                   ![t].history = Cardinality({e \in Found(t) :
                       IsIncident(e) /\ e.service = request[t].change.service})]
  /\ scan' = [scan EXCEPT ![t] = NotScanning]
  /\ UNCHANGED <<durable, episodes, rows, dbLock, adding, added, acknowledged,
                 restarts>>

BandWith(change, matched, history) ==
  BandOf(ScoreOf(matched, Cardinality(Dependents(change.service)),
                 change.peakWindow, history))

Band(t) == BandWith(request[t].change, request[t].matched, request[t].history)

(* score and policy_check: a frozen change fails; a gate pauses the run, and *)
(* nobody keeps it to resume it.                                           *)
Decide(t) ==
  /\ request[t].stage = "score"
  /\ LET verdict == EvaluateChange(Band(t), request[t].change.freeze)
     IN  request' = [request EXCEPT ![t].stage =
                       IF ~verdict.allowed THEN "failed"
                       ELSE IF verdict.requiresApproval THEN "paused" ELSE "record"]
  /\ UNCHANGED memoryVars

(* _record: the summary of a decision repeats the title of the change.       *)
RecordDecision(t) ==
  /\ request[t].stage = "record"
  /\ LET change == request[t].change
     IN  StartAdd(t, change.title \cup change.serviceTokens \cup {"change", "scored"},
                  change.service, "none", FALSE)
  /\ request' = [request EXCEPT ![t].stage = "recording"]

(* An incident on another thread of the API reaches its learn node; only a   *)
(* verified remediation does.                                              *)
LearnIncident(t, incident) ==
  /\ request[t].stage = "idle"
  /\ StartAdd(t, incident.tokens, incident.service, "deploy-regression/memory", TRUE)
  /\ request' = [request EXCEPT ![t].stage = "learning"]

AddStep(t) ==
  /\ Measure(t) \/ Cut(t) \/ Insert(t) \/ InsertFails(t)
  /\ UNCHANGED request

FinishAdd(t) ==
  /\ adding[t].stage \in {"added", "raised"}
  /\ EndAdd(t)
  /\ request' = [request EXCEPT ![t].stage =
                   IF @ = "learning" THEN "learned"
                   ELSE IF adding[t].stage = "added" THEN "succeeded" ELSE "failed"]
  /\ UNCHANGED <<durable, episodes, rows, dbLock, scan, added, acknowledged,
                 restarts>>

Answered(t) ==
  request[t].stage \in {"succeeded", "failed", "paused", "learned"}

Answer(t) ==
  /\ Answered(t)
  /\ request' = [request EXCEPT ![t] = Idle]
  /\ UNCHANGED memoryVars

Restart ==
  /\ MemoryRestart
  /\ request' = [t \in Threads |-> Idle]

Next ==
  \/ \E t \in Threads :
       \/ \E change \in Changes : CanAdd /\ Submit(t, change)
       \/ \E incident \in Incidents : LearnIncident(t, incident)
       \/ Search(t) \/ MatchSignature(t) \/ CountHistory(t)
       \/ Decide(t) \/ RecordDecision(t)
       \/ AddStep(t) \/ FinishAdd(t) \/ Answer(t)
  \/ Restart

Spec == Init /\ [][Next]_vars
-----------------------------------------------------------------------------
Rank(band) == CASE band = "LOW" -> 0 [] band = "MEDIUM" -> 1 [] band = "HIGH" -> 2

Precedents(change) ==
  {e \in added : /\ IsIncident(e) /\ e.verified
                 /\ e.tokens \cap (change.title \cup change.diff) # {}}

Scored(t) == request[t].stage \in {"score", "paused", "record"}

(* "Recorded change decisions are not incidents and must not inflate the     *)
(* risk of later changes": a change is never banded above what the verified *)
(* incidents it resembles, and the incidents of its service, account for,   *)
(* whoever writes the list while it is searched (change_intel.py).          *)
OnlyIncidentsInflate ==
  \A t \in Threads : Scored(t) =>
    LET change == request[t].change
    IN  Rank(Band(t)) <=
          Rank(BandWith(change, Cardinality(Precedents(change)),
                        Cardinality({e \in added : /\ IsIncident(e)
                                                   /\ e.service = change.service})))

(* The episodes past incidents wrote are what the agent retrieves before the *)
(* next similar change ships: with a verified one in memory, one is found   *)
(* (change_intel.py, module comment).                                      *)
PrecedentRetrieved ==
  \A t \in Threads : Scored(t) /\ durable /\ Seed \in Precedents(request[t].change)
    => request[t].matched > 0
=============================================================================
