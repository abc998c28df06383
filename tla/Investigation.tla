---------------------------- MODULE Investigation -----------------------------
(***************************************************************************)
(* Gathering evidence: the context's bundle (core/context.py), the tool     *)
(* menu (agents/investigation.py), the loop of the knowledge agent with its *)
(* scripted fallback (agents/knowledge.py), the policy the offline backend  *)
(* follows in that loop (gateway/offline.py) and the security screen        *)
(* (agents/security.py).                                                   *)
(*                                                                         *)
(* An evidence item keeps its kind, its classification, its marks (see      *)
(* GoldenScenarios) and, for a commit, the sha its citation refers to.      *)
(***************************************************************************)
EXTENDS GoldenScenarios, SequencesExt

CONSTANTS MaxSteps,     \* MAX_STEPS of the loop
          BogusShas     \* shas of no deploy, which a model may still ask for

ASSUME InvestigationAssumption ==
  /\ MaxSteps \in Nat \ {0}
  /\ BogusShas \cap {s.snap.sha : s \in AllScenarios} = {}
  /\ NoSha \notin BogusShas

Item(kind, marks, sha) ==
  [kind |-> kind, marks |-> marks, sha |-> sha, class |-> "INTERNAL"]

Kinds(evidence) == {evidence[i].kind : i \in DOMAIN evidence}

ClassOrder ==
  [PUBLIC |-> 0, INTERNAL |-> 1, CONFIDENTIAL |-> 2, RESTRICTED |-> 3]

(* Items whose content evidence_digest() shows a model, at the default      *)
(* clearance INTERNAL; the others keep their number but not their content.  *)
Visible(evidence) ==
  {i \in DOMAIN evidence :
     /\ evidence[i].class # "QUARANTINED"
     /\ ClassOrder[evidence[i].class] <= ClassOrder["INTERNAL"]}

Digest(evidence) == UNION {evidence[i].marks : i \in Visible(evidence)}

(* Triage: the alert is the first evidence; the severity is a table.        *)
SeverityOf(urgency, impact) ==
  CASE urgency = "high" /\ impact -> "SEV2"
    [] urgency = "low" /\ ~impact -> "SEV4"
    [] OTHER                      -> "SEV3"

TriageOf(world) ==
  LET alert == PagerDuty(world.snap)
  IN  [service |-> alert.service,
       severity |-> SeverityOf(alert.urgency, alert.impact),
       evidence |-> <<Item("alert", alert.title, NoSha)>>]
-----------------------------------------------------------------------------
(***************************************************************************)
(* The menu.  A tool is called with NoArg, with a sha, or with any other    *)
(* arguments (Extra), which change nothing of what it finds but make the    *)
(* call a new one for duplicate rejection.                                 *)
(***************************************************************************)
NoArg == "no arguments"
Extra == "other arguments"

BaselineSequence ==
  <<"query_metrics", "list_recent_deploys", "get_commit_diff", "get_events",
    "get_thread", "search_runbooks">>

Menu == Range(BaselineSequence)

IsSha(arg) == arg \notin {NoArg, Extra}

(* A get_commit_diff without a sha, and a get_thread without a connector,   *)
(* do nothing and do not count.                                            *)
Counted(world, action, arg) ==
  /\ action = "get_commit_diff" => IsSha(arg)
  /\ action = "get_thread" => "slack" \in world.registered

(* A call that reaches a connector may end in a TransientError.             *)
MayFail(world, action, arg) ==
  action # "search_runbooks" /\ Counted(world, action, arg)

(* The evidence a call that does not fail adds to the bundle.               *)
Found(world, action, arg) ==
  CASE action = "query_metrics" -> <<Item("metrics", {}, NoSha)>>
    [] action = "list_recent_deploys" ->
         <<Item("deploy",
                IF RecentDeploys(world.snap) = <<>> THEN {"nothing"} ELSE {},
                NoSha)>>
    [] action = "get_commit_diff" ->
         IF IsSha(arg)
         THEN <<Item("commit", CommitDiff(world.snap, arg).title, arg)>>
         ELSE <<>>
    [] action = "get_events" ->
         <<Item("k8s-event",
                UNION {EventMarks(PodEvents(world.snap)[i]) :
                         i \in DOMAIN PodEvents(world.snap) \cap 1..2},
                NoSha)>>
    [] action = "get_thread" ->
         IF "slack" \notin world.registered \/ Thread(world.snap) = <<>> THEN <<>>
         ELSE <<[Item("discussion", Head(Thread(world.snap)), NoSha)
                   EXCEPT !.class = "CONFIDENTIAL"]>>
    [] action = "search_runbooks" ->
         [i \in DOMAIN world.guidance |->
            Item(world.guidance[i].kind, world.guidance[i].marks, NoSha)]

(* Commits a call discovers.                                               *)
Discovered(world, action) ==
  IF action = "list_recent_deploys" /\ RecentDeploys(world.snap) # <<>>
  THEN RecentDeploys(world.snap)[1].commits ELSE <<>>

(* Found commits join the pending ones once; a removal takes the first        *)
(* occurrence, as list.remove does.  A deploy of the fakes has one commit.   *)
AppendNew(s, t) == IF t = <<>> \/ Contains(s, t[1]) THEN s ELSE Append(s, t[1])

Without(s, x) ==
  IF Contains(s, x) THEN RemoveAt(s, Min({i \in DOMAIN s : s[i] = x})) ELSE s

(***************************************************************************)
(* The state of the loop: the bundle, the calls made, the commits still to  *)
(* inspect, how many queries were attempted, which of them left a gap, the  *)
(* decisions taken (the trajectory) and how the loop ended.                *)
(***************************************************************************)
Opening(evidence) ==
  [evidence |-> evidence, called |-> {}, pending |-> <<>>, attempted |-> 0,
   gaps |-> <<>>, steps |-> 0, ended |-> "no"]

RunTool(world, k, action, arg, fails) ==
  IF fails
  THEN [k EXCEPT !.attempted = @ + 1, !.gaps = Append(@, action)]
  ELSE [k EXCEPT !.attempted = @ + IF Counted(world, action, arg) THEN 1 ELSE 0,
                 !.evidence = @ \o Found(world, action, arg),
                 !.pending = AppendNew(@, Discovered(world, action))]

(* A call: a commit once asked for is no longer pending, found or not.        *)
Perform(world, k, action, arg, fails) ==
  LET ran == RunTool(world, [k EXCEPT !.called = @ \cup {<<action, arg>>}],
                     action, arg, fails)
  IN  [ran EXCEPT !.pending =
         IF action = "get_commit_diff" THEN Without(@, arg) ELSE @]

Idles(k, action, arg) == action \notin Menu \/ <<action, arg>> \in k.called

(* Fault: only calls consume a step.                                       *)
TakeCountingCalls(world, k, action, arg, fails) ==
  LET stepped == [k EXCEPT !.steps = @ + 1]
  IN  IF action = "finish" THEN [stepped EXCEPT !.ended = "model"]
      ELSE IF Idles(k, action, arg) THEN k
      ELSE Perform(world, stepped, action, arg, fails)

(* One decision: finish, an action off the menu, a repeated call (both only *)
(* consume a step) or a call.                                              *)
Take(world, k, action, arg, fails) ==
  LET stepped == [k EXCEPT !.steps = @ + 1]
  IN  IF action = "finish" THEN [stepped EXCEPT !.ended = "model"]
      ELSE IF Idles(k, action, arg) THEN stepped
      ELSE Perform(world, stepped, action, arg, fails)

(***************************************************************************)
(* The floor under the loop after two invalid replies, one call at a time:   *)
(* in the order of the baseline, every tool not called before, the commits  *)
(* pending at its turn among them; then whatever commit is still pending,    *)
(* the ones a repeated query has brought back.  (The code does not note the  *)
(* calls of that last pass, which nothing reads.)                          *)
(***************************************************************************)
Uninspected(k) ==
  {i \in DOMAIN k.pending : <<"get_commit_diff", k.pending[i]>> \notin k.called}

Due(k) ==
  {i \in DOMAIN BaselineSequence :
     LET action == BaselineSequence[i]
     IN  IF action = "get_commit_diff" THEN Uninspected(k) # {}
         ELSE ~\E call \in k.called : call[1] = action}

BaselineCall(k) ==
  LET action == IF Due(k) = {} THEN "get_commit_diff" ELSE BaselineSequence[Min(Due(k))]
  IN  <<action,
        IF action # "get_commit_diff" THEN NoArg
        ELSE k.pending[IF Uninspected(k) = {} THEN 1 ELSE Min(Uninspected(k))]>>

(* Fault: without the last pass.                                           *)
CoveredOnce(k) == Due(k) = {}

Covered(k) == Due(k) = {} /\ k.pending = <<>>

(* The end of the agent: verified episodes of memory join the bundle, and     *)
(* of the loop only its gaps and how it ended are kept.                     *)
Recall(world, k) ==
  LET past == [i \in DOMAIN world.episodes |-> Item("episode", world.episodes[i], NoSha)]
  IN  [Opening(k.evidence \o past)
         EXCEPT !.gaps = k.gaps,
                !.ended = IF k.ended = "no" THEN "budget" ELSE k.ended]

(* The next decision of the offline backend, read off the prompt's state.   *)
OfflineDecision(k) ==
  LET kinds == Kinds(k.evidence)
      names == {call[1] : call \in k.called}
  IN  IF "metrics" \notin kinds THEN <<"query_metrics", NoArg>>
      ELSE IF "deploy" \notin kinds THEN <<"list_recent_deploys", NoArg>>
      ELSE IF k.pending # <<>> THEN <<"get_commit_diff", Head(k.pending)>>
      ELSE IF "k8s-event" \notin kinds THEN <<"get_events", NoArg>>
      ELSE IF "get_thread" \notin names THEN <<"get_thread", NoArg>>
      ELSE IF "search_runbooks" \notin names THEN <<"search_runbooks", NoArg>>
      ELSE <<"finish", NoArg>>

(* What a live model may decide instead.                                   *)
LiveDecisions(world) ==
  ((Menu \ {"get_commit_diff"}) \X {NoArg, Extra})
    \cup ({"get_commit_diff"} \X ({NoArg, world.snap.sha} \cup BogusShas))
    \cup ({"finish", "restart_pods"} \X {NoArg})

(* The security screen: suspected injections are quarantined in place.      *)
Screened(evidence) ==
  [i \in DOMAIN evidence |->
     IF "hostile" \in evidence[i].marks
     THEN [evidence[i] EXCEPT !.class = "QUARANTINED"] ELSE evidence[i]]
=============================================================================
