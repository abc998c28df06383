--------------------------- MODULE GoldenScenarios ----------------------------
(***************************************************************************)
(* The frozen incidents of evals/scenarios.py and what the snapshot        *)
(* connectors of connectors/fakes.py answer about them.                    *)
(*                                                                         *)
(* A timestamp is its minute of the day, all that the code reads of it.  A *)
(* text is the set of its marks, the substrings some agent looks for:      *)
(*   "OOMKilled", "TLSHandshakeError"  literally, in an event;             *)
(*   "tls"          tls, handshake or certificate in a summary;            *)
(*   "certificate"  that word, anywhere in the line of a digest;           *)
(*   "pool"         a connection pool or its max_size;                     *)
(*   "shrinks"      the wording or the numbers of a smaller pool;          *)
(*   "nothing"      "no deployments ...", the line of an empty history;    *)
(*   "hostile"      a match of one of the INJECTION_PATTERNS.              *)
(***************************************************************************)
EXTENDS Naturals, Sequences

NoSha == "no sha"
At(hour, minute) == 60 * hour + minute
Sample(ts, ms) == [ts |-> ts, ms |-> ms]

(* The evidence state of one incident, with the defaults of the class.     *)
Snapshot ==
  [ service |-> "checkout-service", alert |-> {}, urgency |-> "high",
    impact |-> TRUE,
    p99 |-> <<Sample(At(14, 0), 181), Sample(At(14, 5), 2140),
              Sample(At(14, 10), 2412)>>,
    post |-> <<Sample(At(14, 40), 197), Sample(At(14, 45), 182)>>,
    hasDeploy |-> TRUE, revision |-> "v3", previous |-> "v2",
    deployedAt |-> At(14, 2), sha |-> "c9a1f42", title |-> {"pool"},
    removed |-> {20}, added |-> {200}, raisesInWords |-> FALSE,
    events |-> <<"OOMKilled", "OOMKilled", "BackOff">>, slack |-> <<>> ]

GroundTruth(outcome, class, commit, steps) ==
  [outcome |-> outcome, class |-> class, commit |-> commit, steps |-> steps]

Undiagnosable == GroundTruth("escalated", "none", NoSha, <<>>)

(* A scenario adds to its snapshot the (at most two) documents its RagStore *)
(* returns for the incident, the marks of the verified episodes its memory *)
(* recalls, and what build_environment chooses: the environment of the     *)
(* incident and the connectors registered for it.                          *)
Scenario(id, snapshot, truth, guidance, episodes) ==
  [id |-> id, snap |-> snapshot, truth |-> truth, guidance |-> guidance,
   episodes |-> episodes, environment |-> "prod",
   registered |-> {"pagerduty", "datadog", "github", "kubernetes", "slack"}]

Document(marks) == [kind |-> "runbook", marks |-> marks]

PoolRegression(sha) ==
  GroundTruth("remediated", "deploy-regression/memory", sha,
              <<"rollback_deployment", "create_revert_pr">>)

Canonical ==
  Scenario("s1", Snapshot, PoolRegression("c9a1f42"),
           <<Document({}), Document({})>>, <<{"OOMKilled", "pool"}>>)

UncorrelatedLatency ==
  Scenario("s2",
    [Snapshot EXCEPT !.service = "search-api", !.hasDeploy = FALSE,
       !.events = <<>>,
       !.p99 = <<Sample(At(9, 0), 140), Sample(At(9, 5), 1650),
                 Sample(At(9, 10), 1710)>>,
       !.post = <<Sample(At(9, 40), 150), Sample(At(9, 45), 145)>>],
    Undiagnosable, <<Document({}), Document({})>>, <<>>)

PaymentsRegression ==
  Scenario("s3",
    [Snapshot EXCEPT !.service = "payments-service", !.sha = "f3d92ab",
       !.revision = "v9", !.previous = "v8", !.deployedAt = At(11, 3),
       !.removed = {10}, !.added = {150},
       !.p99 = <<Sample(At(11, 0), 96), Sample(At(11, 5), 1890),
                 Sample(At(11, 10), 2050)>>,
       !.post = <<Sample(At(11, 40), 131), Sample(At(11, 45), 118)>>],
    PoolRegression("f3d92ab"), <<Document({}), Document({})>>, <<>>)

CertExpiry ==
  Scenario("s4",
    [Snapshot EXCEPT !.service = "payments-gateway", !.alert = {"tls"},
       !.hasDeploy = FALSE,
       !.events = <<"TLSHandshakeError", "TLSHandshakeError">>,
       !.p99 = <<Sample(At(9, 0), 142), Sample(At(9, 5), 168),
                 Sample(At(9, 10), 171)>>,
       !.post = <<Sample(At(9, 40), 139), Sample(At(9, 45), 131)>>],
    GroundTruth("remediated", "cert-expiry/tls", NoSha,
                <<"rotate_certificate">>),
    <<Document({"tls", "certificate"}), Document({})>>, <<>>)

RevertedPool ==
  Scenario("s5",
    [Snapshot EXCEPT !.service = "ops-service", !.sha = "d4e55aa",
       !.revision = "v4", !.previous = "v3", !.deployedAt = At(10, 2),
       !.title = {"pool", "shrinks"}, !.removed = {200}, !.added = {20},
       !.events = <<"OOMKilled", "OOMKilled">>,
       !.p99 = <<Sample(At(10, 0), 120), Sample(At(10, 5), 1900),
                 Sample(At(10, 10), 2010)>>,
       !.post = <<Sample(At(10, 40), 140), Sample(At(10, 45), 132)>>],
    Undiagnosable, <<Document({"pool", "OOMKilled"}), Document({})>>, <<>>)

DeployAfterBreach ==
  Scenario("s6",
    [Snapshot EXCEPT !.service = "ledger-service", !.sha = "a7b0c31",
       !.revision = "v9", !.previous = "v8", !.deployedAt = At(16, 12),
       !.removed = {30}, !.added = {300},
       !.events = <<"OOMKilled", "OOMKilled">>,
       !.p99 = <<Sample(At(16, 0), 110), Sample(At(16, 5), 1700),
                 Sample(At(16, 10), 1750)>>,
       !.post = <<Sample(At(16, 40), 130), Sample(At(16, 45), 121)>>],
    Undiagnosable, <<Document({}), Document({})>>, <<>>)

HeapOom ==
  Scenario("s7",
    [Snapshot EXCEPT !.service = "render-service", !.sha = "c0ffee1",
       !.deployedAt = At(8, 2), !.title = {}, !.removed = {}, !.added = {},
       !.previous = "v1", !.revision = "v2",
       !.events = <<"OOMKilled", "OOMKilled">>,
       !.p99 = <<Sample(At(8, 0), 90), Sample(At(8, 5), 1500),
                 Sample(At(8, 10), 1600)>>,
       !.post = <<Sample(At(8, 40), 110), Sample(At(8, 45), 101)>>],
    Undiagnosable, <<Document({}), Document({"OOMKilled", "pool"})>>, <<>>)

AllScenarios ==
  {Canonical, UncorrelatedLatency, PaymentsRegression, CertExpiry,
   RevertedPool, DeployAfterBreach, HeapOom}

(***************************************************************************)
(* What the connectors serve, with the risk of every tool, and answer.     *)
(***************************************************************************)
Tools ==
  [ pagerduty  |-> [get_incident |-> "READ"],
    datadog    |-> [query_metrics |-> "READ"],
    github     |-> [list_recent_deploys |-> "READ", get_commit_diff |-> "READ",
                    create_revert_pr |-> "MEDIUM", close_pr |-> "LOW"],
    slack      |-> [get_thread |-> "READ"],
    kubernetes |-> [get_events |-> "READ", rollback_deployment |-> "HIGH",
                    rotate_certificate |-> "MEDIUM"] ]

PagerDuty(snap) ==
  [title |-> snap.alert, service |-> snap.service, urgency |-> snap.urgency,
   impact |-> snap.impact]

Datadog(snap, window) ==
  IF window = "post-remediation" THEN [series |-> snap.post, oomkilled |-> 0]
                                 ELSE [series |-> snap.p99]

RecentDeploys(snap) ==
  IF snap.hasDeploy
  THEN <<[revision |-> snap.revision, previous |-> snap.previous,
          deployedAt |-> snap.deployedAt, commits |-> <<snap.sha>>]>>
  ELSE <<>>

(* The fake serves the diff of the snapshot under whatever sha it is asked. *)
CommitDiff(snap, sha) ==
  [sha |-> sha, title |-> snap.title, removed |-> snap.removed,
   added |-> snap.added, raisesInWords |-> snap.raisesInWords]

Thread(snap) == snap.slack

EventMarks(reason) ==
  CASE reason = "TLSHandshakeError" -> {"TLSHandshakeError", "tls"}
    [] reason = "OOMKilled"         -> {"OOMKilled"}
    [] OTHER                        -> {}

PodEvents(snap) == snap.events

(* The undo descriptor a write leaves: none for a rollback, which is a safe *)
(* terminal state.                                                         *)
UndoOf(tool) ==
  CASE tool = "create_revert_pr"   -> "close_pr"
    [] tool = "rotate_certificate" -> "rotate_certificate"
    [] OTHER                       -> "none"
=============================================================================
