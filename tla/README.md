# A formal model of Aether-Ops

TLA+ modules, TLC configurations and TLAPS proofs about Aether-Ops
(`src/aetherops`): the DAG executor, the incident-remediation workflow and its
agents, the REST API around them, the audit ledger and the shared clients and
memory under them. Paths below are relative to the repository.

## The system

A human or a monitor posts an incident. The API builds an environment for it
(connectors, model gateway, policy, memory, an audit ledger) and runs the
incident-remediation workflow on the DAG executor: agents collect evidence,
diagnose, plan and review; policy decides whether the plan may run and whether a
human must approve it; the run pauses at the gate; an approval resumes it; the
plan's writes are made, verified and, if something fails, undone.

| Component | State it keeps | Operations | Talks to |
|---|---|---|---|
| DAG executor (`orchestration/dag.py`) | order of nodes; per call: checkpoint, completed list, attempt; worker threads | construct, `execute`, retry, time out, compensate | node bodies, audit ledger |
| Incident workflow (`workflows/incident_remediation.py`) | `ctx.params["executed"]`, results | `_execute`, `_compensate_execute`, the agent wrapper | executor, connectors |
| API (`api/server.py`) | registry of incidents, lock per incident, `state_lock`, `async_inflight`, thread pool, fence per incident | POST incident (sync, async), GET, POST approval, evict | workflow, ledger, memory |
| Audit ledger (`security/audit.py`, `storage/sqlite.py`) | records, file or table | `append`, `attach_path`, `load`, `verify` | every component appends |
| Agents (`agents/`) | none; they write evidence and results to the context | `run` | gateways, memory |
| Policy engine (`policy/engine.py`) | rules (data) | `evaluate`, `evaluate_plan`, `evaluate_change` | both workflows |
| Connector gateway (`connectors/base.py`) | sliding windows, cache, per incident | `call` | fakes/adapters, ledger |
| Model gateway (`gateway/`) | token count, backend chain, `_dead` flag, per incident | `complete` | agents, ledger |
| Episodic memory (`memory/store.py`, `storage/sqlite.py`) | list of episodes, table; one for the process | `add`, `search` | both workflows |
| Change risk (`workflows/change_risk.py`, `agents/change_intel.py`) | none; it reads and writes memory | `run_change_risk` | memory, policy, service graph |
| LangGraph driver (`integrations/langgraph_workflow.py`) | a graph with an interrupt | `run_incident_langgraph` | the same agents |
| RAG, evaluations, reports, MCP, other integrations | little or none | see `PROJECT.json` | |

What is hard in this code:

* **Threads that cannot be cancelled.** A body that outlives its budget is
  abandoned, not stopped, and goes on writing behind the executor's back.
* **Check-then-act on an incident.** Approvals race each other, the first run,
  and the eviction that removes the very lock that serialises them.
* **Exceptions in the wrong place.** Every decision is followed by an audit
  append; with a file behind the ledger that append can raise.
* **Sagas.** A batch may fail half-way, an undo may fail, a call may make its
  write and then raise.
* **Pause and resume.** A checkpoint travels through the caller between calls.
* **Two copies of the ledger.** Memory first, then file or database, not under
  the same lock, with a process that may die in between.
* **A model that may say anything.** A live backend decides what evidence is
  gathered, what caused the incident and what is to be written; the code around
  it must make sure that what reaches a human is grounded.
* **Clients and memory without locks.** An attempt given up at its timeout goes on
  using the connectors of the incident; every request of the API reads and cuts
  the same list of episodes.

`PROJECT.json` lists each of these at its line under "hazards", with the
properties that cover it.

### What makes each component correct

* Executor: dependencies and gates before what needs them, no body repeated by
  a resume, no two attempts at once, undo in reverse, a status that says what
  happened, and a return.
* Workflow: no write without authority, none repeated, none left behind without
  a trace, nothing undone out of order.
* API: one decision per incident, outcomes that stay, bounded work and memory,
  and an answer.
* Ledger: one chain, and a store that has what memory has.
* Agents: the golden outcomes with the deterministic backend, and grounded,
  authorised plans with any other; an investigation that ends.
* Connectors and models: a bounded rate, no stale read where it matters, and a
  dead backend that costs one attempt.
* Memory and change risk: what was learned survives, only incidents raise a
  score, and an incident that resembles a change is found.

## Modules

| Module | Models | Notes |
|---|---|---|
| `TopoSort` | `DagExecutor.__init__`, `_topo_sort` | the recursion of `visit` is an explicit stack of frames |
| `DagExecutor` | `execute`, `_run_node`, `_run_with_retry`, `_compensate`, `_log` | one caller, abandoned workers beside it |
| `DurableWorkflow` | what the caller of `execute` may rely on | abstract specification, implemented by `DagExecutor` |
| `IncidentRemediation` | `build_workflow`, `_execute`, `_compensate_execute`, `run_incident_remediation` | composes an instance of `DagExecutor` with a writer thread and production |
| `IncidentApi` | the incident endpoints and `AppState` | a run of the workflow is one step that ends it |
| `AuditLog` | `AuditLog`, `SqliteAuditLog` | one module, the variable `sqlite` says which class the ledger is |
| `GoldenScenarios` | `evals/scenarios.py`, `connectors/fakes.py` | the frozen incidents, and what connectors answer about them |
| `Investigation` | `agents/knowledge.py`, `investigation.py`, `triage.py`, `security.py`, `core/context.py`; the offline backend's replies | operators: one decision of the loop, the next call of the scripted fallback |
| `PolicyEngine` | `policy/engine.py` | operators |
| `PlanAdmission` | `agents/root_cause.py`, `planner.py`, `reviewer.py`; the offline backend's replies | operators: diagnosis, compilation, review |
| `IncidentPipeline` | the node bodies of `workflows/incident_remediation.py`, `integrations/langgraph_workflow.py`, `agents/verifier.py`, `reporting/postmortem.py`, the verdict of `evals/harness.py` | composes the four above into one incident |
| `ConnectorGateway` | `Connector.call`, `_check_rate`, `_log` | every step of a call apart |
| `ModelGateway` | `ModelGateway.complete` over the chain of `gateway/backends.py` | |
| `SharedClients` | the two gateways under the threads of one incident | composition |
| `EpisodicMemory` | `EpisodicMemory`, `SqliteEpisodicMemory` | `durable` says which class it is |
| `ChangeRisk` | `agents/change_intel.py`, `workflows/change_risk.py`, `graph/service_graph.py`, `_learn`, POST /v1/changes/score | composes the memory with the two workflows that use it |
| `DagExecutorProofs`, `TopoSortProofs`, `AuditLogProofs`, `IncidentApiProofs`, `IncidentRemediationProofs`, `SharedClientsProofs`, `ChangeRiskProofs`, `IncidentPipelineProofs` | | theorems, see "Proofs" |
| `MC*` | | instances for TLC |

Operators introduced by a comment "Fault: ..." are deliberate mistakes. No
specification uses them; `PROJECT.json` pairs each with the property that
notices when it takes the place of the real definition.

### DagExecutor

A call of `execute()` is a sequence of actions, because abandoned workers end
between them: `Invoke` (copy the caller's checkpoint), then per node
`SkipCompleted`, `ExceedDeadline`, `PauseAtGate`, `DenyAtGate`,
`PassApprovedGate` or `EnterUngated`, then the outcome of one attempt (`Succeed`,
`RetryTransient`, `ExhaustRetries`, `FailPermanently`, `TimeOut`), then
`FinishRun`, or `Escalate` and the walk over undo handlers. A body is abstract:
any outcome may come. Its output is abstract too, but for the one question a
gate asks of it (`requires_approval`). The clock is abstract: the deadline may
strike before any node, a timeout during any timed attempt.

`auditMayFail`, chosen in the initial state, makes every append a place where an
exception may start. The code has no handler around most of them, so the
exception ends the call (`Escape`), and the caller still holds the run it had
before.

The list `completed` of the code is the set of checkpointed nodes, walked in
`Order`; the module's header says why this loses nothing.

### IncidentRemediation

`Dag == INSTANCE DagExecutor` gets the twelve nodes, timeouts, the single attempt
and the compensation of `execute`, and shares its variables. The actions of the
executor at the node `execute` are bound to a writer, the worker thread that runs
`_execute`: the attempt succeeds when it has returned, fails when it has raised, and
may time out at any moment, after which the writer goes on alone. `writers` lists
them all, because a later call may enter `execute` again with an earlier writer still
at work; each has its own list `executed` and, once a call has raised, the steps
its undo has still to visit. `saga` is `_compensate_execute` as called by the
executor. `world` is production: each step of the plan is untouched, applied or
undone.

Connectors, compensator and orchestrator append to one `AuditLog` (base.py:139,
incident_remediation.py:113, dag.py:222), so `auditMayFail`, chosen in the initial
state, is about all of them. A call of a connector may have made its write and raise
in recording it (`CallIsLost`). One turn of the undo loop is `VisitStep`, whichever
of its callers runs it: the undo works, or raises and is audited, or there is none.
The append of `compensation.step_failed` stands in the handler without a guard, so
when that record raises (after an undo that failed, or that worked and could not be
recorded) the exception ends the loop: in `_execute` it replaces the error that
started the undo, in the saga it reaches the executor as `compensation.failed`
(`SagaRaises`).

### IncidentApi

Every request is a thread with a program counter. `state_lock` is held by one
step wherever the code holds it for one statement, and explicitly (`scan`) while
`evict()` walks the registry, because the runs it reads are stored under other
locks. Locks are objects: `lock_for` after an eviction makes a new one, and a
thread waits for the object it got. All terminal statuses are one, `ENDED`:
server.py treats them alike. A fence is the number of decisions taken. The
decision itself is abstract: a resumed run executes the plan or does not, as it
does not when it is denied. A run of the workflow, and the building of its
environment, may raise for the incidents in `Faulty`. Left out: tokens and roles, request validation, the second store of `_execute`
(`entry["ctx"]`), metrics.

### AuditLog

`append` is two or three steps (chain, extend, write), in the code's order and
under the code's locks. A hash is the list of what it covers, that is, hashing is
free of collisions. Lines are written whole; a failing write writes nothing.
A restart loses memory and threads and reads the store back.

### IncidentPipeline and its operators

One incident goes through triage, the investigation, the security screen,
diagnosis, plan, review, policy, the gate, execution, verification, learning and
the postmortem, one action per node, one per decision of the investigation and one
per call of its scripted fallback.
`driver` says whether the DAG or the LangGraph runs it: the second has no policy
check, always waits for a human, catches only the errors of a review and writes
nothing when it executes.

A text is the set of its *marks*: the substrings some agent looks for in it
(`GoldenScenarios` lists them). What regular expressions find in the seven
scenarios was read off by running them; the marks are the result. A diagnosis in
prose is what the code reads of it: whether it leads with the refusal, the items
it cites, the commit it names, whether it speaks of a certificate. A timestamp
is its minute of the day, as the reviewer reads it.

For a task in `live` the reply is any of a set that has the right answer, wrong
ones, and ones that fit no schema; otherwise it is that of the offline backend.
A live decision that the code does not obey, and a connector call that ends in
a TransientError, is an *upset*, at most `MaxUpsets` of them in one
investigation. Connector failures outside the investigation are retried or end
the run in `DagExecutor`, which also has the timeouts; the writes one by one,
with their failures, are `IncidentRemediation`.

### SharedClients

Two threads use the connectors and the model gateway of one incident: the one that
executes the workflow, and an attempt that was given up at its timeout. Nothing
in `Connector.call` holds a lock, so each test, drop, append, lookup and store is
an action. An answer is the version of production it was taken from; a write
makes a new version, and so does somebody outside. The clock ticks only when a
thread is about to read it, and production changes from outside only when a
thread is about to call: other moments for the same steps are not distinguishable.

### EpisodicMemory and ChangeRisk

The list of episodes is read by index while other threads append to it, and cut
it when it is bounded: appending, measuring, cutting, inserting a row and each
step of a search are actions of their own. A text is the set of its tokens.
`ChangeRisk` runs a change through its two searches, score, verdict and record,
beside incidents that learn. A change that pauses is answered and forgotten, as
in the code, which keeps no run to resume.

## Runs

Bounds are constants of the configurations. All passing runs are exhaustive
within them.

| Run | Configuration | What is explored | Properties |
|---|---|---|---|
| `dag` | five nodes, two gates (one with a body, one depending on an output), two compensable nodes, two timed, two attempts for the last; three calls; an audit log that never raises, and one that may raise on any append | every pause/resume history a run with two gates can have when each gate pauses once without a decision, every failure, and an exception at every append with a resume after it | `IInv` (with the type invariant), `DependenciesFirst`, `GatesRespected`, `NoRacingAttempts`, `NoReplay`, `UndoReversesCompletion`, `OutcomeMatchesHistory`, `ImplementsDurableWorkflow`, `CallReturns` |
| `topo` | three nodes with distinct names, each with no dependency, with one of the three, or with two different ones of which the second may be an unknown name; and three with a repeated name | diamonds, self-loops, cycles of two and three, repeated names, declaration against dependency order | `IInv` (with the type invariant), `DepsBefore`, `CompleteOrder`, `RefusedIffInvalid`, `Terminates` |
| `api` | one synchronous incident, whose calls may raise, and one asynchronous; two approvals; a registry of one | the two approvals on one incident or on two, an eviction and an exception at any moment | `OneDecision`, `RemediatesOnce`, `ApprovalAnswered` |
| `api_pool` | three asynchronous incidents, the calls of one of them may raise; two slots, one pool thread, registry of two, one approval | a rejection, a queue, a slot that is never given back, an eviction with and without an ended incident | `SlotsAccounted`, `EndedEvictedFirst`, `RunsAreStored` |
| `remediation` | plan of three steps, the second without undo; three calls; one attempt of the other nodes; a ledger that never raises, and one that may raise on any record | first and last step undoable with one between, failure at each, a timeout at each, an undo loop that is aborted, a batch repeated by a second approval while an abandoned writer is at work | `WritesAuthorised`, `NoStepReplayed`, `ResidueExplained`, `UndoneInReverse`, `QuietAfterReturn`, `Settles` |
| `audit` | either kind of ledger, two threads, four appends, two bodies, failing writes, a restart | late attach between any two steps, rows inserted in any order | `ChainNeverForks`, `FileFollowsMemory`, `ReloadVerifies`, `RowsFollowMemory` |
| `pipeline` | the seven golden scenarios and five variants (an injection in the channel, one in the commit title, a rollback that does not help, a staging environment without slack, one with a deploy to roll back) under the DAG, four of them under LangGraph; offline, live investigator, or live diagnostician and planner; eight steps, two upsets, plans of two steps | every pair of arbitrary decisions or failures in every investigation, every shape of diagnosis, every plan of two steps from a menu of right, wrong, missing and superfluous arguments | `GoldenOutcomes`, `GroundedAtTheGate`, `RemediationAuthorised`, `FallbackCoversBaseline`, `Concludes` |
| `gateways` | two threads; the calls of a whole workflow beside a late investigation, repeated reads against a limit of two per minute, a write by the wrong principal, completions over three chains; three ticks, three versions, two flips of the local server | every interleaving of the steps of two calls | `RateBounded`, `VerifierReadsItsWrites`, `DeadCostsOneAttempt` |
| `learning` | two threads, three changes (one like the seeded incident, one like none, one frozen), one incident to learn; at most three episodes added to a list bounded by two, or durable; one restart | searches over a list that grows or is cut under them, failing inserts, a restart anywhere | `LearningSurvives`, `OnlyIncidentsInflate` |

`NoRacingAttempts`, `NoReplay`, `UndoReversesCompletion` and
`OutcomeMatchesHistory` are about a log that does not raise: a call that raises
loses its progress, and its resume repeats it. Of the workflow, `WritesAuthorised`,
`QuietAfterReturn` and `Settles` hold with any ledger. `NoStepReplayed` says both
things: no step is written twice if the ledger does not raise, and if it may, none is
written more often than the gate was approved. `ResidueExplained` is about a ledger
that does not raise, `UndoneInReverse` about a run that entered `execute` once.
`OneDecision` and `RemediatesOnce` exempt incidents evicted while in flight: for
these they are false, as `api_evicted_lock` shows.

Bounds. In `remediation` three calls are a pause, an approval whose call raises, and
the approval that runs the batch again beside the writer of the first, and three steps
give an undo a step to abort at, one without undo and one never visited; the other
nodes have one attempt, as retries are what `dag` explores. Two upsets are enough to fall back after a repeated call,
to fail the same query twice, or to fall back with one query failing; the loop
needs six useful steps and has eight. The reviewer looks for the first rollback
and the first revert, so two steps are enough to hide a second one behind a
first. In `gateways` the limit of two is reached by the third read of one thread,
and overshot by the second thread. In `learning` three added episodes exceed the
bound of two twice over, with the two threads cutting at once.

### Runs that end in a violation

Each checks one sentence of the repository against the model.

| Run | The sentence | What the code does |
|---|---|---|
| `api_evicted_lock` | per-incident locks make double execution impossible (docs/16:61-62) | eviction drops a held lock, `lock_for` makes another. It takes a registry full of incidents in flight (`MAX_INCIDENTS_RETAINED`, 1 in the run; what counts is that it is reached) |
| `pipeline_innocent_rollback` | one that lowers a limit cannot exhaust memory ... defends the live-model path (reviewer.py:119-122) | the check runs only when the diagnosis names its suspect; a cited diagnosis that does not is still classed a memory regression, and its plan, a rollback of the deploy that lowered the pool, reaches the gate |
| `learning_crowded_out` | the episodes past incidents wrote are the evidence this agent retrieves before the next similar change ships (change_intel.py:3-5) | the best three episodes are taken before they are filtered; decisions recorded about similar changes share more words with a change than the incident does. Scored a fourth time, the same change falls from MEDIUM to LOW, and would pass a freeze |

### What the code does otherwise

Other sentences of the repository are not what the code does either. They have
no run of their own; the models have the behaviour, and the properties that do
hold name the condition.

Executor and workflow:

* "retrying would race a second attempt" (dag.py:50-53): an audit append that raises while a
  timed-out attempt escalates leaves the run PAUSED and resumable beside its
  worker. `NoRacingAttempts` is about a log that does not raise.
* "A partially-applied batch must never be blindly replayed"
  (incident_remediation.py:170-171), "no write is ever blindly replayed"
  (incident_remediation.py:83): if a record of the ledger raises, it is. A step that was
  applied and could not be recorded makes the node raise; the append of
  `node.failed` (dag.py:148) raises out of `execute()` with the same ledger; the caller
  keeps the PAUSED run, and the next approval executes the batch again, with the
  writer of a timed-out attempt perhaps still at work. The same follows a complete
  batch whose `node.succeeded` cannot be recorded. `NoStepReplayed` has the
  condition, and bounds the repetitions by the approvals; `RemediatesOnce` counts
  runs that do not raise.
* "A single failed undo is audited and skipped, never aborting the rest"
  (incident_remediation.py:100-101): the append that audits it
  (incident_remediation.py:113-115) is not guarded. If it raises, the loop of undos ends
  there and the earlier undoable steps stay in production, although their undo did not
  fail, nothing timed out and no deadline struck. A step that was applied by a call
  that raised in recording it is in no list of undos at all. `ResidueExplained`
  therefore has `~auditMayFail`.
* "a partial batch never leaves un-undone writes"
  (tests/test_execution_integrity.py:1-3): one whose node timed out does.
  `ResidueExplained` says which residue there may be with a ledger that does not raise.
* Compensation runs if verification fails (incident_remediation.py:9-10): also
  if `learn` or `postmortem` fails after it succeeded.
* Plans: the reviewer looks at the first rollback and the first revert only, so a
  second rollback to another revision passes it. `GroundedAtTheGate` speaks of
  the first. A duplicate step is detected before superfluous arguments are
  dropped, so two equal steps may remain. The plan of the class, which replaces
  two invalid proposals, is not compiled.
* The catalog calls a rollback compensable, and its write leaves no undo
  descriptor: a failed verification does not undo it.
* LangGraph skips the policy check, lets every error but a review's out of the
  graph, and reports "remediated" without a write.

Policy:

* The rule R5 is for a "MEDIUM-risk write auto-approved outside prod"
  (engine.py:62-66), and docs/05-security.md:391-396 puts even MEDIUM outside prod
  at one approver. The rule is reached by a HIGH step as well, if the catalog calls
  it compensable: a rollback outside prod, from a confident diagnosis, runs without
  a human. No entry point of the repository makes an incident outside prod; a
  caller of `run_incident_remediation` may. `RemediationAuthorised` says what does
  hold of an ungated plan.

API:

* No silent death (docs/11:12-14): an asynchronous run that raises leaves its
  incident RUNNING; the future's exception is never read. `RunsAreStored` is
  about runs that do not raise.
* "A still-running or PAUSED incident is in-flight -- never evict it mid-flight"
  (server.py:117-118): the else branch of `evict()` does, when nothing in the
  registry has ended. `EndedEvictedFirst` says only then.
* "An approval made against a stale view of the incident is rejected"
  (server.py:430-432): the fence does not change from RUNNING to PAUSED, so a
  decision made before there was a plan to see is accepted. `OneDecision` holds
  all the same.
* A HIGH change pauses at a gate that no endpoint can resume, and is not recorded.

Ledger:

* "A past incident's governance trail is reloadable + verifiable after a restart"
  (server.py:90-92): not after a write that failed, which leaves a gap in the
  file that the reloaded chain does not bridge. `ReloadVerifies` has `~failed`.
* "Reload-by-seq reconstructs the chain regardless of insert order"
  (sqlite.py:83-84): not if the process dies when a later record has its row and
  an earlier one has not. `RowsFollowMemory` stops at a restart.

Clients and memory:

* "the reviewer's own (cached) read" (reviewer.py:78): the key has no principal and
  nothing expires, so it is the answer an earlier agent got. What keeps the
  verifier from reading the past is that it asks for another window.
* The rate window is tested and appended to apart, its expired head tested and
  dropped apart: two threads make the window one longer than the limit, and two that
  find the same head expired drop an entry that was not, after which two more calls
  than the limit may be admitted in one minute. `RateBounded` bounds the length of the
  window, and the admissions only of a tool that one thread uses. A cache hit counts
  against the rate.
* `_dead` belongs to the gateway of one incident, so a dead backend costs one
  attempt per incident, and one per thread that was already past the test.
  `tokens_used` loses an update when two attempts add to it.
* Two bounded adds at once may cut more episodes than needed; a search over a
  list that is cut under it skips some.
* One failing `query_metrics` makes the offline policy, which looks at the
  evidence only, ask for it again; the repetition is refused, so it repeats until
  its steps are used up. The loop ends (`Concludes`) with less evidence.

### Fairness

* `DagExecutor`: the thread inside `execute()` goes on (weak fairness of the
  loop, of the attempt, of compensation). A body without a budget is assumed to
  end. Callers and abandoned workers owe nothing.
* `IncidentApi`: a handler or pool thread that can go on does; a run returns,
  because nodes and runs are bounded in time. Clients owe nothing. The locks
  need no strong fairness: a waiting thread is enabled for good once no other
  request is left before it, and there are finitely many.
* `IncidentRemediation`: the thread in the executor, which also runs the saga, goes on,
  and some writer with a step to take takes it, as connector calls end. Callers,
  approvers and the ends of abandoned threads owe nothing.
* `IncidentPipeline`: weak fairness of the nodes (the executor, or the graph, runs
  the next one). The human at the gate owes no answer, so `Concludes` ends there.
* `AuditLog`, `SharedClients`, `ChangeRisk`: none; only safety is claimed.
* `TopoSort`: the constructor runs on.

Deadlock is not checked: in every model all requests may be served, all calls
made or all appends done, and then nothing is left to do. The liveness
properties look for the deadlocks that matter.

## Proofs

Every statement below is for all values of the constants.

**`DagExecutorProofs`.** `Invariance` proves `Spec => []IInv`. `DependenciesFirst`
is not inductive: a resumed call starts from the caller's checkpoint, so the
caller's copy must be good as well, and the loop skips what it finds there.
`IInv` therefore says that both checkpoints are prefixes of the order, that the
loop has only walked past checkpointed nodes, that the node it is at is not
checkpointed, and that each gate in either checkpoint was approved or not needed.
From it: `TypeCorrect`, `DependenciesFirstHolds`, `GatesRespectedHolds` (both with
an audit log that may raise), `NoRacingAttemptsHolds` (of a log that does
not raise; without that assumption it is false, see "What the code does
otherwise"; it adds `WorkersInv`: a worker besides the foreground attempt exists only in a call that
is escalating or beside a run that cannot be resumed) and `Refinement`: the
executor implements `DurableWorkflow` (adds `OpenWhileActive`).

Its second half is about what the audit log tells of a run, with a log that does
not raise. `HistoryAgrees` is the invariant: a body's success is in the log,
once, exactly when the node is checkpointed; a failure or an undo means that the
run is on its way to an end it cannot be resumed from; the retries of a node were all
made while it was the current one; successes stand in the log in the order of
the walk and undo records against it. From it: `NothingIsReplayed`,
`OutcomeTellsHistory` and `UndoGoesBackwards`. The last assumes
`Compensable \cap Bodyless = {}`: a gate without a body leaves no success record,
so the undo of one would have nothing to stand against. Every workflow of the
repository registers its undo handlers on nodes with a body.

**`IncidentRemediationProofs`.** `WritesAreAuthorised`, `BatchesAreNotReplayed`,
`ResidueIsExplained`, `UndoesInReverse`, `StaysQuiet`, for plans of every length and any
number of calls, with a ledger that may raise or one that does not. The difficulty is
a writer that outlives its node after a timeout, and, when records raise, one that the
next call finds at work. What holds of the executor is taken from its own
theorems (`ExecutorHolds`). The invariant says that each writer but a first one that
needed no gate answers to an approval of its own (`ApprovalInv`) and tries each step
once (`CountInv`), whence `writes` is bounded by the approvals; that a writer works
behind the executor's back only if a timeout is in the log (`WriterInv`); that the
steps done are the first ones of the plan and an undo has the first ones of those
still to visit, latest first (`ListInv`), all of them while there is one batch
(`BatchInv`). With a ledger that does not raise (`ReliableInv`), from the start of a
writer on the executor is at the execute node, past it, or on its way to an end it
cannot be resumed from (`Committed`), so no second writer starts, and the log says how
a run came to its end.

Components compose by proof as well: `RunsTheExecutor` shows that each step of the
workflow is a step of `DagExecutor` instantiated with the workflow's nodes, or
leaves the executor alone, and that the workflow is one the executor's theorems
are about (`WorkflowIsValid`). `WorkflowKeepsOrder` and `WorkflowIsDurable` then carry
over its safety theorems and its refinement of `DurableWorkflow`.
`SuccessMeansApplied` needs both sides: if the ledger does not raise, a run that
succeeded has every step of its plan in production, applied once and none undone,
whatever was abandoned or resumed before. A writer that returned has done the whole plan, and an undo
starts only on the way to a failure (`CompleteInv`).

**`IncidentApiProofs`.** `DecidedOnce`, `RemediatedOnce`, `Backpressure`,
`EvictionPrefersEnded`, `TypeCorrect`, for every number of requests and every
limit. The invariant says that an incident that is neither evicted in flight nor
ended keeps the one lock object the registry names (`OneLock`), that only one
thread holds a lock object (`HolderInv`), and that the thread applying a decision
ends the incident before it lets the lock go (`DecisionInv`); `ExecutionInv`
counts executions against the resumed runs that raised; `ScanInv` is about the
scan for a victim under `state_lock`. Once an incident is evicted in flight,
`OneLock` is false, which is what the run of `MCApiEvictedLock` shows.

**`SharedClientsProofs`.** `RateIsBounded`, which bounds the length of a window and not
the calls that several threads are admitted: a thread past the test of the limit is
counted as if it had appended already (`WindowInv`); as long as one thread alone
uses a tool, the window is the end of the list of admissions and what was
dropped is older than a minute (`SoloInv`). `DeadIsRemembered`: the attempts
refused and the threads still connecting are together no more than the callers
(`DeadInv`). `VerifierReadsThrough`: what is cached under the verifier's key was
read when its thread had nothing left to write (`VerifierFresh`). That theorem
assumes `VerifiesLast`: one thread alone asks under that key, after its writes.
The workflow is like that, as only `verifier.py` uses the key and no node after
`verify` writes; without it, nothing would make a cached answer fresh.

**`ChangeRiskProofs`.** `LearningOutlives`: under the lock of the durable memory,
the episode inserted is the one last appended (`DurableInv`). `OnlyIncidentsCount`:
whatever a search saw in the list it shares was added by somebody, so each count
is bounded by what was ever added (`ThreadInv`), and the score and the band grow
with the counts (`ScoreGrows`, `BandGrows`).

**`IncidentPipelineProofs`.** `ExecutionIsAuthorised` and `PlansAreGrounded`, for
all incidents, both drivers, whatever tasks a live model answers and whatever it
replies. The invariant says that whoever proposed it, an adopted plan has a step
and only writes of the catalog that a connector serves (`PlanInv`: the offline
plan, a live one that compiles, and the plan of the class each by a lemma); that
the suspect of the diagnosis is the commit of the bundle, which no longer changes
(`SuspectInv`); that past the review the plan is one the review passed
(`ReviewInv`); that the verdict at the gate is the policy's about that plan
(`VerdictInv`); and that what runs past the gate was approved or is outside prod,
confident and compensable (`GateInv`). A lemma about the policy (`UngatedPlan`)
gives the last.

A second invariant (`GatherInv`) is about the bundle the diagnosis cites: in every
state it is a list of items, and as long as no query has failed, the commit of the
deploys listed is pending or a commit is in the bundle. With it, `PlansAreGrounded`
needs no hypothesis, and `FallbackIsAFloor` says what the scripted fallback
guarantees after whatever the model did. The fallback is one call per step for
that reason too: as a fold over the bundle nothing could be proved about it. The
first commit of the bundle, and the first step of a kind, exist by the least-number
principle (`LeastExists`), which the library's theorem on well-founded relations
gives without an operator as a parameter.

`PipelineAssumption` asks of an incident what `build_environment` gives every one:
GitHub and Kubernetes are registered, metrics stand in the order of their time,
and what is a list is one. It also asks that no document of the corpus is of the
kind "commit": the kind of a document becomes the kind of its evidence
(investigation.py:119), and one called "commit" would be taken for the suspect.
All are runbooks and postmortems.

`PolicyIsMonotone` is about the policy alone, for any catalog: of two plans, the one
whose steps are as risky and no more compensable is never judged more leniently, nor
a plan in prod more leniently than elsewhere, nor one with less confidence. The rules
are first-match, so a rule that shadowed a stricter one would break it.

**What runs out.** A run that ends (`CallReturns` of the executor, `Terminates` of the
sort, `Concludes` of the pipeline) does so for two reasons: no step can be taken for
ever, and one can always be taken until the end, which is fair. The first half is
proved for every size. Each of `CallsRunOut` (`DagExecutorProofs`), `ConstructionRunsOut`
(`TopoSortProofs`) and `IncidentsRunOut` (`IncidentPipelineProofs`) names what is left as
a tuple of numbers and shows that every step lowers it in the lexicographic order,
which is well-founded on tuples of naturals: the phases of a call, the nodes still to
walk or undo and the attempts of the current one; the phases of a construction, the
names `visit()` has not reached, the frames and their dependencies; the nodes of an incident, the loops of the investigation, the steps
of its budget or the tools the fallback has not called, and the commits it has to
inspect. A worker abandoned by a timeout may end at any time, and leaves the call
alone. The second half is about ENABLED and fairness, and stays with TLC.

**`TopoSortProofs`.** `Invariance`, `DepsBeforeHolds`, `CompleteOrderHolds`. The
strengthening relates frames to `visiting` and `seen`, says that the dependencies
a frame has passed are finished or are the next frame's node, and that `ordered`
lists `seen` once each. What `DagExecutor` assumes of `Order` (`DagAssumption`) is
what these theorems conclude of the list built. `RefusedIffInvalidHolds` adds
`RefusalInv`: the frames are a chain of dependencies, and no set of finished names
is a cycle, that is, each such set has a member with no dependency in it. Kept as
an invariant, the second needs no induction over the graph: a node that finishes
has its dependencies among the finished, so it can be in a new cycle of them only
if the rest was one.

**`AuditLogProofs`.** `ChainNeverForksHolds`, `FileFollowsMemoryHolds`,
`ReloadVerifiesHolds`, `TypeCorrect` (of a ledger with a file). The invariant says who holds
the lock at each step of `append`, that the record in hand is the next one of the
ledger as it stands, and that the file is the ledger, or the ledger without the
record whose writer holds the lock. A reloaded SQLite ledger is outside it: its
rows may have a gap, and nothing says that they are ordered by `seq`.
`RowsFollowMemoryHolds` is about the SQLite ledger until then (`RowsInv`: records are
numbered by their place, no two threads are about to insert the same one, and
the rows are the records without those). `EditDetected` is about `verify()` alone: it
rejects a ledger in which any record but the last was replaced.

The theorems rest on the assumptions the modules name: `DagAssumption` (what
`TopoSortProofs` concludes), `PipelineAssumption` (see there), `SharedAssumption` and
`MemoryAssumption` (sets that are finite, names that differ), `ChangeAssumption` and those of the other
components' constants. TLC evaluates each on the runs.

Only model-checked: `GoldenOutcomes` of `IncidentPipeline`, and all liveness, but for the
half of it given above (the proof system has no rule for ENABLED; fairness stays with
TLC). `GoldenOutcomes`
speaks of the frozen scenarios, which TLC enumerates in full. Every other invariant and
action property of a passing run is a theorem. Recursive definitions
are avoided in the modules under proof: the depth-first search is a state machine
for that reason as well.

## Plan

1. Done: executor, sort, durable workflow, workflow saga, API, ledger, agents and
   pipeline under both drivers, policy, connector and model gateways, memory and
   change risk; theorems about all of them.
2. Done: a theorem for every invariant and action property of a passing run but
   `GoldenOutcomes`; the workflow shown to run the executor, so that the theorems
   about the one hold of the other; for three components, that no behaviour goes
   on for ever. What is left for TLC alone is that a step is always possible and
   taken.
3. Models to add if the code grows: recovery of the registry after a restart,
   resumption of a paused change, the FastAPI front end.

## Not modelled

* The text side of the system (redaction, prompts, retrieval, chunking,
  embeddings, the layout of documents): rewriting of characters and
  floating-point computation without state.
* Authentication and roles of the API: they guard requests and change no
  state of an incident.
* The semantic retry of `_agent_node`: every agent builds its output from typed
  values that fit its schema, so no run of the repository takes it.
* Tiers, prices and latencies of the model gateway, judges and retrieval metrics of
  the evaluations: labels and arithmetic over finished runs.
* The MCP server (reads only), the FastAPI front end (the handlers of
  `api/server.py` again), vector stores, LangSmith and fine-tuning scripts (they
  need libraries outside the repository), the command line and the demos.

`PROJECT.json` has the list, with what is modelled of each part.
