------------------------------ MODULE IncidentApi ------------------------------
(***************************************************************************)
(* The incident endpoints of api/server.py: handler threads that create    *)
(* incidents (synchronously, or on the thread pool behind backpressure),   *)
(* threads that decide approvals, the registry of incidents with its       *)
(* bounded retention, and the per-incident locks.                          *)
(*                                                                         *)
(* A call of run_incident_remediation is one step of its thread that ends  *)
(* it: module DagExecutor says what happens inside.  All terminal statuses *)
(* are "ENDED" here, because server.py treats them alike.  Tokens and      *)
(* roles are left out: the requests here are the ones _require admits.     *)
(***************************************************************************)
EXTENDS Naturals, Sequences, FiniteSets, SequencesExt

CONSTANTS
  Creator,     \* POST /v1/incidents requests; each one's incident has its name
  Async,       \* the creators that ask for an asynchronous run
  Approver,    \* POST /v1/incidents/<id>/approvals requests
  Retained,    \* MAX_INCIDENTS_RETAINED
  MaxInflight, \* MAX_ASYNC_INFLIGHT
  PoolSize,    \* max_workers of the pool
  Faulty       \* incidents whose environment, or a run of their workflow, may
               \* raise: a file under AETHEROPS_DB may fail

ASSUME ApiAssumption ==
  /\ Creator \cap Approver = {}
  /\ Creator # {} /\ IsFiniteSet(Creator) /\ IsFiniteSet(Approver)
  /\ Async \subseteq Creator
  /\ Retained \in Nat \ {0} /\ MaxInflight \in Nat /\ PoolSize \in Nat \ {0}
  /\ Faulty \subseteq Creator

VARIABLES
  incidents,   \* STATE.incidents: names in insertion order
  entry,       \* entry[i]: the entry dict, which threads hold by reference
  locks,       \* STATE.locks: number of i's lock object, 0 if there is none
  made,        \* lock objects made for i so far
  held,        \* lock objects <<i, number>> that are held
  scan,        \* where evict()'s for loop stands, 0 when state_lock is free
  endedBefore, \* the ended incidents when evict() began its scan
  inflight,    \* STATE.async_inflight
  creator,     \* where each creating handler stands
  task,        \* _execute() of each incident: [pc, result, lock]
  approver,    \* each approving handler: [pc, target, fence, lock]
  executions,  \* times the execute node of i has run
  dropped      \* incidents evicted before they ended

vars == <<incidents, entry, locks, made, held, scan, endedBefore, inflight,
          creator, task, approver, executions, dropped>>

Status == {"none", "PAUSED", "ENDED"}   \* of entry["run"]; "none" is None
Entry  == [run : Status, fence : Nat]
Names  == {incidents[k] : k \in DOMAIN incidents}

CreatorPc  == {"idle", "building", "evicting", "scanning", "launched",
               "rejected", "failed"}
TaskPc     == {"none", "queued", "running", "storing", "releasing", "done"}
ApproverPc == {"idle", "viewed", "found", "waiting", "locked", "running",
               "applied", "refused", "raised"}

TypeOK ==
  /\ incidents \in Seq(Creator)
  /\ entry \in [Creator -> Entry]
  /\ locks \in [Creator -> Nat]
  /\ made \in [Creator -> Nat]
  /\ held \subseteq Creator \X (Nat \ {0})
  /\ scan \in Nat
  /\ endedBefore \subseteq Creator
  /\ inflight \in Nat
  /\ creator \in [Creator -> CreatorPc]
  /\ task \in [Creator -> [pc : TaskPc, result : Status, lock : Nat]]
  /\ approver \in [Approver -> [pc : ApproverPc, target : Creator,
                                fence : Nat, lock : Nat]]
  /\ executions \in [Creator -> Nat]
  /\ dropped \subseteq Creator

NewEntry == [run |-> "none", fence |-> 0]

Init ==
  /\ incidents = <<>>
  /\ entry = [i \in Creator |-> NewEntry]
  /\ locks = [i \in Creator |-> 0]
  /\ made = [i \in Creator |-> 0]
  /\ held = {}
  /\ scan = 0
  /\ endedBefore = {}
  /\ inflight = 0
  /\ creator = [c \in Creator |-> "idle"]
  /\ task = [i \in Creator |-> [pc |-> "none", result |-> "none", lock |-> 0]]
  /\ approver = [a \in Approver |->
                    [pc |-> "idle", target |-> CHOOSE i \in Creator : TRUE,
                     fence |-> 0, lock |-> 0]]
  /\ executions = [i \in Creator |-> 0]
  /\ dropped = {}

lockVars  == <<locks, made, held>>
scanVars  == <<scan, endedBefore>>
otherVars == <<executions, dropped>>

(* state_lock: every holder but evict() is a single step.                  *)
StateLockFree == scan = 0

(* lock_for(): the lock object of i, made if the registry has none.        *)
LockNumber(i) == IF locks[i] = 0 THEN made[i] + 1 ELSE locks[i]
LockFor(i) ==
  /\ StateLockFree
  /\ locks' = [locks EXCEPT ![i] = LockNumber(i)]
  /\ made'  = [made EXCEPT ![i] = IF locks[i] = 0 THEN @ + 1 ELSE @]

-----------------------------------------------------------------------------
(* POST /v1/incidents.                                                     *)

Go(c, from, to) == creator[c] = from /\ creator' = [creator EXCEPT ![c] = to]

AdmitSync(c) ==
  /\ c \notin Async
  /\ Go(c, "idle", "building")
  /\ UNCHANGED <<incidents, entry, lockVars, inflight, task, approver, scanVars, otherVars>>

AdmitAsync(c) ==
  /\ c \in Async
  /\ StateLockFree
  /\ inflight < MaxInflight
  /\ Go(c, "idle", "building")
  /\ inflight' = inflight + 1
  /\ UNCHANGED <<incidents, entry, lockVars, task, approver, scanVars, otherVars>>

RejectAsync(c) ==
  /\ c \in Async
  /\ StateLockFree
  /\ inflight >= MaxInflight
  /\ Go(c, "idle", "rejected")
  /\ UNCHANGED <<incidents, entry, lockVars, inflight, task, approver, scanVars, otherVars>>

Insert(c) ==
  /\ StateLockFree
  /\ Go(c, "building", "evicting")
  /\ incidents' = Append(incidents, c)
  /\ UNCHANGED <<entry, lockVars, inflight, task, approver, scanVars, otherVars>>

(* Building the environment or attaching the audit file raises: the        *)
(* handler dies and nobody gives the slot back.                            *)
FailToBuild(c) ==
  /\ c \in Faulty
  /\ Go(c, "building", "failed")
  /\ UNCHANGED <<incidents, entry, lockVars, inflight, task, approver, scanVars, otherVars>>

(* evict() holds state_lock while a scan looks for the oldest incident that *)
(* has ended, as often as the registry is too long. The runs it reads are  *)
(* stored under the incidents' own locks, so they may change as it scans.  *)
Ended(i) == entry[i].run = "ENDED"

BeginScan == /\ scan' = 1
             /\ endedBefore' = {i \in Names' : Ended(i)}

StartEvict(c) ==
  /\ StateLockFree
  /\ Go(c, "evicting", "scanning")
  /\ UNCHANGED <<incidents, entry, lockVars, inflight, task, approver, otherVars>>
  /\ BeginScan

Scanning(c) == creator[c] = "scanning" /\ Len(incidents) > Retained

PassInFlight(c) ==
  /\ Scanning(c)
  /\ scan <= Len(incidents)
  /\ ~Ended(incidents[scan])
  /\ scan' = scan + 1
  /\ UNCHANGED <<incidents, entry, lockVars, endedBefore, inflight, creator, task,
                 approver, otherVars>>

Evict(k) ==
  LET i == incidents[k] IN
    /\ incidents' = RemoveAt(incidents, k)
    /\ locks' = [locks EXCEPT ![i] = 0]
    /\ dropped' = IF Ended(i) THEN dropped ELSE dropped \cup {i}
    /\ BeginScan
    /\ UNCHANGED <<entry, made, held, inflight, creator, task, approver, executions>>

(* Fault: the scan stops at its first incident, ended or not.              *)
EvictWithoutLooking(c) ==
  /\ Scanning(c)
  /\ scan <= Len(incidents)
  /\ Evict(scan)

EvictEnded(c) ==
  /\ Scanning(c)
  /\ scan <= Len(incidents)
  /\ Ended(incidents[scan])
  /\ Evict(scan)

(* The loop's else branch: no incident the scan passed had ended.          *)
EvictOldest(c) ==
  /\ Scanning(c)
  /\ scan = Len(incidents) + 1
  /\ Evict(1)

Launch(c) ==
  /\ Len(incidents) <= Retained
  /\ Go(c, "scanning", "launched")
  /\ scan' = 0 /\ endedBefore' = {}
  /\ task' = [task EXCEPT ![c].pc = IF c \in Async THEN "queued" ELSE "running"]
  /\ UNCHANGED <<incidents, entry, lockVars, inflight, approver, otherVars>>

-----------------------------------------------------------------------------
(* _execute(), on the pool or in the handler's own thread.                 *)

(* Fault: a pool thread is not reused.                                     *)
PoolThreadsEver == Cardinality({i \in Async : task[i].pc \notin {"none", "queued"}})

PoolThreads == Cardinality({i \in Async : task[i].pc \in {"running", "storing", "releasing"}})

StartTask(i) ==
  /\ task[i].pc = "queued"
  /\ PoolThreads < PoolSize
  /\ task' = [task EXCEPT ![i].pc = "running"]
  /\ UNCHANGED <<incidents, entry, lockVars, inflight, creator, approver, scanVars, otherVars>>

(* The run pauses at the gate, or ends: before the execute node, or after  *)
(* running it when policy asks for no approval.  Then lock_for.            *)
FirstRunReturns(i) ==
  /\ task[i].pc = "running"
  /\ \/ /\ task' = [task EXCEPT ![i] = [pc |-> "storing", result |-> "PAUSED",
                                        lock |-> LockNumber(i)]]
        /\ UNCHANGED executions
     \/ /\ task' = [task EXCEPT ![i] = [pc |-> "storing", result |-> "ENDED",
                                        lock |-> LockNumber(i)]]
        /\ \E n \in {0, 1} : executions' = [executions EXCEPT ![i] = @ + n]
  /\ LockFor(i)
  /\ UNCHANGED <<incidents, entry, held, inflight, creator, approver, scanVars, dropped>>

(* Fault: the slot is not given back in a finally clause.                  *)
FirstRunRaisesPastFinally(i) ==
  /\ i \in Faulty
  /\ task[i].pc = "running"
  /\ task' = [task EXCEPT ![i].pc = "done"]
  /\ UNCHANGED <<incidents, entry, lockVars, inflight, creator, approver, scanVars, otherVars>>

FirstRunRaises(i) ==
  /\ i \in Faulty
  /\ task[i].pc = "running"
  /\ task' = [task EXCEPT ![i].pc = "releasing"]
  /\ \E n \in {0, 1} : executions' = [executions EXCEPT ![i] = @ + n]
  /\ UNCHANGED <<incidents, entry, lockVars, inflight, creator, approver, scanVars, dropped>>

StoreFirstRun(i) ==
  /\ task[i].pc = "storing"
  /\ <<i, task[i].lock>> \notin held
  /\ entry' = [entry EXCEPT ![i].run = task[i].result]
  /\ task' = [task EXCEPT ![i].pc = "releasing"]
  /\ UNCHANGED <<incidents, lockVars, inflight, creator, approver, scanVars, otherVars>>

ReleaseSlot(i) ==
  /\ task[i].pc = "releasing"
  /\ i \in Async => StateLockFree
  /\ task' = [task EXCEPT ![i].pc = "done"]
  /\ inflight' = IF i \in Async THEN inflight - 1 ELSE inflight
  /\ UNCHANGED <<incidents, entry, lockVars, creator, approver, scanVars, otherVars>>

-----------------------------------------------------------------------------
(* POST /v1/incidents/<id>/approvals, after the client has read the        *)
(* incident's status and fence from a GET or from the 202 answer.          *)

Target(a) == approver[a].target
Lock(a)   == <<Target(a), approver[a].lock>>
Becomes(a, pc) == approver' = [approver EXCEPT ![a].pc = pc]

View(a, i) ==
  /\ approver[a].pc = "idle"
  /\ i \in Names
  /\ approver' = [approver EXCEPT ![a] = [pc |-> "viewed", target |-> i,
                                         fence |-> entry[i].fence, lock |-> 0]]
  /\ UNCHANGED <<incidents, entry, lockVars, inflight, creator, task, scanVars, otherVars>>

Lookup(a) ==
  /\ approver[a].pc = "viewed"
  /\ Becomes(a, IF Target(a) \in Names THEN "found" ELSE "refused")
  /\ UNCHANGED <<incidents, entry, lockVars, inflight, creator, task, scanVars, otherVars>>

TakeLock(a) ==
  /\ approver[a].pc = "found"
  /\ LockFor(Target(a))
  /\ approver' = [approver EXCEPT ![a].pc = "waiting",
                                  ![a].lock = LockNumber(Target(a))]
  /\ UNCHANGED <<incidents, entry, held, inflight, creator, task, scanVars, otherVars>>

(* Fault: check-then-act without the lock.                                 *)
AcquireNothing(a) ==
  /\ approver[a].pc = "waiting"
  /\ Becomes(a, "locked")
  /\ UNCHANGED <<incidents, entry, lockVars, inflight, creator, task, scanVars, otherVars>>

Acquire(a) ==
  /\ approver[a].pc = "waiting"
  /\ Lock(a) \notin held
  /\ held' = held \cup {Lock(a)}
  /\ Becomes(a, "locked")
  /\ UNCHANGED <<incidents, entry, locks, made, inflight, creator, task, scanVars, otherVars>>

(* Fault: a run that is over is resumed like a paused one.                 *)
AcceptableUnlessRunning(a) ==
  /\ approver[a].fence = entry[Target(a)].fence
  /\ entry[Target(a)].run # "none"

Acceptable(a) ==
  /\ approver[a].fence = entry[Target(a)].fence
  /\ entry[Target(a)].run = "PAUSED"

Release(a) == held' = held \ {Lock(a)}

Refuse(a) ==
  /\ approver[a].pc = "locked"
  /\ ~Acceptable(a)
  /\ Becomes(a, "refused")
  /\ Release(a)
  /\ UNCHANGED <<incidents, entry, locks, made, inflight, creator, task, scanVars, otherVars>>

Resume(a) ==
  /\ approver[a].pc = "locked"
  /\ Acceptable(a)
  /\ Becomes(a, "running")
  /\ UNCHANGED <<incidents, entry, lockVars, inflight, creator, task, scanVars, otherVars>>

(* The resumed run executes the plan, or it does not: the decision is to   *)
(* deny, or the deadline or a failure comes first.                         *)
ResumeReturns(a) ==
  /\ approver[a].pc = "running"
  /\ entry' = [entry EXCEPT ![Target(a)] = [run |-> "ENDED", fence |-> @.fence + 1]]
  /\ \E n \in {0, 1} : executions' = [executions EXCEPT ![Target(a)] = @ + n]
  /\ Becomes(a, "applied")
  /\ Release(a)
  /\ UNCHANGED <<incidents, locks, made, inflight, creator, task, scanVars, dropped>>

(* Fault: the exception skips the release of the lock.                     *)
ResumeRaisesKeepingLock(a) ==
  /\ Target(a) \in Faulty
  /\ approver[a].pc = "running"
  /\ Becomes(a, "raised")
  /\ UNCHANGED <<incidents, entry, lockVars, inflight, creator, task, scanVars, otherVars>>

(* The exception releases the lock and leaves the entry as it was.         *)
ResumeRaises(a) ==
  /\ Target(a) \in Faulty
  /\ approver[a].pc = "running"
  /\ \E n \in {0, 1} : executions' = [executions EXCEPT ![Target(a)] = @ + n]
  /\ Becomes(a, "raised")
  /\ Release(a)
  /\ UNCHANGED <<incidents, entry, locks, made, inflight, creator, task, scanVars, dropped>>

-----------------------------------------------------------------------------
Create(c) ==
  \/ AdmitSync(c)
  \/ AdmitAsync(c)
  \/ RejectAsync(c)
  \/ Insert(c)
  \/ FailToBuild(c)

EvictAndLaunch(c) ==
  \/ StartEvict(c)
  \/ PassInFlight(c)
  \/ EvictEnded(c)
  \/ EvictOldest(c)
  \/ Launch(c)

Execute(i) ==
  \/ StartTask(i)
  \/ FirstRunReturns(i)
  \/ FirstRunRaises(i)
  \/ StoreFirstRun(i)
  \/ ReleaseSlot(i)

Approve(a) ==
  \/ Lookup(a)
  \/ TakeLock(a)
  \/ Acquire(a)
  \/ Refuse(a)
  \/ Resume(a)
  \/ ResumeReturns(a)
  \/ ResumeRaises(a)

Next ==
  \/ \E c \in Creator : Create(c) \/ EvictAndLaunch(c) \/ Execute(c)
  \/ \E a \in Approver, i \in Creator : View(a, i)
  \/ \E a \in Approver : Approve(a)

Spec == Init /\ [][Next]_vars

(* A handler or pool thread that can go on does; run_incident_remediation  *)
(* returns because its nodes and the run are bounded in time.  A client    *)
(* need not send its request.                                              *)
Fairness ==
  /\ \A c \in Creator : WF_vars(EvictAndLaunch(c)) /\ WF_vars(Execute(c))
  /\ \A a \in Approver : WF_vars(Approve(a))
FairSpec == Spec /\ Fairness

-----------------------------------------------------------------------------
(* Properties.                                                             *)

(* "Two racing approvals would double-execute" (AppState.__init__): at most*)
(* one decision on an incident takes effect, an approval or a denial,      *)
(* as long as the incident was not evicted while in flight.                *)
Effective(i) == {a \in Approver : Target(a) = i /\ approver[a].pc \in {"running", "applied"}}
OneDecision  == \A i \in Creator \ dropped : Cardinality(Effective(i)) <= 1

(* Over the first run and every approval, the execute node of an incident  *)
(* runs at most once, and once more for each approval whose resumed run    *)
(* raised, as long as the incident was not evicted while in flight.        *)
Raised(i) == {a \in Approver : Target(a) = i /\ approver[a].pc = "raised"}
RemediatesOnce ==
  \A i \in Creator \ dropped : executions[i] <= 1 + Cardinality(Raised(i))

(* The backpressure counter counts the asynchronous incidents between      *)
(* admission and the end of _execute, plus the ones whose handler died in  *)
(* between; it never exceeds its maximum.                                  *)
InSlot(c) == creator[c] \in {"building", "evicting", "scanning", "failed"} \/
             (creator[c] = "launched" /\ task[c].pc # "done")
SlotsAccounted ==
  /\ inflight = Cardinality({c \in Async : InSlot(c)})
  /\ inflight <= MaxInflight

(* An incident in flight is evicted only by a scan that began when none of *)
(* the registry had ended.                                                 *)
EndedEvictedFirst ==
  [][dropped' # dropped => endedBefore = {}]_vars

(* An incident whose creation was accepted gets an outcome, unless its     *)
(* first run raised; and an approval request gets an answer.               *)
DiedSilently(i) == task[i].pc \in {"releasing", "done"} /\ entry[i].run = "none"
RunsAreStored == \A i \in Creator :
  (creator[i] = "evicting") ~> (entry[i].run # "none" \/ DiedSilently(i))
ApprovalAnswered == \A a \in Approver :
  (approver[a].pc = "viewed") ~> (approver[a].pc \in {"applied", "refused", "raised"})

(* "Per-incident locks make double-execution impossible" (docs/16), which  *)
(* the eviction of an incident in flight breaks.                           *)
NoConcurrentResumes ==
  \A a, b \in Approver :
    a # b /\ Target(a) = Target(b) =>
      ~(approver[a].pc = "running" /\ approver[b].pc = "running")
=============================================================================
