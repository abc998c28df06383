--------------------------- MODULE IncidentApiProofs ---------------------------
(***************************************************************************)
(* Proofs about IncidentApi for any number of requests, any retention, any *)
(* backpressure limit, any pool and any set of incidents that may raise.   *)
(*                                                                         *)
(* The argument for the locks: an incident that is neither evicted in      *)
(* flight nor ended keeps the one lock object that the registry names, so  *)
(* every thread that waits for it or holds it has that object; only one    *)
(* thread holds a lock object; and the thread that applies a decision ends *)
(* the incident before it lets the lock go.                                *)
(***************************************************************************)
EXTENDS IncidentApi, FiniteSetTheorems, SequenceTheorems, TLAPS

Early(i)   == task[i].pc \in {"none", "queued", "running"}
HasLock(a) == approver[a].pc \in {"locked", "running"}

(* A task exists exactly when its incident was launched, which an incident *)
(* of the registry is after its handler put it there.                      *)
LaunchInv ==
  \A c \in Creator :
    /\ task[c].pc # "none" <=> creator[c] = "launched"
    /\ c \in Names => creator[c] \in {"evicting", "scanning", "launched"}

(* state_lock is held exactly by the one thread that scans, and the scan   *)
(* has met none of the incidents that had ended when it began.             *)
ScanInv ==
  /\ \A c, d \in Creator : creator[c] = "scanning" /\ creator[d] = "scanning" => c = d
  /\ (\E c \in Creator : creator[c] = "scanning") <=> scan # 0
  /\ scan = 0 => endedBefore = {}
  /\ scan # 0 =>
       /\ scan <= Len(incidents) + 1
       /\ endedBefore \subseteq Names
       /\ \A i \in endedBefore : Ended(i)
       /\ \A k \in 1..Len(incidents) : k < scan => incidents[k] \notin endedBefore

(* The entry of an incident is filled in by its first run.                 *)
FirstRunOf(i) ==
  /\ Early(i) => executions[i] = 0
  /\ Early(i) \/ task[i].pc = "storing" => entry[i].run = "none"
  /\ task[i].pc = "storing" =>
       /\ task[i].result \in {"PAUSED", "ENDED"}
       /\ task[i].result = "PAUSED" => executions[i] = 0
  /\ entry[i].run = "none" => executions[i] <= 1
FirstRunInv == \A i \in Creator : FirstRunOf(i)

(* What a thread in the approval handler holds, and what it has seen.      *)
HolderOf(a) ==
  /\ approver[a].pc = "waiting" \/ HasLock(a) => approver[a].lock # 0
  /\ HasLock(a) => Lock(a) \in held
  /\ approver[a].pc \in {"running", "raised"} => entry[Target(a)].run # "none"
  /\ approver[a].pc = "applied" => entry[Target(a)].run = "ENDED"
HolderInv ==
  /\ \A a \in Approver : HolderOf(a)
  /\ \A a, b \in Approver : HasLock(a) /\ HasLock(b) /\ Lock(a) = Lock(b) => a = b

(* An incident neither evicted in flight nor ended has one lock object.    *)
OneLock ==
  \A a \in Approver :
    /\ Target(a) \notin dropped /\ ~Ended(Target(a))
    /\ approver[a].pc = "waiting" \/ HasLock(a)
    => approver[a].lock = locks[Target(a)]

(* Unless the incident was evicted in flight, a decision is being applied  *)
(* only while it is paused, and only one ever is.                          *)
DecisionInv ==
  \A a \in Approver : Target(a) \notin dropped =>
    /\ approver[a].pc = "running" => entry[Target(a)].run = "PAUSED"
    /\ \A b \in Approver :
         Target(b) = Target(a) /\ approver[a].pc = "applied" /\ approver[b].pc = "applied"
           => a = b

(* The execute node ran at most as often as resumed runs raised, and once  *)
(* more when the incident has ended.                                       *)
ExecutionInv ==
  \A i \in Creator \ dropped :
    /\ entry[i].run = "PAUSED" => executions[i] <= Cardinality(Raised(i))
    /\ entry[i].run = "ENDED" => executions[i] <= 1 + Cardinality(Raised(i))

IInv ==
  /\ TypeOK /\ LaunchInv /\ ScanInv
  /\ FirstRunInv /\ HolderInv /\ OneLock /\ DecisionInv /\ ExecutionInv

(* What RemoveAt does to a sequence: the k-th element goes, and the later  *)
(* ones move up.                                                           *)
LEMMA RemoveAtProperties ==
  ASSUME NEW S, NEW s \in Seq(S), NEW k \in 1..Len(s)
  PROVE  /\ RemoveAt(s, k) \in Seq(S)
         /\ Len(RemoveAt(s, k)) = Len(s) - 1
         /\ \A j \in 1..(Len(s) - 1) :
              RemoveAt(s, k)[j] = IF j < k THEN s[j] ELSE s[j + 1]
<1> DEFINE before == SubSeq(s, 1, k - 1)
           after  == SubSeq(s, k + 1, Len(s))
<1>1. Len(s) \in Nat /\ \A j \in 1..Len(s) : s[j] \in S
  BY LenProperties, ElementOfSeq
<1>2. /\ before \in Seq(S)
      /\ Len(before) = k - 1
      /\ \A j \in 1..(k - 1) : before[j] = s[j]
  <2>1. \A j \in 1..(k - 1) : s[j] \in S
    BY <1>1
  <2>2. /\ before \in Seq(S)
        /\ Len(before) = IF 1 <= k - 1 THEN k - 1 - 1 + 1 ELSE 0
        /\ \A j \in 1..(k - 1 - 1 + 1) : before[j] = s[1 + j - 1]
    BY <1>1, <2>1, SubSeqProperties
  <2>3. QED
    BY <1>1, <2>2
<1>3. /\ after \in Seq(S)
      /\ Len(after) = Len(s) - k
      /\ \A j \in 1..(Len(s) - k) : after[j] = s[k + j]
  <2>1. \A j \in (k + 1)..Len(s) : s[j] \in S
    BY <1>1
  <2>2. /\ after \in Seq(S)
        /\ Len(after) = IF k + 1 <= Len(s) THEN Len(s) - (k + 1) + 1 ELSE 0
        /\ \A j \in 1..(Len(s) - (k + 1) + 1) : after[j] = s[k + 1 + j - 1]
    BY <1>1, <2>1, SubSeqProperties
  <2>3. QED
    BY <1>1, <2>2
<1> HIDE DEF before, after
<1>4. /\ before \o after \in Seq(S)
      /\ Len(before \o after) = Len(before) + Len(after)
      /\ \A j \in 1..(Len(before) + Len(after)) : (before \o after)[j] =
           IF j <= Len(before) THEN before[j] ELSE after[j - Len(before)]
  BY <1>2, <1>3, ConcatProperties
<1>5. RemoveAt(s, k) = before \o after
  BY DEF RemoveAt, before, after
<1>6. ASSUME NEW j \in 1..(Len(s) - 1)
      PROVE  RemoveAt(s, k)[j] = IF j < k THEN s[j] ELSE s[j + 1]
  <2>1. CASE j < k
    BY <1>1, <1>2, <1>3, <1>4, <1>5, <2>1
  <2>2. CASE j >= k
    <3>1. (before \o after)[j] = after[j - (k - 1)]
      BY <1>1, <1>2, <1>3, <1>4, <2>2
    <3>2. after[j - (k - 1)] = s[k + (j - (k - 1))]
      BY <1>1, <1>3, <2>2
    <3>3. QED
      BY <1>1, <1>5, <2>2, <3>1, <3>2
  <2>3. QED
    BY <1>1, <2>1, <2>2
<1>7. RemoveAt(s, k) \in Seq(S) /\ Len(RemoveAt(s, k)) = Len(s) - 1
  <2>1. ASSUME NEW n \in Nat PROVE k - 1 + (n - k) = n - 1
    OBVIOUS
  <2>2. Len(before) + Len(after) = Len(s) - 1
    BY <1>1, <1>2, <1>3, <2>1
  <2>3. QED
    BY <1>4, <1>5, <2>2
<1>8. QED
  BY <1>6, <1>7

-----------------------------------------------------------------------------
(* Backpressure.                                                           *)

InUse == {c \in Async : InSlot(c)}

(* A step that does not touch a slot's holder leaves the count alone.      *)
LEMMA SlotsUnchanged ==
  ASSUME SlotsAccounted, inflight' = inflight,
         \A c \in Async : InSlot(c)' <=> InSlot(c)
  PROVE  SlotsAccounted'
<1>1. {c \in Async : InSlot(c)}' = {c \in Async : InSlot(c)}
  OBVIOUS
<1>2. QED
  BY <1>1 DEF SlotsAccounted

(* Any set of asynchronous incidents can be counted.                       *)
LEMMA AsyncFinite ==
  ASSUME NEW S \in SUBSET Async
  PROVE  IsFiniteSet(S) /\ Cardinality(S) \in Nat
<1>1. IsFiniteSet(Creator) /\ S \in SUBSET Creator
  BY ApiAssumption DEF ApiAssumption
<1>2. IsFiniteSet(S)
  BY <1>1, FS_Subset
<1>3. QED
  BY <1>2, FS_CardinalityType

(* Admission takes a slot, the end of _execute gives it back, and nothing  *)
(* else changes the count.                                                 *)
LEMMA SlotsStep ==
  ASSUME TypeOK, LaunchInv, SlotsAccounted, [Next]_vars
  PROVE  SlotsAccounted'
<1>0. /\ IsFiniteSet(InUse) /\ Cardinality(InUse) \in Nat
      /\ \A S : S \subseteq Async => IsFiniteSet(S) /\ Cardinality(S) \in Nat
  BY AsyncFinite DEF InUse
<1> USE ApiAssumption DEF ApiAssumption, TypeOK, LaunchInv, InSlot
<1>1. ASSUME NEW c \in Creator, AdmitSync(c) \/ RejectAsync(c) PROVE SlotsAccounted'
  <2>1. \A d \in Async : InSlot(d)' <=> InSlot(d)
    BY <1>1 DEF AdmitSync, RejectAsync, Go
  <2>2. QED
    BY <1>1, <2>1, SlotsUnchanged DEF AdmitSync, RejectAsync
<1>2. ASSUME NEW c \in Creator, AdmitAsync(c) PROVE SlotsAccounted'
  <2>1. InUse' = InUse \cup {c} /\ c \notin InUse
    BY <1>2 DEF AdmitAsync, Go, InUse
  <2>2. Cardinality(InUse') = Cardinality(InUse) + 1
    BY <2>1, <1>0, FS_AddElement
  <2>3. QED
    BY <1>2, <2>2, <1>0, ApiAssumption DEF AdmitAsync, SlotsAccounted, InUse, ApiAssumption
<1>3. ASSUME NEW c \in Creator, Insert(c) \/ FailToBuild(c) \/ StartEvict(c) PROVE SlotsAccounted'
  <2>1. \A d \in Async : InSlot(d)' <=> InSlot(d)
    BY <1>3 DEF Insert, FailToBuild, StartEvict, Go
  <2>2. QED
    BY <1>3, <2>1, SlotsUnchanged DEF Insert, FailToBuild, StartEvict
<1>4. ASSUME NEW c \in Creator, Launch(c) PROVE SlotsAccounted'
  <2>1. \A d \in Async : InSlot(d)' <=> InSlot(d)
    BY <1>4 DEF Launch, Go
  <2>2. QED
    BY <1>4, <2>1, SlotsUnchanged DEF Launch
<1>5. ASSUME NEW i \in Creator,
             StartTask(i) \/ FirstRunReturns(i) \/ FirstRunRaises(i) \/ StoreFirstRun(i)
      PROVE  SlotsAccounted'
  <2>1. \A d \in Async : InSlot(d)' <=> InSlot(d)
    <3>1. /\ creator' = creator
          /\ task[i].pc \notin {"none", "done"} /\ task'[i].pc \notin {"none", "done"}
          /\ \A d \in Creator : d # i => task'[d] = task[d]
      <4>1. CASE StartTask(i)
        BY <4>1 DEF StartTask
      <4>2. CASE FirstRunReturns(i)
        BY <4>2 DEF FirstRunReturns
      <4>3. CASE FirstRunRaises(i)
        BY <4>3 DEF FirstRunRaises
      <4>4. CASE StoreFirstRun(i)
        BY <4>4 DEF StoreFirstRun
      <4>5. QED
        BY <1>5, <4>1, <4>2, <4>3, <4>4
    <3>2. QED
      BY <3>1
  <2>2. QED
    BY <1>5, <2>1, SlotsUnchanged
    DEF StartTask, FirstRunReturns, FirstRunRaises, StoreFirstRun
<1>6. ASSUME NEW i \in Creator, ReleaseSlot(i) PROVE SlotsAccounted'
  <2>1. CASE i \notin Async
    <3>1. InUse' = InUse
      BY <1>6, <2>1 DEF ReleaseSlot, InUse
    <3>2. QED
      BY <1>6, <2>1, <3>1 DEF ReleaseSlot, SlotsAccounted, InUse
  <2>2. CASE i \in Async
    <3>1. InUse' = InUse \ {i} /\ i \in InUse
      BY <1>6, <2>2 DEF ReleaseSlot, InUse
    <3>2. Cardinality(InUse') = Cardinality(InUse) - 1
      BY <3>1, <1>0, FS_RemoveElement
    <3>3. QED
      BY <1>6, <2>2, <3>2, <1>0, ApiAssumption
      DEF ReleaseSlot, SlotsAccounted, InUse, ApiAssumption
  <2>3. QED
    BY <2>1, <2>2
<1>7. CASE UNCHANGED <<creator, task, inflight>>
  <2>1. \A d \in Async : InSlot(d)' <=> InSlot(d)
    BY <1>7
  <2>2. QED
    BY <1>7, <2>1, SlotsUnchanged
<1>8. QED
  BY <1>1, <1>2, <1>3, <1>4, <1>5, <1>6, <1>7
  DEF Next, vars, Create, EvictAndLaunch, Execute, Approve, PassInFlight, EvictEnded,
      EvictOldest, Evict, View, Lookup, TakeLock, Acquire, Refuse, Resume, ResumeReturns,
      ResumeRaises

-----------------------------------------------------------------------------
(* Types.                                                                  *)

(* A lock object's number is positive once the lock is made.               *)
LEMMA LockForType ==
  ASSUME TypeOK, NEW i \in Creator, LockFor(i)
  PROVE  /\ LockNumber(i) \in Nat \ {0}
         /\ locks' = [locks EXCEPT ![i] = LockNumber(i)]
         /\ locks' \in [Creator -> Nat]
         /\ made' \in [Creator -> Nat]
<1>1. LockNumber(i) \in Nat \ {0}
  BY DEF TypeOK, LockNumber
<1>2. QED
  BY <1>1 DEF TypeOK, LockFor

(* Evicting the k-th incident leaves a well-typed registry without it.     *)
LEMMA EvictType ==
  ASSUME TypeOK, NEW k \in 1..Len(incidents), Evict(k)
  PROVE  /\ incidents[k] \in Creator
         /\ incidents' \in Seq(Creator)
         /\ locks' \in [Creator -> Nat]
         /\ dropped' \subseteq Creator
         /\ scan' = 1
         /\ endedBefore' \subseteq Creator
         /\ Names' \subseteq Names
<1>1. incidents \in Seq(Creator) /\ \A j \in 1..Len(incidents) : incidents[j] \in Creator
  BY ElementOfSeq DEF TypeOK
<1>2. incidents' = RemoveAt(incidents, k)
  BY DEF Evict
<1>3. /\ incidents' \in Seq(Creator)
      /\ Len(incidents') = Len(incidents) - 1
      /\ \A j \in 1..(Len(incidents) - 1) :
           incidents'[j] = IF j < k THEN incidents[j] ELSE incidents[j + 1]
  BY <1>1, <1>2, RemoveAtProperties
<1>4. DOMAIN incidents = 1..Len(incidents) /\ DOMAIN incidents' = 1..Len(incidents')
  BY <1>1, <1>3, LenProperties
<1>5. ASSUME NEW j \in DOMAIN incidents'
      PROVE  \E m \in DOMAIN incidents : incidents'[j] = incidents[m]
  <2>1. Len(incidents) \in Nat
    BY <1>1, LenProperties
  <2>2. CASE j < k
    BY <1>3, <1>4, <1>5, <2>1, <2>2
  <2>3. CASE ~(j < k)
    BY <1>3, <1>4, <1>5, <2>1, <2>3
  <2>4. QED
    BY <2>2, <2>3
<1>6. Names' \subseteq Names
  BY <1>5 DEF Names
<1>7. Names \subseteq Creator
  BY <1>1, <1>4 DEF Names
<1>8. locks' \in [Creator -> Nat] /\ dropped' \subseteq Creator
  BY <1>1 DEF Evict, TypeOK
<1>9. scan' = 1 /\ endedBefore' \subseteq Creator
  BY <1>6, <1>7 DEF Evict, BeginScan
<1>10. QED
  BY <1>1, <1>3, <1>6, <1>8, <1>9

(* Every registered name is an incident's.                                 *)
LEMMA NamesType ==
  ASSUME TypeOK
  PROVE  /\ Names \subseteq Creator
         /\ Len(incidents) \in Nat
         /\ DOMAIN incidents = 1..Len(incidents)
         /\ \A k \in 1..Len(incidents) : incidents[k] \in Creator
<1>1. incidents \in Seq(Creator)
  BY DEF TypeOK
<1>2. /\ Len(incidents) \in Nat
      /\ DOMAIN incidents = 1..Len(incidents)
      /\ \A k \in 1..Len(incidents) : incidents[k] \in Creator
  BY <1>1, LenProperties, ElementOfSeq
<1>3. QED
  BY <1>2 DEF Names

ApproverState == [pc : ApproverPc, target : Creator, fence : Nat, lock : Nat]

(* A thread's program counter moves and the rest of its record stays.      *)
LEMMA ApproverPcType ==
  ASSUME TypeOK, NEW a \in Approver, NEW pc \in ApproverPc, Becomes(a, pc)
  PROVE  approver' \in [Approver -> ApproverState]
BY DEF TypeOK, Becomes, ApproverState

LEMMA TaskPcType ==
  ASSUME TypeOK, NEW i \in Creator, NEW pc \in TaskPc, task' = [task EXCEPT ![i].pc = pc]
  PROVE  task' \in [Creator -> [pc : TaskPc, result : Status, lock : Nat]]
BY DEF TypeOK

(* A run adds at most one execution.                                       *)
LEMMA ExecutionsType ==
  ASSUME TypeOK, NEW i \in Creator,
         \/ UNCHANGED executions
         \/ \E n \in {0, 1} : executions' = [executions EXCEPT ![i] = @ + n]
  PROVE  executions' \in [Creator -> Nat]
BY DEF TypeOK

(* Every action leaves a well-typed state.                                 *)
LEMMA NextTypeOK ==
  ASSUME TypeOK, LaunchInv, ScanInv, HolderInv, SlotsAccounted, [Next]_vars
  PROVE  TypeOK'
<1>1. inflight' \in Nat
  <2>1. inflight' = Cardinality({c \in Async : InSlot(c)}')
    BY SlotsStep DEF SlotsAccounted
  <2>2. {c \in Async : InSlot(c)}' \in SUBSET Async
    OBVIOUS
  <2>3. QED
    BY <2>1, <2>2, AsyncFinite
<1> USE DEF TypeOK, Entry, Status, CreatorPc, TaskPc, ApproverPc,
            lockVars, scanVars, otherVars, Go
<1>2. ASSUME NEW c \in Creator, Create(c) PROVE TypeOK'
  <2>1. CASE AdmitSync(c) \/ AdmitAsync(c) \/ RejectAsync(c) \/ FailToBuild(c)
    BY <1>1, <2>1 DEF AdmitSync, AdmitAsync, RejectAsync, FailToBuild
  <2>2. CASE Insert(c)
    <3>1. incidents' \in Seq(Creator)
      BY <2>2 DEF Insert
    <3>2. creator' \in [Creator -> CreatorPc]
      BY <2>2 DEF Insert
    <3>3. QED
      BY <1>1, <2>2, <3>1, <3>2 DEF Insert
  <2>3. QED
    BY <1>2, <2>1, <2>2 DEF Create
<1>3. ASSUME NEW c \in Creator, EvictAndLaunch(c) PROVE TypeOK'
  <2>1. CASE StartEvict(c)
    <3>1. Names' = Names
      BY <2>1 DEF StartEvict, Names
    <3>2. endedBefore' \subseteq Creator /\ scan' \in Nat
      BY <2>1, <3>1, NamesType DEF StartEvict, BeginScan
    <3>3. QED
      BY <1>1, <2>1, <3>2 DEF StartEvict
  <2>2. CASE PassInFlight(c)
    <3>1. scan' \in Nat
      BY <2>2 DEF PassInFlight
    <3>2. QED
      BY <1>1, <2>2, <3>1 DEF PassInFlight
  <2>3. ASSUME NEW k \in 1..Len(incidents), Evict(k) PROVE TypeOK'
    <3>1. /\ incidents' \in Seq(Creator)
          /\ locks' \in [Creator -> Nat]
          /\ dropped' \subseteq Creator
          /\ scan' = 1
          /\ endedBefore' \subseteq Creator
      BY <2>3, EvictType
    <3>2. QED
      BY <1>1, <2>3, <3>1 DEF Evict
  <2>4. CASE EvictEnded(c)
    <3>1. scan \in 1..Len(incidents)
      BY <2>4, NamesType DEF EvictEnded, Scanning, ScanInv
    <3>2. QED
      BY <2>3, <2>4, <3>1 DEF EvictEnded
  <2>5. CASE EvictOldest(c)
    <3>1. 1 \in 1..Len(incidents)
      BY <2>5, NamesType, ApiAssumption DEF EvictOldest, Scanning, ApiAssumption
    <3>2. QED
      BY <2>3, <2>5, <3>1 DEF EvictOldest
  <2>6. CASE Launch(c)
    <3>1. task' \in [Creator -> [pc : TaskPc, result : Status, lock : Nat]]
      BY <2>6, TaskPcType DEF Launch
    <3>2. creator' \in [Creator -> CreatorPc]
      BY <2>6 DEF Launch
    <3>3. QED
      BY <1>1, <2>6, <3>1, <3>2 DEF Launch
  <2>7. QED
    BY <1>3, <2>1, <2>2, <2>4, <2>5, <2>6 DEF EvictAndLaunch
<1>4. ASSUME NEW i \in Creator, Execute(i) PROVE TypeOK'
  <2>1. CASE StartTask(i)
    BY <1>1, <2>1 DEF StartTask
  <2>2. CASE FirstRunReturns(i)
    <3>1. /\ LockNumber(i) \in Nat
          /\ locks' \in [Creator -> Nat]
          /\ made' \in [Creator -> Nat]
      BY <2>2, LockForType DEF FirstRunReturns
    <3>2. PICK result \in {"PAUSED", "ENDED"} :
            task' = [task EXCEPT ![i] = [pc |-> "storing", result |-> result,
                                         lock |-> LockNumber(i)]]
      BY <2>2 DEF FirstRunReturns
    <3>3. [pc |-> "storing", result |-> result, lock |-> LockNumber(i)]
            \in [pc : TaskPc, result : Status, lock : Nat]
      BY <3>1
    <3>4. task' \in [Creator -> [pc : TaskPc, result : Status, lock : Nat]]
      BY <3>2, <3>3
    <3>5. executions' \in [Creator -> Nat]
      BY <2>2, ExecutionsType DEF FirstRunReturns
    <3>6. QED
      BY <1>1, <2>2, <3>1, <3>4, <3>5 DEF FirstRunReturns
  <2>3. CASE FirstRunRaises(i)
    BY <1>1, <2>3, TaskPcType, ExecutionsType DEF FirstRunRaises
  <2>4. CASE StoreFirstRun(i)
    <3>1. task' \in [Creator -> [pc : TaskPc, result : Status, lock : Nat]]
      BY <2>4, TaskPcType DEF StoreFirstRun
    <3>2. entry' \in [Creator -> Entry]
      <4>1. task[i].result \in Status /\ entry[i] \in Entry
        OBVIOUS
      <4>2. [entry[i] EXCEPT !.run = task[i].result] \in Entry
        BY <4>1
      <4>3. entry' = [entry EXCEPT ![i] = [entry[i] EXCEPT !.run = task[i].result]]
        BY <2>4 DEF StoreFirstRun
      <4>4. QED
        BY <4>2, <4>3
    <3>3. QED
      BY <1>1, <2>4, <3>1, <3>2 DEF StoreFirstRun
  <2>5. CASE ReleaseSlot(i)
    BY <1>1, <2>5 DEF ReleaseSlot
  <2>6. QED
    BY <1>4, <2>1, <2>2, <2>3, <2>4, <2>5 DEF Execute
<1>5. ASSUME NEW a \in Approver, NEW i \in Creator, View(a, i) PROVE TypeOK'
  BY <1>1, <1>5 DEF View
<1>6. ASSUME NEW a \in Approver, Approve(a) PROVE TypeOK'
  <2>1. Target(a) \in Creator
    BY DEF Target
  <2>2. CASE Lookup(a)
    <3>1. approver' \in [Approver -> ApproverState]
      BY <2>2, ApproverPcType DEF Lookup
    <3>2. QED
      BY <1>1, <2>2, <3>1 DEF Lookup, ApproverState
  <2>3. CASE TakeLock(a)
    <3>1. /\ LockNumber(Target(a)) \in Nat
          /\ locks' \in [Creator -> Nat]
          /\ made' \in [Creator -> Nat]
      BY <2>1, <2>3, LockForType DEF TakeLock
    <3>2. approver' \in [Approver -> ApproverState]
      <4>1. [approver[a] EXCEPT !.pc = "waiting", !.lock = LockNumber(Target(a))]
              \in ApproverState
        <5>1. approver[a] \in ApproverState
          BY DEF ApproverState
        <5>2. \A r \in ApproverState, n \in Nat :
                [r EXCEPT !.pc = "waiting", !.lock = n] \in ApproverState
          BY DEF ApproverState
        <5>3. QED
          BY <3>1, <5>1, <5>2
      <4>2. approver' = [approver EXCEPT ![a] =
              [approver[a] EXCEPT !.pc = "waiting", !.lock = LockNumber(Target(a))]]
        BY <2>3 DEF TakeLock
      <4>3. QED
        BY <4>1, <4>2 DEF ApproverState
    <3>3. QED
      BY <1>1, <2>3, <3>1, <3>2 DEF TakeLock, ApproverState
  <2>4. CASE Acquire(a)
    <3>1. Lock(a) \in Creator \X (Nat \ {0})
      BY <2>1, <2>4 DEF Acquire, Lock, HolderInv, HolderOf
    <3>2. QED
      BY <1>1, <2>4, <3>1 DEF Acquire, Becomes
  <2>5. CASE Refuse(a) \/ Resume(a)
    <3>1. approver' \in [Approver -> ApproverState]
      BY <2>5, ApproverPcType DEF Refuse, Resume
    <3>2. held' \subseteq Creator \X (Nat \ {0})
      BY <2>5 DEF Refuse, Resume, Release
    <3>3. QED
      BY <1>1, <2>5, <3>1, <3>2 DEF Refuse, Resume, ApproverState
  <2>6. CASE ResumeReturns(a)
    <3>1. approver' \in [Approver -> ApproverState]
      BY <2>6, ApproverPcType DEF ResumeReturns
    <3>2. executions' \in [Creator -> Nat]
      BY <2>1, <2>6, ExecutionsType DEF ResumeReturns
    <3>3. entry' \in [Creator -> Entry]
      <4>1. [run |-> "ENDED", fence |-> entry[Target(a)].fence + 1] \in Entry
        BY <2>1
      <4>2. entry' = [entry EXCEPT ![Target(a)] =
                       [run |-> "ENDED", fence |-> entry[Target(a)].fence + 1]]
        BY <2>6 DEF ResumeReturns
      <4>3. QED
        BY <2>1, <4>1, <4>2
    <3>4. held' \subseteq Creator \X (Nat \ {0})
      BY <2>6 DEF ResumeReturns, Release
    <3>5. QED
      BY <1>1, <2>6, <3>1, <3>2, <3>3, <3>4 DEF ResumeReturns, ApproverState
  <2>7. CASE ResumeRaises(a)
    <3>1. approver' \in [Approver -> ApproverState]
      BY <2>7, ApproverPcType DEF ResumeRaises
    <3>2. executions' \in [Creator -> Nat]
      BY <2>1, <2>7, ExecutionsType DEF ResumeRaises
    <3>3. held' \subseteq Creator \X (Nat \ {0})
      BY <2>7 DEF ResumeRaises, Release
    <3>4. QED
      BY <1>1, <2>7, <3>1, <3>2, <3>3 DEF ResumeRaises, ApproverState
  <2>8. QED
    BY <1>6, <2>2, <2>3, <2>4, <2>5, <2>6, <2>7 DEF Approve
<1>7. CASE UNCHANGED vars
  BY <1>1, <1>7 DEF vars
<1>8. QED
  BY <1>2, <1>3, <1>4, <1>5, <1>6, <1>7 DEF Next

-----------------------------------------------------------------------------
(* Launching and scanning.                                                 *)

(* A step of _execute moves its own incident's task and nothing of the     *)
(* registry, the creating handlers, the scan or the approving handlers.    *)
LEMMA ExecuteMoves ==
  ASSUME TypeOK, NEW i \in Creator, Execute(i)
  PROVE  /\ task[i].pc # "none" /\ task'[i].pc # "none"
         /\ \A d \in Creator : d # i => task'[d] = task[d]
         /\ UNCHANGED <<creator, incidents, scan, endedBefore, approver, held, dropped>>
<1> USE DEF TypeOK, scanVars, lockVars, otherVars
<1>1. CASE StartTask(i)
  BY <1>1 DEF StartTask
<1>2. CASE FirstRunReturns(i)
  BY <1>2 DEF FirstRunReturns
<1>3. CASE FirstRunRaises(i)
  BY <1>3 DEF FirstRunRaises
<1>4. CASE StoreFirstRun(i)
  BY <1>4 DEF StoreFirstRun
<1>5. CASE ReleaseSlot(i)
  BY <1>5 DEF ReleaseSlot
<1>6. QED
  BY <1>1, <1>2, <1>3, <1>4, <1>5 DEF Execute

(* A step of an approving handler leaves the rest of the server alone,     *)
(* apart from the locks, the entry and the executions of its incident.     *)
LEMMA ApproveMoves ==
  ASSUME TypeOK, NEW a \in Approver,
         Approve(a) \/ \E i \in Creator : View(a, i)
  PROVE  /\ \A b \in Approver : b # a => approver'[b] = approver[b]
         /\ UNCHANGED <<creator, task, incidents, scan, endedBefore, dropped>>
<1> USE DEF TypeOK, scanVars, otherVars, lockVars, Becomes
<1>1. CASE \E i \in Creator : View(a, i)
  BY <1>1 DEF View
<1>2. CASE Lookup(a) \/ TakeLock(a) \/ Acquire(a)
  BY <1>2 DEF Lookup, TakeLock, Acquire
<1>3. CASE Refuse(a) \/ Resume(a) \/ ResumeReturns(a) \/ ResumeRaises(a)
  BY <1>3 DEF Refuse, Resume, ResumeReturns, ResumeRaises
<1>4. QED
  BY <1>1, <1>2, <1>3 DEF Approve

(* A scan is in the bounds of the registry when it evicts.                 *)
LEMMA EvictInBounds ==
  ASSUME TypeOK, ScanInv, NEW c \in Creator, EvictEnded(c) \/ EvictOldest(c)
  PROVE  \E k \in 1..Len(incidents) : Evict(k) /\ (EvictOldest(c) \/ Ended(incidents[k]))
<1>1. CASE EvictEnded(c)
  <2>1. scan \in 1..Len(incidents)
    BY <1>1, NamesType DEF EvictEnded, Scanning, ScanInv, TypeOK
  <2>2. QED
    BY <1>1, <2>1 DEF EvictEnded
<1>2. CASE EvictOldest(c)
  <2>1. 1 \in 1..Len(incidents)
    BY <1>2, NamesType, ApiAssumption DEF EvictOldest, Scanning, ApiAssumption
  <2>2. QED
    BY <1>2, <2>1 DEF EvictOldest
<1>3. QED
  BY <1>1, <1>2

(* Every action keeps LaunchInv.                                           *)
LEMMA LaunchStep ==
  ASSUME TypeOK, LaunchInv, ScanInv, [Next]_vars
  PROVE  LaunchInv'
<1> USE DEF TypeOK, LaunchInv, Go
<1>1. ASSUME NEW c \in Creator, Create(c) PROVE LaunchInv'
  <2>1. CASE AdmitSync(c) \/ AdmitAsync(c) \/ RejectAsync(c) \/ FailToBuild(c)
    <3>1. Names' = Names
      BY <2>1 DEF AdmitSync, AdmitAsync, RejectAsync, FailToBuild, Names
    <3>2. QED
      BY <2>1, <3>1 DEF AdmitSync, AdmitAsync, RejectAsync, FailToBuild
  <2>2. CASE Insert(c)
    <3>1. Names' \subseteq Names \cup {c}
      <4>1. incidents' = Append(incidents, c) /\ incidents \in Seq(Creator)
        BY <2>2 DEF Insert
      <4>2. DOMAIN incidents' = 1..(Len(incidents) + 1) /\ DOMAIN incidents = 1..Len(incidents)
        BY <4>1
      <4>3. \A k \in DOMAIN incidents' :
              incidents'[k] = IF k <= Len(incidents) THEN incidents[k] ELSE c
        BY <4>1, <4>2
      <4>4. QED
        BY <4>2, <4>3, NamesType DEF Names
    <3>2. QED
      BY <2>2, <3>1 DEF Insert
  <2>3. QED
    BY <1>1, <2>1, <2>2 DEF Create
<1>2. ASSUME NEW c \in Creator, EvictAndLaunch(c) PROVE LaunchInv'
  <2>1. CASE StartEvict(c) \/ PassInFlight(c)
    <3>1. Names' = Names
      BY <2>1 DEF StartEvict, PassInFlight, Names
    <3>2. QED
      BY <2>1, <3>1 DEF StartEvict, PassInFlight
  <2>2. CASE EvictEnded(c) \/ EvictOldest(c)
    <3>1. PICK k \in 1..Len(incidents) : Evict(k)
      BY <2>2, EvictInBounds
    <3>2. Names' \subseteq Names /\ UNCHANGED <<creator, task>>
      BY <3>1, EvictType DEF Evict
    <3>3. QED
      BY <3>2
  <2>3. CASE Launch(c)
    <3>1. Names' = Names
      BY <2>3 DEF Launch, Names
    <3>2. QED
      BY <2>3, <3>1 DEF Launch
  <2>4. QED
    BY <1>2, <2>1, <2>2, <2>3 DEF EvictAndLaunch
<1>3. ASSUME NEW i \in Creator, Execute(i) PROVE LaunchInv'
  <2>1. Names' = Names
    BY <1>3, ExecuteMoves DEF Names
  <2>2. QED
    BY <1>3, <2>1, ExecuteMoves
<1>4. ASSUME UNCHANGED <<creator, task, incidents>> PROVE LaunchInv'
  BY <1>4 DEF Names
<1>5. QED
  BY <1>1, <1>2, <1>3, <1>4, ApproveMoves DEF Next, vars

(* The first run of an incident is stored over nothing, and from then on   *)
(* only a resumed run that returns changes the entry.                      *)
LEMMA EntryMoves ==
  ASSUME TypeOK, FirstRunInv, [Next]_vars, NEW i \in Creator, entry[i].run # "none"
  PROVE  \/ entry'[i] = entry[i]
         \/ /\ entry'[i].run = "ENDED"
            /\ \E a \in Approver : ResumeReturns(a) /\ Target(a) = i
<1> USE DEF TypeOK, Entry
<1>1. ASSUME NEW d \in Creator, StoreFirstRun(d) PROVE entry'[i] = entry[i]
  <2>1. d # i
    BY <1>1 DEF StoreFirstRun, FirstRunInv, FirstRunOf
  <2>2. QED
    BY <1>1, <2>1 DEF StoreFirstRun
<1>2. ASSUME NEW a \in Approver, ResumeReturns(a)
      PROVE  entry'[i] = entry[i] \/ (entry'[i].run = "ENDED" /\ Target(a) = i)
  <2>1. Target(a) \in Creator
    BY DEF Target
  <2>2. entry' = [entry EXCEPT ![Target(a)] =
                    [run |-> "ENDED", fence |-> entry[Target(a)].fence + 1]]
    BY <1>2 DEF ResumeReturns
  <2>3. QED
    BY <2>1, <2>2
<1>3. ASSUME UNCHANGED entry PROVE entry'[i] = entry[i]
  BY <1>3
<1>4. QED
  BY <1>1, <1>2, <1>3
  DEF Next, vars, Create, EvictAndLaunch, Execute, Approve, AdmitSync, AdmitAsync,
      RejectAsync, Insert, FailToBuild, StartEvict, PassInFlight, EvictEnded, EvictOldest,
      Evict, Launch, StartTask, FirstRunReturns, FirstRunRaises, ReleaseSlot, View, Lookup,
      TakeLock, Acquire, Refuse, Resume, ResumeRaises

(* An incident that has ended stays ended.                                 *)
LEMMA EndedStays ==
  ASSUME TypeOK, FirstRunInv, [Next]_vars, NEW i \in Creator, Ended(i)
  PROVE  Ended(i)'
BY EntryMoves DEF Ended

(* A new scan knows of the incidents that have ended and has passed none.  *)
LEMMA BeginScanStep ==
  ASSUME TypeOK, TypeOK', BeginScan, UNCHANGED entry
  PROVE  /\ scan' # 0 /\ scan' <= Len(incidents') + 1
         /\ endedBefore' \subseteq Names'
         /\ \A i \in endedBefore' : Ended(i)'
         /\ \A k \in 1..Len(incidents') : k < scan' => incidents'[k] \notin endedBefore'
<1>1. Len(incidents') \in Nat
  BY LenProperties DEF TypeOK
<1>2. scan' = 1 /\ endedBefore' = {i \in Names' : Ended(i)}
  BY DEF BeginScan
<1>3. QED
  BY <1>1, <1>2 DEF Ended

(* Every action keeps ScanInv.                                             *)
LEMMA ScanStep ==
  ASSUME TypeOK, TypeOK', ScanInv, FirstRunInv, [Next]_vars
  PROVE  ScanInv'
<1> USE DEF ScanInv
<1>0. \A i \in Creator : Ended(i) => Ended(i)'
  BY EndedStays
<1>1. ASSUME UNCHANGED <<incidents, scan, endedBefore>>,
             \A c \in Creator : creator'[c] = "scanning" <=> creator[c] = "scanning"
      PROVE  ScanInv'
  BY <1>0, <1>1 DEF Names, TypeOK
<1>2. ASSUME NEW c \in Creator, Create(c) PROVE ScanInv'
  <2>1. CASE AdmitSync(c) \/ AdmitAsync(c) \/ RejectAsync(c) \/ FailToBuild(c)
    <3>1. /\ UNCHANGED <<incidents, scan, endedBefore>>
          /\ \A d \in Creator : creator'[d] = "scanning" <=> creator[d] = "scanning"
      BY <2>1 DEF AdmitSync, AdmitAsync, RejectAsync, FailToBuild, Go, TypeOK, scanVars
    <3>2. QED
      BY <1>1, <3>1
  <2>2. CASE Insert(c)
    BY <2>2 DEF Insert, StateLockFree, Go, TypeOK, scanVars
  <2>3. QED
    BY <1>2, <2>1, <2>2 DEF Create
<1>3. ASSUME NEW c \in Creator, EvictAndLaunch(c) PROVE ScanInv'
  <2>1. CASE StartEvict(c)
    <3>1. BeginScan /\ UNCHANGED entry
      BY <2>1 DEF StartEvict
    <3>2. /\ \A d \in Creator : creator[d] # "scanning"
          /\ creator' = [creator EXCEPT ![c] = "scanning"]
      BY <2>1 DEF StartEvict, StateLockFree, Go
    <3>3. QED
      BY <3>1, <3>2, BeginScanStep DEF TypeOK
  <2>2. CASE PassInFlight(c)
    <3>1. /\ scan' = scan + 1 /\ scan <= Len(incidents)
          /\ scan # 0 /\ scan \in Nat /\ Len(incidents) \in Nat
          /\ ~Ended(incidents[scan])
          /\ UNCHANGED <<incidents, endedBefore, creator, entry>>
      BY <2>2, NamesType DEF PassInFlight, Scanning, TypeOK
    <3>2. \A k \in 1..Len(incidents) : k < scan + 1 => incidents[k] \notin endedBefore
      BY <3>1
    <3>3. QED
      BY <3>1, <3>2 DEF Names, Ended
  <2>3. CASE EvictEnded(c) \/ EvictOldest(c)
    <3>1. PICK k \in 1..Len(incidents) : Evict(k)
      BY <2>3, EvictInBounds
    <3>2. BeginScan /\ UNCHANGED <<entry, creator>>
      BY <3>1 DEF Evict
    <3>3. creator[c] = "scanning"
      BY <2>3 DEF EvictEnded, EvictOldest, Scanning
    <3>4. QED
      BY <3>2, <3>3, BeginScanStep
  <2>4. CASE Launch(c)
    BY <2>4 DEF Launch, Go, TypeOK
  <2>5. QED
    BY <1>3, <2>1, <2>2, <2>3, <2>4 DEF EvictAndLaunch
<1>4. ASSUME UNCHANGED <<incidents, scan, endedBefore, creator>> PROVE ScanInv'
  BY <1>1, <1>4
<1>5. QED
  BY <1>2, <1>3, <1>4, ExecuteMoves, ApproveMoves DEF Next, vars

(* An incident in flight is dropped only when none had ended.              *)
LEMMA DropStep ==
  ASSUME TypeOK, ScanInv, [Next]_vars
  PROVE  dropped' # dropped => endedBefore = {}
<1>1. ASSUME NEW c \in Creator, EvictEnded(c) PROVE dropped' = dropped
  BY <1>1 DEF EvictEnded, Evict
<1>2. ASSUME NEW c \in Creator, EvictOldest(c) PROVE endedBefore = {}
  <2>1. scan # 0 /\ scan = Len(incidents) + 1 /\ Len(incidents) \in Nat
    BY <1>2, NamesType DEF EvictOldest, TypeOK
  <2>2. \A k \in 1..Len(incidents) : incidents[k] \notin endedBefore
    BY <2>1 DEF ScanInv
  <2>3. endedBefore \cap Names = {}
    BY <2>2, NamesType DEF Names
  <2>4. QED
    BY <2>1, <2>3 DEF ScanInv
<1>3. QED
  BY <1>1, <1>2, ExecuteMoves, ApproveMoves
  DEF Next, vars, Create, EvictAndLaunch, AdmitSync, AdmitAsync, RejectAsync, Insert,
      FailToBuild, StartEvict, PassInFlight, Launch, otherVars

-----------------------------------------------------------------------------
(* The first run.                                                          *)

(* Every action keeps FirstRunInv.                                         *)
LEMMA FirstRunStep ==
  ASSUME TypeOK, LaunchInv, FirstRunInv, HolderInv, [Next]_vars
  PROVE  FirstRunInv'
<1> USE DEF TypeOK, FirstRunInv, FirstRunOf, Early, Entry
<1>1. ASSUME NEW i \in Creator, Execute(i) PROVE FirstRunInv'
  <2>1. CASE StartTask(i)
    BY <2>1 DEF StartTask, otherVars
  <2>2. CASE FirstRunReturns(i)
    <3>1. PICK result \in {"PAUSED", "ENDED"} :
            task' = [task EXCEPT ![i] = [pc |-> "storing", result |-> result,
                                         lock |-> LockNumber(i)]]
      BY <2>2 DEF FirstRunReturns
    <3>2. task[i].pc = "running" /\ executions[i] = 0 /\ UNCHANGED entry
      BY <2>2 DEF FirstRunReturns
    <3>3. /\ executions'[i] \in {0, 1}
          /\ task'[i].result = "PAUSED" => executions'[i] = 0
          /\ \A d \in Creator : d # i => executions'[d] = executions[d]
      BY <2>2, <3>2 DEF FirstRunReturns
    <3>4. task'[i].pc = "storing" /\ task'[i].result \in {"PAUSED", "ENDED"}
      BY <3>1
    <3>5. \A d \in Creator : d # i => task'[d] = task[d]
      BY <3>1
    <3>6. executions'[i] <= 1 /\ entry'[i].run = "none"
      BY <3>2, <3>3
    <3>7. ASSUME NEW d \in Creator PROVE FirstRunOf(d)'
      <4>1. CASE d = i
        BY <3>3, <3>4, <3>6, <4>1
      <4>2. CASE d # i
        BY <3>2, <3>3, <3>5, <4>2
      <4>3. QED
        BY <4>1, <4>2
    <3>8. QED
      BY <3>7
  <2>3. CASE FirstRunRaises(i)
    <3>1. executions'[i] \in {0, 1} /\ \A d \in Creator : d # i => executions'[d] = executions[d]
      BY <2>3 DEF FirstRunRaises
    <3>2. task'[i].pc = "releasing" /\ \A d \in Creator : d # i => task'[d] = task[d]
      BY <2>3 DEF FirstRunRaises
    <3>3. UNCHANGED entry
      BY <2>3 DEF FirstRunRaises
    <3>4. executions'[i] <= 1 /\ FirstRunOf(i)'
      BY <3>1, <3>2
    <3>5. ASSUME NEW d \in Creator, d # i PROVE FirstRunOf(d)'
      BY <3>1, <3>2, <3>3, <3>5
    <3>6. QED
      BY <3>4, <3>5
  <2>4. CASE StoreFirstRun(i)
    <3>1. /\ task'[i].pc = "releasing"
          /\ \A d \in Creator : d # i => task'[d] = task[d] /\ entry'[d] = entry[d]
          /\ entry'[i].run # "none"
          /\ UNCHANGED executions
      BY <2>4 DEF StoreFirstRun, otherVars
    <3>2. QED
      BY <3>1
  <2>5. CASE ReleaseSlot(i)
    BY <2>5 DEF ReleaseSlot, otherVars
  <2>6. QED
    BY <1>1, <2>1, <2>2, <2>3, <2>4, <2>5 DEF Execute
<1>2. ASSUME NEW a \in Approver, ResumeReturns(a) \/ ResumeRaises(a) PROVE FirstRunInv'
  <2>1. Target(a) \in Creator /\ entry[Target(a)].run # "none"
    BY <1>2 DEF HolderInv, HolderOf, Target, ResumeReturns, ResumeRaises
  <2>2. /\ UNCHANGED task
        /\ entry'[Target(a)].run # "none"
        /\ \A d \in Creator : d # Target(a) => entry'[d] = entry[d] /\ executions'[d] = executions[d]
    <3>1. CASE ResumeReturns(a)
      BY <2>1, <3>1 DEF ResumeReturns
    <3>2. CASE ResumeRaises(a)
      BY <2>1, <3>2 DEF ResumeRaises
    <3>3. QED
      BY <1>2, <3>1, <3>2
  <2>3. QED
    BY <2>1, <2>2
<1>3. ASSUME NEW c \in Creator, Launch(c) PROVE FirstRunInv'
  <2>1. task[c].pc = "none"
    BY <1>3 DEF Launch, Go, LaunchInv
  <2>2. QED
    BY <1>3, <2>1 DEF Launch, otherVars
<1>4. ASSUME UNCHANGED <<task, entry, executions>> PROVE FirstRunInv'
  BY <1>4
<1>5. QED
  BY <1>1, <1>2, <1>3, <1>4
  DEF Next, vars, Create, EvictAndLaunch, Approve, AdmitSync, AdmitAsync, RejectAsync,
      Insert, FailToBuild, StartEvict, PassInFlight, EvictEnded, EvictOldest, Evict, View,
      Lookup, TakeLock, Acquire, Refuse, Resume, otherVars

-----------------------------------------------------------------------------
(* The locks.                                                              *)

(* A handler that moves on keeps its incident, its lock and what it saw.   *)
LEMMA BecomesMoves ==
  ASSUME TypeOK, NEW a \in Approver, NEW pc \in ApproverPc, Becomes(a, pc)
  PROVE  /\ approver'[a].pc = pc
         /\ Target(a)' = Target(a) /\ Lock(a)' = Lock(a)
         /\ approver'[a].lock = approver[a].lock
         /\ \A b \in Approver : b # a => approver'[b] = approver[b]
BY DEF TypeOK, Becomes, Target, Lock

(* A handler that asks for the lock object gets the registry's.            *)
LEMMA TakeLockMoves ==
  ASSUME TypeOK, NEW a \in Approver, TakeLock(a)
  PROVE  /\ approver'[a].pc = "waiting"
         /\ Target(a)' = Target(a)
         /\ approver'[a].lock = LockNumber(Target(a))
         /\ LockNumber(Target(a)) # 0
         /\ locks'[Target(a)] = LockNumber(Target(a))
         /\ UNCHANGED <<held, entry>>
<1>1. Target(a) \in Creator
  BY DEF TypeOK, Target
<1>2. LockNumber(Target(a)) # 0 /\ locks'[Target(a)] = LockNumber(Target(a))
  BY <1>1, LockForType DEF TakeLock, TypeOK
<1>3. QED
  BY <1>2 DEF TypeOK, TakeLock, Target

(* Nothing but a step of its own moves an approving handler, and only the  *)
(* approving handlers take and release locks.                              *)
LEMMA OthersLeaveApprovers ==
  ASSUME TypeOK, [Next]_vars
  PROVE  \/ UNCHANGED <<approver, held>>
         \/ \E a \in Approver : Approve(a) \/ \E i \in Creator : View(a, i)
BY ExecuteMoves
DEF Next, vars, Create, EvictAndLaunch, AdmitSync, AdmitAsync, RejectAsync, Insert,
    FailToBuild, StartEvict, PassInFlight, EvictEnded, EvictOldest, Evict, Launch, lockVars

(* Every action keeps HolderInv.                                           *)
LEMMA HolderStep ==
  ASSUME TypeOK, FirstRunInv, HolderInv, [Next]_vars
  PROVE  HolderInv'
<1> USE DEF HolderInv, HolderOf, HasLock
<1>1. \A i \in Creator : /\ entry[i].run # "none" => entry'[i].run # "none"
                         /\ entry[i].run = "ENDED" => entry'[i].run = "ENDED"
  BY EntryMoves
<1>2. \A a \in Approver : Target(a) \in Creator
  BY DEF TypeOK, Target
<1>3. ASSUME NEW b \in Approver, approver'[b] = approver[b]
      PROVE  /\ HasLock(b)' = HasLock(b) /\ Lock(b)' = Lock(b) /\ Target(b)' = Target(b)
             /\ (HasLock(b) => Lock(b) \in held') => HolderOf(b)'
  BY <1>1, <1>2, <1>3 DEF Lock, Target
<1>4. CASE UNCHANGED <<approver, held>>
  BY <1>3, <1>4
<1>5. ASSUME NEW a \in Approver, Approve(a) \/ \E i \in Creator : View(a, i)
      PROVE  HolderInv'
  <2>1. \A b \in Approver : b # a => approver'[b] = approver[b]
    BY <1>5, ApproveMoves
  <2>2. ASSUME UNCHANGED held, ~HasLock(a)', HolderOf(a)' PROVE HolderInv'
    BY <1>3, <2>1, <2>2
  <2>3. ASSUME Release(a), HasLock(a), ~HasLock(a)', HolderOf(a)' PROVE HolderInv'
    <3>1. \A b \in Approver : b # a /\ HasLock(b) => Lock(b) \in held'
      BY <2>3 DEF Release
    <3>2. QED
      BY <1>3, <2>1, <2>3, <3>1
  <2>4. CASE \E i \in Creator : View(a, i)
    <3>1. approver'[a].pc = "viewed" /\ UNCHANGED held
      BY <2>4 DEF View, TypeOK, lockVars
    <3>2. QED
      BY <2>2, <3>1
  <2>5. CASE Lookup(a)
    <3>1. approver'[a].pc \in {"found", "refused"} /\ UNCHANGED held
      BY <2>5, BecomesMoves DEF Lookup, lockVars, ApproverPc
    <3>2. QED
      BY <2>2, <3>1
  <2>6. CASE TakeLock(a)
    BY <2>2, <2>6, TakeLockMoves
  <2>7. CASE Acquire(a)
    <3>1. /\ approver'[a].pc = "locked" /\ approver'[a].lock = approver[a].lock
          /\ Lock(a)' = Lock(a)
      BY <2>7, BecomesMoves DEF Acquire, ApproverPc
    <3>2. Lock(a) \notin held /\ held' = held \cup {Lock(a)} /\ approver[a].pc = "waiting"
      BY <2>7 DEF Acquire
    <3>3. HolderOf(a)'
      BY <3>1, <3>2
    <3>4. \A b \in Approver : b # a => HolderOf(b)'
      BY <1>3, <2>1, <3>2
    <3>5. \A b \in Approver : b # a /\ HasLock(b)' => Lock(b)' # Lock(a)'
      BY <1>3, <2>1, <3>1, <3>2
    <3>6. \A b, c \in Approver : b # a /\ c # a /\ HasLock(b)' /\ HasLock(c)'
            /\ Lock(b)' = Lock(c)' => b = c
      BY <1>3, <2>1
    <3>7. QED
      BY <3>3, <3>4, <3>5, <3>6
  <2>8. CASE Refuse(a)
    <3>1. approver'[a].pc = "refused"
      BY <2>8, BecomesMoves DEF Refuse, ApproverPc
    <3>2. QED
      BY <2>3, <2>8, <3>1 DEF Refuse
  <2>9. CASE Resume(a)
    <3>1. /\ approver'[a].pc = "running" /\ approver'[a].lock = approver[a].lock
          /\ Lock(a)' = Lock(a) /\ Target(a)' = Target(a)
      BY <2>9, BecomesMoves DEF Resume, ApproverPc
    <3>2. UNCHANGED <<held, entry>> /\ HasLock(a) /\ entry[Target(a)].run = "PAUSED"
      BY <2>9 DEF Resume, lockVars, Acceptable
    <3>3. \A b \in Approver : HolderOf(b)'
      BY <1>3, <2>1, <3>1, <3>2
    <3>4. QED
      BY <1>3, <2>1, <3>1, <3>2, <3>3
  <2>10. CASE ResumeReturns(a)
    <3>1. approver'[a].pc = "applied" /\ Target(a)' = Target(a)
      BY <2>10, BecomesMoves DEF ResumeReturns, ApproverPc
    <3>2. entry'[Target(a)].run = "ENDED"
      BY <1>2, <2>10 DEF ResumeReturns, TypeOK
    <3>3. QED
      BY <2>3, <2>10, <3>1, <3>2 DEF ResumeReturns
  <2>11. CASE ResumeRaises(a)
    <3>1. approver'[a].pc = "raised" /\ Target(a)' = Target(a) /\ UNCHANGED entry
      BY <2>11, BecomesMoves DEF ResumeRaises, ApproverPc
    <3>2. QED
      BY <2>3, <2>11, <3>1 DEF ResumeRaises
  <2>12. QED
    BY <1>5, <2>4, <2>5, <2>6, <2>7, <2>8, <2>9, <2>10, <2>11 DEF Approve
<1>6. QED
  BY <1>4, <1>5, OthersLeaveApprovers

(* The lock object of an incident that is in flight and not dropped is not *)
(* replaced: lock_for makes one only where there is none.                  *)
LEMMA LocksStay ==
  ASSUME TypeOK, TypeOK', ScanInv, [Next]_vars, NEW i \in Creator,
         i \notin dropped', ~Ended(i), locks[i] # 0
  PROVE  locks'[i] = locks[i] /\ i \notin dropped
<1> USE DEF TypeOK, lockVars, otherVars
<1>1. ASSUME NEW j \in Creator, LockFor(j) PROVE locks'[i] = locks[i]
  BY <1>1 DEF LockFor, LockNumber
<1>2. ASSUME NEW c \in Creator, EvictEnded(c) \/ EvictOldest(c)
      PROVE  locks'[i] = locks[i] /\ i \notin dropped
  <2>1. PICK k \in 1..Len(incidents) : Evict(k)
    BY <1>2, EvictInBounds
  <2>2. /\ locks' = [locks EXCEPT ![incidents[k]] = 0]
        /\ dropped' = IF Ended(incidents[k]) THEN dropped ELSE dropped \cup {incidents[k]}
    BY <2>1 DEF Evict
  <2>3. incidents[k] # i /\ incidents[k] \in Creator
    BY <2>2, NamesType
  <2>4. QED
    BY <2>2, <2>3
<1>3. ASSUME NEW d \in Creator, FirstRunReturns(d)
      PROVE  locks'[i] = locks[i] /\ i \notin dropped
  BY <1>1, <1>3 DEF FirstRunReturns
<1>4. ASSUME NEW a \in Approver, TakeLock(a)
      PROVE  locks'[i] = locks[i] /\ i \notin dropped
  <2>1. Target(a) \in Creator
    BY DEF Target
  <2>2. QED
    BY <1>1, <1>4, <2>1 DEF TakeLock
<1>5. ASSUME UNCHANGED <<locks, dropped>> PROVE locks'[i] = locks[i] /\ i \notin dropped
  BY <1>5
<1>6. QED
  BY <1>2, <1>3, <1>4, <1>5
  DEF Next, vars, Create, EvictAndLaunch, Execute, Approve, AdmitSync, AdmitAsync,
      RejectAsync, Insert, FailToBuild, StartEvict, PassInFlight, Launch, StartTask,
      FirstRunRaises, StoreFirstRun, ReleaseSlot, View, Lookup, Acquire, Refuse, Resume,
      ResumeReturns, ResumeRaises

(* Only an eviction drops incidents, and none comes back.                  *)
LEMMA DroppedGrows ==
  ASSUME [Next]_vars
  PROVE  dropped \subseteq dropped'
BY DEF Next, vars, Create, EvictAndLaunch, Execute, Approve, AdmitSync, AdmitAsync,
       RejectAsync, Insert, FailToBuild, StartEvict, PassInFlight, EvictEnded, EvictOldest,
       Evict, Launch, StartTask, FirstRunReturns, FirstRunRaises, StoreFirstRun,
       ReleaseSlot, View, Lookup, TakeLock, Acquire, Refuse, Resume, ResumeReturns,
       ResumeRaises, otherVars

(* Where an approving handler can come from when it waits for its lock,    *)
(* has it, or has applied its decision.                                    *)
LEMMA ApproverCameFrom ==
  ASSUME TypeOK, [Next]_vars, NEW a \in Approver, approver'[a] # approver[a]
  PROVE  \/ approver'[a].pc \in {"viewed", "found", "refused"}
         \/ TakeLock(a)
         \/ /\ Target(a)' = Target(a) /\ approver'[a].lock = approver[a].lock
            /\ \/ Acquire(a) /\ approver'[a].pc = "locked"
               \/ Resume(a) /\ approver'[a].pc = "running"
               \/ ResumeReturns(a) /\ approver'[a].pc = "applied"
               \/ ResumeRaises(a) /\ approver'[a].pc = "raised"
<1>1. Approve(a) \/ \E i \in Creator : View(a, i)
  BY OthersLeaveApprovers, ApproveMoves
<1>2. CASE \E i \in Creator : View(a, i)
  BY <1>2 DEF View, TypeOK
<1>3. CASE Lookup(a) \/ Refuse(a)
  BY <1>3, BecomesMoves DEF Lookup, Refuse, ApproverPc
<1>4. CASE Acquire(a)
  BY <1>4, BecomesMoves DEF Acquire, ApproverPc
<1>5. CASE Resume(a)
  BY <1>5, BecomesMoves DEF Resume, ApproverPc
<1>6. CASE ResumeReturns(a)
  BY <1>6, BecomesMoves DEF ResumeReturns, ApproverPc
<1>7. CASE ResumeRaises(a)
  BY <1>7, BecomesMoves DEF ResumeRaises, ApproverPc
<1>8. QED
  BY <1>1, <1>2, <1>3, <1>4, <1>5, <1>6, <1>7 DEF Approve

(* Every action keeps OneLock.                                             *)
LEMMA OneLockStep ==
  ASSUME TypeOK, TypeOK', ScanInv, FirstRunInv, HolderInv, OneLock, [Next]_vars
  PROVE  OneLock'
<1>1. SUFFICES ASSUME NEW a \in Approver,
                      Target(a)' \notin dropped', ~Ended(Target(a))',
                      approver'[a].pc = "waiting" \/ HasLock(a)'
               PROVE  approver'[a].lock = locks'[Target(a)']
  BY DEF OneLock
<1>2. CASE TakeLock(a)
  BY <1>2, TakeLockMoves
<1>3. CASE Target(a)' = Target(a) /\ approver'[a].lock = approver[a].lock
           /\ (approver[a].pc = "waiting" \/ HasLock(a))
  <2>1. Target(a) \in Creator
    BY DEF TypeOK, Target
  <2>2. ~Ended(Target(a))
    BY <1>1, <1>3, <2>1, EndedStays DEF Ended
  <2>3. Target(a) \notin dropped
    BY <1>1, <1>3, DroppedGrows
  <2>4. approver[a].lock = locks[Target(a)] /\ approver[a].lock # 0
    BY <1>3, <2>2, <2>3 DEF OneLock, HolderInv, HolderOf
  <2>5. locks'[Target(a)] = locks[Target(a)]
    BY <1>1, <1>3, <2>1, <2>2, <2>4, LocksStay
  <2>6. QED
    BY <1>3, <2>4, <2>5
<1>4. CASE approver'[a] = approver[a]
  BY <1>1, <1>3, <1>4 DEF Target, HasLock
<1>5. CASE approver'[a] # approver[a] /\ ~TakeLock(a)
  BY <1>1, <1>3, <1>5, ApproverCameFrom
  DEF HasLock, Acquire, Resume, ResumeReturns, ResumeRaises
<1>6. QED
  BY <1>2, <1>4, <1>5

(* Two threads cannot both have the lock of an incident in flight that was *)
(* not dropped.                                                            *)
LEMMA Exclusion ==
  ASSUME HolderInv, OneLock,
         NEW a \in Approver, NEW b \in Approver, Target(a) = Target(b),
         Target(a) \notin dropped, ~Ended(Target(a)), HasLock(a), HasLock(b)
  PROVE  a = b
BY DEF HolderInv, OneLock, Lock

(* Every action keeps DecisionInv.                                         *)
LEMMA DecisionStep ==
  ASSUME TypeOK, FirstRunInv, HolderInv, OneLock, DecisionInv, [Next]_vars
  PROVE  DecisionInv'
<1> USE DEF DecisionInv
<1>0. \A a \in Approver : Target(a) \in Creator
  BY DEF TypeOK, Target
<1>1. ASSUME NEW a \in Approver, Target(a)' \notin dropped', approver'[a].pc = "running"
      PROVE  entry'[Target(a)'].run = "PAUSED"
  <2>1. CASE approver'[a] = approver[a]
    <3>1. Target(a)' = Target(a) /\ Target(a) \notin dropped /\ approver[a].pc = "running"
      BY <1>1, <2>1, DroppedGrows DEF Target
    <3>2. entry[Target(a)].run = "PAUSED"
      BY <3>1
    <3>3. ASSUME NEW b \in Approver, ResumeReturns(b), Target(b) = Target(a) PROVE FALSE
      <4>1. a = b
        BY <3>1, <3>2, <3>3, Exclusion DEF ResumeReturns, HasLock, Ended
      <4>2. approver'[a].pc = "applied"
        BY <3>3, <4>1, BecomesMoves DEF ResumeReturns, ApproverPc
      <4>3. QED
        BY <1>1, <4>2
    <3>4. entry'[Target(a)] = entry[Target(a)]
      BY <1>0, <3>2, <3>3, EntryMoves
    <3>5. QED
      BY <3>1, <3>2, <3>4
  <2>2. CASE approver'[a] # approver[a]
    <3>1. Resume(a) /\ Target(a)' = Target(a)
      BY <1>1, <2>2, ApproverCameFrom, TakeLockMoves
    <3>2. QED
      BY <3>1 DEF Resume, Acceptable
  <2>3. QED
    BY <2>1, <2>2
<1>2. ASSUME NEW a \in Approver, NEW b \in Approver,
             Target(a)' \notin dropped', Target(b)' = Target(a)',
             approver'[a].pc = "applied", approver'[b].pc = "applied"
      PROVE  a = b
  <2>1. ASSUME NEW c \in Approver, NEW d \in Approver, c # d,
               Target(c)' \notin dropped', Target(d)' = Target(c)',
               approver'[c] # approver[c],
               approver'[c].pc = "applied", approver'[d].pc = "applied"
        PROVE  FALSE
    <3>1. ResumeReturns(c) /\ Target(c)' = Target(c)
      BY <2>1, ApproverCameFrom, TakeLockMoves
    <3>2. approver'[d] = approver[d]
      BY <2>1, <3>1, ApproveMoves DEF Approve
    <3>3. entry[Target(d)].run = "ENDED" /\ Target(d) = Target(c)
      BY <2>1, <3>1, <3>2 DEF HolderInv, HolderOf, Target
    <3>4. entry[Target(c)].run = "PAUSED"
      BY <2>1, <3>1, DroppedGrows DEF ResumeReturns
    <3>5. QED
      BY <3>3, <3>4
  <2>2. CASE approver'[a] = approver[a] /\ approver'[b] = approver[b]
    BY <1>2, <2>2, DroppedGrows DEF Target
  <2>3. QED
    BY <1>2, <2>1, <2>2
<1>3. QED
  BY <1>1, <1>2

-----------------------------------------------------------------------------
(* Executions.                                                             *)

(* The handlers whose resumed run raised can be counted, and none of them  *)
(* is ever forgotten.                                                      *)
LEMMA RaisedGrows ==
  ASSUME TypeOK, TypeOK', [Next]_vars, NEW i \in Creator
  PROVE  /\ IsFiniteSet(Raised(i)) /\ Cardinality(Raised(i)) \in Nat
         /\ Cardinality(Raised(i)') \in Nat
         /\ Cardinality(Raised(i)) <= Cardinality(Raised(i)')
<1>1. \A S : S \subseteq Approver => IsFiniteSet(S) /\ Cardinality(S) \in Nat
  BY ApiAssumption, FS_Subset, FS_CardinalityType DEF ApiAssumption
<1>2. Raised(i) \subseteq Approver /\ Raised(i)' \subseteq Approver
  BY DEF Raised
<1>3. ASSUME NEW a \in Approver, approver[a].pc = "raised" PROVE approver'[a] = approver[a]
  <2>1. CASE UNCHANGED approver
    BY <2>1
  <2>2. ASSUME NEW b \in Approver, Approve(b) \/ \E j \in Creator : View(b, j)
        PROVE  approver'[a] = approver[a]
    <3>1. approver[b].pc # "raised"
      BY <2>2 DEF Approve, View, Lookup, TakeLock, Acquire, Refuse, Resume, ResumeReturns,
                  ResumeRaises
    <3>2. QED
      BY <1>3, <2>2, <3>1, ApproveMoves
  <2>3. QED
    BY <2>1, <2>2, OthersLeaveApprovers
<1>4. Raised(i) \subseteq Raised(i)'
  BY <1>3 DEF Raised, Target
<1>5. QED
  BY <1>1, <1>2, <1>4, FS_Subset

ExecutionOf(i) ==
  /\ entry[i].run = "PAUSED" => executions[i] <= Cardinality(Raised(i))
  /\ entry[i].run = "ENDED" => executions[i] <= 1 + Cardinality(Raised(i))

(* Every action keeps ExecutionInv.                                        *)
LEMMA ExecutionStep ==
  ASSUME TypeOK, TypeOK', FirstRunInv, HolderInv, DecisionInv, ExecutionInv, [Next]_vars
  PROVE  ExecutionInv'
<1>1. SUFFICES ASSUME NEW i \in Creator, i \notin dropped' PROVE ExecutionOf(i)'
  BY DEF ExecutionInv, ExecutionOf
<1>2. i \notin dropped /\ ExecutionOf(i)
  BY <1>1, DroppedGrows DEF ExecutionInv, ExecutionOf
<1>3. /\ IsFiniteSet(Raised(i)) /\ Cardinality(Raised(i)) \in Nat
      /\ Cardinality(Raised(i)') \in Nat
      /\ Cardinality(Raised(i)) <= Cardinality(Raised(i)')
  BY RaisedGrows
<1>4. executions[i] \in Nat /\ entry[i] \in Entry /\ FirstRunOf(i)
  BY DEF TypeOK, FirstRunInv
<1>5. ASSUME UNCHANGED <<executions, entry>> PROVE ExecutionOf(i)'
  BY <1>2, <1>3, <1>4, <1>5 DEF ExecutionOf
<1>6. ASSUME NEW d \in Creator, Execute(d) PROVE ExecutionOf(i)'
  <2>1. CASE StartTask(d) \/ ReleaseSlot(d)
    BY <1>5, <2>1 DEF StartTask, ReleaseSlot, otherVars
  <2>2. CASE FirstRunReturns(d) \/ FirstRunRaises(d)
    <3>1. UNCHANGED entry /\ task[d].pc = "running"
      BY <2>2 DEF FirstRunReturns, FirstRunRaises
    <3>2. CASE d = i
      BY <1>4, <3>1, <3>2 DEF ExecutionOf, FirstRunOf, Early
    <3>3. CASE d # i
      <4>1. executions'[i] = executions[i]
        BY <2>2, <3>3 DEF FirstRunReturns, FirstRunRaises, TypeOK
      <4>2. QED
        BY <1>2, <1>3, <1>4, <3>1, <4>1 DEF ExecutionOf
    <3>4. QED
      BY <3>2, <3>3
  <2>3. CASE StoreFirstRun(d)
    <3>1. UNCHANGED executions
      BY <2>3 DEF StoreFirstRun, otherVars
    <3>2. CASE d = i
      <4>1. entry'[i].run = task[i].result /\ task[i].pc = "storing"
        BY <2>3, <3>2 DEF StoreFirstRun, TypeOK, Entry
      <4>2. executions[i] <= 1 /\ (task[i].result = "PAUSED" => executions[i] = 0)
        BY <1>4, <4>1 DEF FirstRunOf
      <4>3. QED
        BY <1>3, <1>4, <3>1, <4>1, <4>2 DEF ExecutionOf
    <3>3. CASE d # i
      <4>1. entry'[i] = entry[i]
        BY <2>3, <3>3 DEF StoreFirstRun, TypeOK
      <4>2. QED
        BY <1>2, <1>3, <1>4, <3>1, <4>1 DEF ExecutionOf
    <3>4. QED
      BY <3>2, <3>3
  <2>4. QED
    BY <1>6, <2>1, <2>2, <2>3 DEF Execute
<1>7. ASSUME NEW a \in Approver, ResumeReturns(a) \/ ResumeRaises(a) PROVE ExecutionOf(i)'
  <2>1. /\ Target(a) \in Creator /\ approver[a].pc = "running"
        /\ \E n \in {0, 1} : executions' = [executions EXCEPT ![Target(a)] = @ + n]
    BY <1>7 DEF TypeOK, Target, ResumeReturns, ResumeRaises
  <2>2. CASE Target(a) # i
    <3>1. executions'[i] = executions[i]
      BY <2>1, <2>2 DEF TypeOK
    <3>2. entry'[i] = entry[i]
      BY <1>7, <2>1, <2>2 DEF ResumeReturns, ResumeRaises, TypeOK
    <3>3. QED
      BY <1>2, <1>3, <1>4, <3>1, <3>2 DEF ExecutionOf
  <2>3. CASE Target(a) = i
    <3>1. entry[i].run = "PAUSED"
      BY <1>2, <2>1, <2>3 DEF DecisionInv
    <3>2. executions[i] <= Cardinality(Raised(i))
      BY <1>2, <3>1 DEF ExecutionOf
    <3>3. executions'[i] \in Nat /\ executions'[i] <= executions[i] + 1
      <4>1. PICK n \in {0, 1} : executions' = [executions EXCEPT ![i] = @ + n]
        BY <2>1, <2>3
      <4>2. executions'[i] = executions[i] + n
        BY <4>1 DEF TypeOK
      <4>3. QED
        BY <1>4, <4>2
    <3>4. CASE ResumeReturns(a)
      <4>1. entry'[i].run = "ENDED"
        BY <2>1, <2>3, <3>4 DEF ResumeReturns, TypeOK
      <4>2. QED
        BY <1>3, <1>4, <3>2, <3>3, <4>1 DEF ExecutionOf
    <3>5. CASE ResumeRaises(a)
      <4>1. /\ entry'[i] = entry[i] /\ Target(a)' = i
            /\ approver'[a].pc = "raised"
            /\ \A b \in Approver : b # a => approver'[b] = approver[b]
        BY <2>3, <3>5, BecomesMoves DEF ResumeRaises, ApproverPc
      <4>2. Raised(i)' = Raised(i) \cup {a} /\ a \notin Raised(i)
        BY <2>1, <4>1 DEF Raised, Target
      <4>3. Cardinality(Raised(i)') = Cardinality(Raised(i)) + 1
        BY <1>3, <4>2, FS_AddElement
      <4>4. QED
        BY <1>3, <1>4, <3>1, <3>2, <3>3, <4>1, <4>3 DEF ExecutionOf
    <3>6. QED
      BY <1>7, <3>4, <3>5
  <2>4. QED
    BY <2>2, <2>3
<1>8. QED
  BY <1>5, <1>6, <1>7
  DEF Next, vars, Create, EvictAndLaunch, Approve, AdmitSync, AdmitAsync, RejectAsync,
      Insert, FailToBuild, StartEvict, PassInFlight, EvictEnded, EvictOldest, Evict, Launch,
      View, Lookup, TakeLock, Acquire, Refuse, Resume, otherVars

-----------------------------------------------------------------------------
(* The theorems.                                                           *)

(* The initial state satisfies the invariant.                              *)
LEMMA InitIInv == Init => IInv /\ SlotsAccounted
<1> SUFFICES ASSUME Init PROVE IInv /\ SlotsAccounted
  OBVIOUS
<1> USE ApiAssumption DEF ApiAssumption, Init
<1>1. incidents = <<>> /\ Len(incidents) = 0 /\ incidents \in Seq(Creator) /\ Names = {}
  BY EmptySeq DEF Names
<1>2. (CHOOSE i \in Creator : TRUE) \in Creator
  OBVIOUS
<1>3. TypeOK
  BY <1>1, <1>2 DEF TypeOK, Entry, NewEntry, Status, CreatorPc, TaskPc, ApproverPc
<1>4. LaunchInv /\ ScanInv
  BY <1>1 DEF LaunchInv, ScanInv
<1>5. FirstRunInv
  BY DEF FirstRunInv, FirstRunOf, Early, NewEntry
<1>6. HolderInv /\ OneLock /\ DecisionInv
  BY DEF HolderInv, HolderOf, HasLock, OneLock, DecisionInv
<1>7. ExecutionInv
  BY DEF ExecutionInv, NewEntry
<1>8. SlotsAccounted
  <2>1. {c \in Async : InSlot(c)} = {}
    BY DEF InSlot
  <2>2. QED
    <3>1. Cardinality({c \in Async : InSlot(c)}) = 0
      BY <2>1, FS_EmptySet
    <3>2. inflight = 0 /\ 0 <= MaxInflight
      OBVIOUS
    <3>3. QED
      BY <3>1, <3>2 DEF SlotsAccounted
<1>9. QED
  BY <1>3, <1>4, <1>5, <1>6, <1>7, <1>8 DEF IInv

(* Every step keeps the invariant.                                         *)
LEMMA NextIInv == IInv /\ SlotsAccounted /\ [Next]_vars => IInv' /\ SlotsAccounted'
<1> SUFFICES ASSUME IInv, SlotsAccounted, [Next]_vars PROVE IInv' /\ SlotsAccounted'
  OBVIOUS
<1> USE DEF IInv
<1>1. TypeOK'
  BY NextTypeOK
<1>2. SlotsAccounted' /\ LaunchInv'
  BY SlotsStep, LaunchStep
<1>3. ScanInv' /\ FirstRunInv' /\ HolderInv'
  BY <1>1, ScanStep, FirstRunStep, HolderStep
<1>4. OneLock' /\ DecisionInv' /\ ExecutionInv'
  BY <1>1, OneLockStep, DecisionStep, ExecutionStep
<1>5. QED
  BY <1>1, <1>2, <1>3, <1>4

(* Every reachable state is well-typed and satisfies the invariant.        *)
THEOREM Invariance == Spec => [](IInv /\ SlotsAccounted)
BY InitIInv, NextIInv, PTL DEF Spec

(* Every reachable state of the server is well-typed.                      *)
THEOREM TypeCorrect == Spec => []TypeOK
<1>1. IInv => TypeOK
  BY DEF IInv
<1>2. QED
  BY <1>1, Invariance, PTL

(* Backpressure: the counter is the number of slots in use, and stays      *)
(* within MAX_ASYNC_INFLIGHT.                                              *)
THEOREM Backpressure == Spec => []SlotsAccounted
BY Invariance, PTL

(* Approvals and denials that race: at most one takes effect, unless the   *)
(* incident was evicted in flight.                                         *)
THEOREM DecidedOnce == Spec => []OneDecision
<1>1. IInv => OneDecision
  <2> SUFFICES ASSUME IInv, NEW i \in Creator \ dropped
               PROVE  Cardinality(Effective(i)) <= 1
    BY DEF OneDecision
  <2>1. ASSUME NEW a \in Effective(i), NEW b \in Effective(i) PROVE a = b
    <3>1. /\ a \in Approver /\ Target(a) = i /\ approver[a].pc \in {"running", "applied"}
          /\ b \in Approver /\ Target(b) = i /\ approver[b].pc \in {"running", "applied"}
      BY DEF Effective
    <3>2. CASE approver[a].pc = "running" /\ approver[b].pc = "running"
      BY <3>1, <3>2, Exclusion DEF IInv, DecisionInv, HasLock, Ended
    <3>3. CASE approver[a].pc = "applied" /\ approver[b].pc = "applied"
      BY <3>1, <3>3 DEF IInv, DecisionInv
    <3>4. CASE approver[a].pc # approver[b].pc
      BY <3>1, <3>4 DEF IInv, DecisionInv, HolderInv, HolderOf
    <3>5. QED
      BY <3>1, <3>2, <3>3, <3>4
  <2>2. CASE Effective(i) = {}
    BY <2>2, FS_EmptySet
  <2>3. ASSUME NEW a \in Effective(i) PROVE Cardinality(Effective(i)) <= 1
    <3>1. Effective(i) = {a}
      BY <2>1
    <3>2. QED
      BY <3>1, FS_Singleton
  <2>4. QED
    BY <2>2, <2>3
<1>2. QED
  BY <1>1, Invariance, PTL

(* The execute node of an incident runs at most once, and once more for    *)
(* each resumed run that raised, unless the incident was evicted in flight.*)
THEOREM RemediatedOnce == Spec => []RemediatesOnce
<1>1. IInv => RemediatesOnce
  <2> SUFFICES ASSUME IInv, NEW i \in Creator \ dropped
               PROVE  executions[i] <= 1 + Cardinality(Raised(i))
    BY DEF RemediatesOnce
  <2>1. /\ executions[i] \in Nat
        /\ entry[i].run \in {"none", "PAUSED", "ENDED"}
    BY DEF IInv, TypeOK, Entry, Status
  <2>2. Cardinality(Raised(i)) \in Nat
    <3>1. Raised(i) \in SUBSET Approver /\ IsFiniteSet(Approver)
      BY ApiAssumption DEF Raised, ApiAssumption
    <3>2. QED
      BY <3>1, FS_Subset, FS_CardinalityType
  <2>3. CASE entry[i].run = "none"
    BY <2>1, <2>2, <2>3 DEF IInv, FirstRunInv, FirstRunOf
  <2>4. CASE entry[i].run \in {"PAUSED", "ENDED"}
    BY <2>1, <2>2, <2>4 DEF IInv, ExecutionInv
  <2>5. QED
    BY <2>1, <2>3, <2>4
<1>2. QED
  BY <1>1, Invariance, PTL

(* An incident in flight is evicted only by a scan that began when none of *)
(* the registry had ended.                                                 *)
THEOREM EvictionPrefersEnded == Spec => EndedEvictedFirst
<1>1. IInv /\ [Next]_vars => [dropped' # dropped => endedBefore = {}]_vars
  BY DropStep DEF IInv
<1>2. QED
  BY <1>1, Invariance, PTL DEF Spec, EndedEvictedFirst

=============================================================================
