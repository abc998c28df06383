--------------------------- MODULE ChangeRiskProofs ----------------------------
(***************************************************************************)
(* Proofs about the memory the threads of the API share and the changes they *)
(* score against it, for every number of threads, bound and change.        *)
(*                                                                         *)
(* The argument: while a thread holds the lock of the durable memory, the    *)
(* episode it inserts is the last of the list; and whatever a search sees    *)
(* was added by somebody, so no count exceeds what was ever added.         *)
(***************************************************************************)
EXTENDS ChangeRisk, Integers, FiniteSetTheorems, SequenceTheorems, TLAPS

AddStages == {"no", "measure", "cut", "insert", "added", "raised"}

FullStages ==
  {"signature", "history", "score", "paused", "record", "recording", "succeeded",
   "failed"}

Plain == [stage : {"idle", "learning", "learned"}, matched : Nat, history : Nat]
Full  == [stage : FullStages, change : Changes, matched : Nat, history : Nat]

MemoryTyped ==
  /\ durable \in BOOLEAN
  /\ IsFiniteSet(added) /\ Seed \in acknowledged /\ acknowledged \subseteq added
  /\ episodes \in Seq(added) /\ rows \in Seq(added)
  /\ adding \in [Threads -> [stage : AddStages, episode : added, cut : Nat]]

Typed == MemoryTyped /\ request \in [Threads -> Plain \cup Full]

(* Only a thread that learns or records is in add().                        *)
AddOf(t) == adding[t].stage # "no" => request[t].stage \in {"learning", "recording"}

(* The list grows at its end only under the lock, so the lock's holder       *)
(* inserts the episode it appended.                                        *)
DurableInv ==
  /\ durable =>
       /\ \A e \in acknowledged : /\ \E i \in DOMAIN episodes : episodes[i] = e
                                  /\ \E i \in DOMAIN rows : rows[i] = e
       /\ \A t \in Threads : adding[t].stage \notin {"measure", "cut"}
       /\ \A t \in Threads : adding[t].stage = "insert" =>
            /\ dbLock = t /\ Len(episodes) > 0
            /\ Last(episodes) = adding[t].episode
  /\ ~durable => \A t \in Threads : adding[t].stage # "insert"

IncidentsOf(change) ==
  {e \in added : IsIncident(e) /\ e.service = change.service}

(* What a search has scored was added, and shares a token with its query.    *)
ScanOf(t) ==
  /\ scan[t] = [query |-> scan[t].query, k |-> scan[t].k, at |-> scan[t].at,
                scored |-> scan[t].scored]
  /\ scan[t].at \in Nat \ {0}
  /\ \A s \in scan[t].scored :
       s.episode \in added /\ scan[t].query \cap s.episode.tokens # {}
  /\ request[t].stage = "signature" =>
       scan[t].query = request[t].change.title \cup request[t].change.diff

CountOf(t) ==
  /\ request[t].stage \in {"history", "score", "paused", "record"} =>
       request[t].matched <= Cardinality(Precedents(request[t].change))
  /\ request[t].stage \in {"score", "paused", "record"} =>
       request[t].history <= Cardinality(IncidentsOf(request[t].change))

ThreadInv ==
  /\ scan = [t \in Threads |-> scan[t]]
  /\ \A t \in Threads : AddOf(t) /\ ScanOf(t) /\ CountOf(t)

IInv == Typed /\ DurableInv /\ ThreadInv
-----------------------------------------------------------------------------
LEMMA InitTyped == Init => Typed
<1> SUFFICES ASSUME Init PROVE Typed
  OBVIOUS
<1>1. added = {Seed} /\ acknowledged = {Seed} /\ durable \in BOOLEAN
  BY DEF Init, MemoryInit
<1>2. IsFiniteSet(added)
  BY <1>1, FS_Singleton
<1>3. episodes \in Seq(added) /\ rows \in Seq(added)
  <2>1. <<Seed>> \in Seq(added) /\ <<>> \in Seq(added)
    BY <1>1
  <2>2. episodes = <<Seed>> /\ (rows = <<Seed>> \/ rows = <<>>)
    BY DEF Init, MemoryInit
  <2> QED BY <2>1, <2>2
<1>4. adding \in [Threads -> [stage : AddStages, episode : added, cut : Nat]]
  BY <1>1 DEF Init, MemoryInit, NotAdding, AddStages
<1>5. request \in [Threads -> Plain \cup Full]
  BY DEF Init, Idle, Plain
<1> QED BY <1>1, <1>2, <1>3, <1>4, <1>5 DEF Typed, MemoryTyped

(* What add() begins with: the new episode is the last one.                  *)
LEMMA StartAddEffect ==
  ASSUME MemoryTyped, NEW t \in Threads, NEW tokens, NEW service, NEW class, NEW verified,
         StartAdd(t, tokens, service, class, verified)
  PROVE  \E e :
    /\ added' = added \cup {e}
    /\ episodes' = Append(episodes, e)
    /\ adding' = [adding EXCEPT ![t] = [stage |-> IF durable THEN "insert" ELSE "measure",
                                        episode |-> e, cut |-> 0]]
    /\ durable => dbLock = Nobody /\ dbLock' = t
    /\ UNCHANGED <<durable, rows, scan, acknowledged, restarts>>
<1> DEFINE e == Episode(Cardinality(added), tokens, service, class, verified)
<1>1. /\ added' = added \cup {e} /\ episodes' = Append(episodes, e)
      /\ adding' = [adding EXCEPT ![t] = [stage |-> IF durable THEN "insert" ELSE "measure",
                                          episode |-> e, cut |-> 0]]
      /\ durable => dbLock = Nobody /\ dbLock' = t
      /\ UNCHANGED <<durable, rows, scan, acknowledged, restarts>>
  BY DEF StartAdd
<1> QED BY <1>1

LEMMA StartAddMemory ==
  ASSUME MemoryTyped, DurableInv, NEW t \in Threads, NEW tokens, NEW service, NEW class,
         NEW verified, StartAdd(t, tokens, service, class, verified)
  PROVE  MemoryTyped' /\ DurableInv' /\ added \subseteq added' /\ scan' = scan
         /\ \A u \in Threads \ {t} : adding'[u] = adding[u]
<1>1. PICK e :
        /\ added' = added \cup {e}
        /\ episodes' = Append(episodes, e)
        /\ adding' = [adding EXCEPT ![t] = [stage |-> IF durable THEN "insert" ELSE "measure",
                                            episode |-> e, cut |-> 0]]
        /\ durable => dbLock = Nobody /\ dbLock' = t
        /\ UNCHANGED <<durable, rows, scan, acknowledged, restarts>>
  BY StartAddEffect
<1>2. added \subseteq added' /\ e \in added'
  BY <1>1
<1>3. IsFiniteSet(added')
  BY <1>1, FS_AddElement DEF MemoryTyped
<1>4. episodes \in Seq(added') /\ rows' \in Seq(added')
  BY <1>1, <1>2, SeqMonotonic DEF MemoryTyped
<1>5. /\ episodes' \in Seq(added') /\ Len(episodes') = Len(episodes) + 1
      /\ Len(episodes) \in Nat
      /\ \A i \in 1..Len(episodes) : episodes'[i] = episodes[i]
      /\ episodes'[Len(episodes) + 1] = e
  BY <1>1, <1>2, <1>4, AppendProperties, LenProperties
<1>6. adding' \in [Threads -> [stage : AddStages, episode : added', cut : Nat]]
  <2>1. adding \in [Threads -> [stage : AddStages, episode : added', cut : Nat]]
    BY <1>2 DEF MemoryTyped
  <2> QED BY <1>1, <1>2, <2>1 DEF AddStages
<1>7. MemoryTyped'
  BY <1>1, <1>2, <1>3, <1>4, <1>5, <1>6 DEF MemoryTyped
<1>8. /\ adding'[t] = [stage |-> IF durable THEN "insert" ELSE "measure",
                       episode |-> e, cut |-> 0]
      /\ \A u \in Threads \ {t} : adding'[u] = adding[u]
  BY <1>1 DEF MemoryTyped
<1>9. CASE durable
  <2>1. ASSUME NEW f \in acknowledged
        PROVE  /\ \E i \in DOMAIN episodes' : episodes'[i] = f
               /\ \E i \in DOMAIN rows' : rows'[i] = f
    <3>1. PICK i \in DOMAIN episodes : episodes[i] = f
      BY <1>9 DEF DurableInv
    <3>2. i \in 1..Len(episodes) /\ DOMAIN episodes' = 1..(Len(episodes) + 1)
      BY <1>5, LenProperties DEF MemoryTyped
    <3>3. i \in DOMAIN episodes' /\ episodes'[i] = f
      BY <1>5, <3>1, <3>2
    <3> QED BY <1>1, <1>9, <3>3 DEF DurableInv
  <2>2. \A u \in Threads : adding[u].stage # "insert"
    BY <1>1, <1>9, MemoryAssumption DEF DurableInv
  <2>3. Last(episodes') = e /\ Len(episodes') > 0
    BY <1>5 DEF Last
  <2>4. adding'[t].stage = "insert" /\ adding'[t].episode = e
    BY <1>8, <1>9
  <2>5. ASSUME NEW u \in Threads
        PROVE  /\ adding'[u].stage \notin {"measure", "cut"}
               /\ adding'[u].stage = "insert" =>
                    /\ dbLock' = u /\ Len(episodes') > 0
                    /\ Last(episodes') = adding'[u].episode
    <3>1. CASE u = t
      BY <1>1, <1>9, <2>3, <2>4, <3>1
    <3>2. CASE u # t
      BY <1>8, <1>9, <2>2, <3>2 DEF DurableInv
    <3> QED BY <3>1, <3>2
  <2>6. durable' /\ acknowledged' = acknowledged
    BY <1>1, <1>9
  <2>7. /\ \A f \in acknowledged' : /\ \E i \in DOMAIN episodes' : episodes'[i] = f
                                   /\ \E i \in DOMAIN rows' : rows'[i] = f
        /\ \A u \in Threads : adding'[u].stage \notin {"measure", "cut"}
        /\ \A u \in Threads : adding'[u].stage = "insert" =>
             /\ dbLock' = u /\ Len(episodes') > 0
             /\ Last(episodes') = adding'[u].episode
    BY <2>1, <2>5, <2>6
  <2>8. DurableInv'
    BY <2>6, <2>7 DEF DurableInv
  <2> QED BY <1>1, <1>2, <1>7, <1>8, <2>8
<1>10. CASE ~durable
  <2>1. adding'[t].stage = "measure"
    BY <1>8, <1>10
  <2>2. ASSUME NEW u \in Threads
        PROVE  adding'[u].stage # "insert"
    BY <1>8, <1>10, <2>1 DEF DurableInv
  <2>3. ~durable'
    BY <1>1, <1>10
  <2>4. DurableInv'
    BY <2>2, <2>3 DEF DurableInv
  <2> QED BY <1>1, <1>2, <1>7, <1>8, <2>4
<1> QED BY <1>1, <1>2, <1>7, <1>8, <1>9, <1>10 DEF MemoryTyped

(* The steps inside add().                                                   *)
LEMMA AddStepMemory ==
  ASSUME MemoryTyped, DurableInv, NEW t \in Threads,
         Measure(t) \/ Cut(t) \/ Insert(t) \/ InsertFails(t)
  PROVE  /\ MemoryTyped' /\ DurableInv' /\ added' = added /\ scan' = scan
         /\ adding[t].stage # "no" /\ \A u \in Threads \ {t} : adding'[u] = adding[u]
<1>1. adding[t] \in [stage : AddStages, episode : added, cut : Nat]
  BY DEF MemoryTyped
<1>2. CASE Measure(t)
  <2> DEFINE cut == IF Len(episodes) > MaxEpisodes THEN Len(episodes) - MaxEpisodes ELSE 0
  <2>1. cut \in Nat
    BY MemoryAssumption, LenProperties DEF MemoryTyped
  <2>2. adding' = [adding EXCEPT ![t].stage = "cut", ![t].cut = cut]
        /\ adding[t].stage = "measure"
        /\ UNCHANGED <<durable, episodes, rows, dbLock, scan, added, acknowledged, restarts>>
    BY <1>2 DEF Measure
  <2> HIDE DEF cut
  <2>3. /\ adding' \in [Threads -> [stage : AddStages, episode : added, cut : Nat]]
        /\ adding'[t].stage = "cut" /\ \A u \in Threads \ {t} : adding'[u] = adding[u]
    BY <1>1, <2>1, <2>2 DEF MemoryTyped, AddStages
  <2>4. ~durable
    BY <2>2 DEF DurableInv
  <2>5. DurableInv'
    BY <2>2, <2>3, <2>4 DEF DurableInv
  <2> QED BY <2>2, <2>3, <2>5 DEF MemoryTyped
<1>3. CASE Cut(t)
  <2>1. /\ adding' = [adding EXCEPT ![t].stage = "added"] /\ adding[t].stage = "cut"
        /\ episodes' = SubSeq(episodes, adding[t].cut + 1, Len(episodes))
        /\ acknowledged' = acknowledged \cup {adding[t].episode}
        /\ UNCHANGED <<durable, rows, dbLock, scan, added, restarts>>
    BY <1>3 DEF Cut
  <2>2. /\ adding' \in [Threads -> [stage : AddStages, episode : added, cut : Nat]]
        /\ adding'[t].stage = "added" /\ \A u \in Threads \ {t} : adding'[u] = adding[u]
    BY <1>1, <2>1 DEF MemoryTyped, AddStages
  <2>3. ~durable
    BY <2>1 DEF DurableInv
  <2>4. episodes' \in Seq(added)
    <3>1. Len(episodes) \in Nat /\ adding[t].cut + 1 \in 1..(adding[t].cut + 1)
      BY <1>1, LenProperties DEF MemoryTyped
    <3>2. \A i \in (adding[t].cut + 1)..Len(episodes) : i \in 1..Len(episodes)
      BY <1>1, <3>1
    <3>3. \A i \in 1..Len(episodes) : episodes[i] \in added
      BY ElementOfSeq DEF MemoryTyped
    <3>4. \A i \in (adding[t].cut + 1)..Len(episodes) : episodes[i] \in added
      BY <3>2, <3>3
    <3> QED BY <1>1, <2>1, <3>1, <3>4, SubSeqProperties DEF MemoryTyped
  <2>5. adding[t].episode \in added
    BY <1>1
  <2>6. DurableInv'
    BY <2>1, <2>2, <2>3 DEF DurableInv
  <2> QED BY <2>1, <2>2, <2>4, <2>5, <2>6 DEF MemoryTyped
<1>4. CASE Insert(t)
  <2>1. /\ adding' = [adding EXCEPT ![t].stage = "added"] /\ adding[t].stage = "insert"
        /\ rows' = Append(rows, Last(episodes))
        /\ acknowledged' = acknowledged \cup {adding[t].episode}
        /\ UNCHANGED <<durable, episodes, scan, added, restarts>>
    BY <1>4 DEF Insert
  <2>2. /\ adding' \in [Threads -> [stage : AddStages, episode : added, cut : Nat]]
        /\ adding'[t].stage = "added" /\ \A u \in Threads \ {t} : adding'[u] = adding[u]
    BY <1>1, <2>1 DEF MemoryTyped, AddStages
  <2>3. /\ durable /\ dbLock = t /\ Last(episodes) = adding[t].episode
        /\ Len(episodes) > 0
    BY <2>1 DEF DurableInv, MemoryTyped
  <2>4. adding[t].episode \in added
    BY <1>1
  <2>5. /\ rows' \in Seq(added) /\ Len(rows) \in Nat
        /\ DOMAIN rows = 1..Len(rows) /\ DOMAIN rows' = 1..(Len(rows) + 1)
        /\ \A i \in 1..Len(rows) : rows'[i] = rows[i]
        /\ rows'[Len(rows) + 1] = adding[t].episode
    BY <2>1, <2>3, <2>4, AppendProperties, LenProperties DEF MemoryTyped
  <2>6. \E i \in DOMAIN episodes : episodes[i] = adding[t].episode
    <3>1. Len(episodes) \in DOMAIN episodes
      BY <2>3, LenProperties DEF MemoryTyped
    <3> QED BY <2>3, <3>1 DEF Last
  <2>7. ASSUME NEW f \in acknowledged'
        PROVE  /\ \E i \in DOMAIN episodes : episodes[i] = f
               /\ \E i \in DOMAIN rows' : rows'[i] = f
    <3>1. CASE f = adding[t].episode
      <4>1. Len(rows) + 1 \in DOMAIN rows'
        BY <2>5
      <4> QED BY <2>5, <2>6, <3>1, <4>1
    <3>2. CASE f \in acknowledged
      <4>1. PICK i \in DOMAIN rows : rows[i] = f
        BY <2>3, <3>2 DEF DurableInv
      <4>2. i \in DOMAIN rows' /\ rows'[i] = f
        BY <2>5, <4>1
      <4> QED BY <2>3, <3>2, <4>2 DEF DurableInv
    <3> QED BY <2>1, <3>1, <3>2
  <2>8. \A u \in Threads \ {t} : adding[u].stage # "insert"
    BY <2>3 DEF DurableInv
  <2>9. DurableInv'
    BY <2>1, <2>2, <2>3, <2>7, <2>8 DEF DurableInv
  <2> QED BY <2>1, <2>2, <2>4, <2>5, <2>9 DEF MemoryTyped
<1>5. CASE InsertFails(t)
  <2>1. /\ adding' = [adding EXCEPT ![t].stage = "raised"] /\ adding[t].stage = "insert"
        /\ UNCHANGED <<durable, episodes, rows, scan, added, acknowledged, restarts>>
    BY <1>5 DEF InsertFails
  <2>2. /\ adding' \in [Threads -> [stage : AddStages, episode : added, cut : Nat]]
        /\ adding'[t].stage = "raised" /\ \A u \in Threads \ {t} : adding'[u] = adding[u]
    BY <1>1, <2>1 DEF MemoryTyped, AddStages
  <2>3. durable /\ \A u \in Threads \ {t} : adding[u].stage # "insert"
    BY <2>1 DEF DurableInv, MemoryTyped
  <2>4. DurableInv'
    BY <2>1, <2>2, <2>3 DEF DurableInv
  <2> QED BY <2>1, <2>2, <2>4 DEF MemoryTyped
<1> QED BY <1>2, <1>3, <1>4, <1>5

-----------------------------------------------------------------------------
(* Counts of what was ever added are finite and only grow.                  *)
LEMMA CountsGrow ==
  ASSUME IsFiniteSet(added'), added \subseteq added', NEW change
  PROVE  /\ Cardinality(Precedents(change)) \in Nat
         /\ Cardinality(Precedents(change)') \in Nat
         /\ Cardinality(Precedents(change)) <= Cardinality(Precedents(change)')
         /\ Cardinality(IncidentsOf(change)) \in Nat
         /\ Cardinality(IncidentsOf(change)') \in Nat
         /\ Cardinality(IncidentsOf(change)) <= Cardinality(IncidentsOf(change)')
<1>1. /\ Precedents(change)' \in SUBSET added' /\ IncidentsOf(change)' \in SUBSET added'
      /\ Precedents(change) \in SUBSET Precedents(change)'
      /\ IncidentsOf(change) \in SUBSET IncidentsOf(change)'
  BY DEF Precedents, IncidentsOf
<1>2. IsFiniteSet(Precedents(change)') /\ IsFiniteSet(IncidentsOf(change)')
  BY <1>1, FS_Subset
<1>3. /\ IsFiniteSet(Precedents(change)) /\ IsFiniteSet(IncidentsOf(change))
      /\ Cardinality(Precedents(change)) <= Cardinality(Precedents(change)')
      /\ Cardinality(IncidentsOf(change)) <= Cardinality(IncidentsOf(change)')
  BY <1>1, <1>2, FS_Subset
<1> QED BY <1>2, <1>3, FS_CardinalityType

LEMMA RequestTypes ==
  ASSUME Typed, NEW t \in Threads
  PROVE  /\ request[t] \in Plain \/ request[t] \in Full
         /\ request[t].stage \in FullStages => request[t] \in Full
         /\ request[t].stage \in {"idle", "learning", "learned"} => request[t] \in Plain
  BY DEF Typed, Plain, Full, FullStages

LEMMA PlainUpdate ==
  ASSUME NEW r \in Plain, NEW s \in {"idle", "learning", "learned"}
  PROVE  [r EXCEPT !.stage = s] \in Plain /\ [r EXCEPT !.stage = s].stage = s
  BY DEF Plain

LEMMA FullUpdate ==
  ASSUME NEW r \in Full, NEW s \in FullStages
  PROVE  /\ [r EXCEPT !.stage = s] \in Full /\ [r EXCEPT !.stage = s].stage = s
         /\ [r EXCEPT !.stage = s].change = r.change
         /\ [r EXCEPT !.stage = s].matched = r.matched
         /\ [r EXCEPT !.stage = s].history = r.history
  BY DEF Full

(* The end of a search changes two fields of a request, other steps its stage. *)
LEMMA MatchedUpdate ==
  ASSUME Typed, NEW t \in Threads, request[t] \in Full, NEW m \in Nat,
         request' = [request EXCEPT ![t].stage = "history", ![t].matched = m]
  PROVE  /\ request' \in [Threads -> Plain \cup Full]
         /\ request'[t] \in Full /\ request'[t].stage = "history"
         /\ request'[t].matched = m /\ request'[t].change = request[t].change
         /\ \A u \in Threads \ {t} : request'[u] = request[u]
<1> DEFINE r == [request[t] EXCEPT !.stage = "history"]
<1> DEFINE q == [r EXCEPT !.matched = m]
<1>1. r \in Full /\ r.stage = "history" /\ r.change = request[t].change
  BY FullUpdate DEF FullStages
<1> HIDE DEF r
<1>2. q \in Full /\ q.stage = "history" /\ q.change = request[t].change /\ q.matched = m
  BY <1>1 DEF Full
<1>3. /\ DOMAIN request' = Threads /\ \A u \in Threads \ {t} : request'[u] = request[u]
      /\ request'[t] = q /\ request' = [u \in Threads |-> request'[u]]
  BY DEF Typed, r
<1> HIDE DEF q
<1> QED BY <1>2, <1>3 DEF Typed

LEMMA CountedUpdate ==
  ASSUME Typed, NEW t \in Threads, request[t] \in Full, NEW m \in Nat,
         request' = [request EXCEPT ![t].stage = "score", ![t].history = m]
  PROVE  /\ request' \in [Threads -> Plain \cup Full]
         /\ request'[t] \in Full /\ request'[t].stage = "score"
         /\ request'[t].history = m /\ request'[t].change = request[t].change
         /\ request'[t].matched = request[t].matched
         /\ \A u \in Threads \ {t} : request'[u] = request[u]
<1> DEFINE r == [request[t] EXCEPT !.stage = "score"]
<1> DEFINE q == [r EXCEPT !.history = m]
<1>1. /\ r \in Full /\ r.stage = "score" /\ r.change = request[t].change
      /\ r.matched = request[t].matched
  BY FullUpdate DEF FullStages
<1> HIDE DEF r
<1>2. /\ q \in Full /\ q.stage = "score" /\ q.change = request[t].change
      /\ q.history = m /\ q.matched = request[t].matched
  BY <1>1 DEF Full
<1>3. /\ DOMAIN request' = Threads /\ \A u \in Threads \ {t} : request'[u] = request[u]
      /\ request'[t] = q /\ request' = [u \in Threads |-> request'[u]]
  BY DEF Typed, r
<1> HIDE DEF q
<1> QED BY <1>2, <1>3 DEF Typed

LEMMA StageUpdate ==
  ASSUME Typed, NEW t \in Threads, NEW s,
         \/ request[t] \in Full /\ s \in FullStages
         \/ request[t] \in Plain /\ s \in {"idle", "learning", "learned"},
         request' = [request EXCEPT ![t].stage = s]
  PROVE  /\ request' \in [Threads -> Plain \cup Full] /\ request'[t].stage = s
         /\ request[t] \in Full =>
              /\ request'[t].change = request[t].change
              /\ request'[t].matched = request[t].matched
              /\ request'[t].history = request[t].history
         /\ \A u \in Threads \ {t} : request'[u] = request[u]
<1> DEFINE r == [request[t] EXCEPT !.stage = s]
<1>1. /\ r \in Plain \cup Full /\ r.stage = s
      /\ request[t] \in Full =>
           /\ r.change = request[t].change /\ r.matched = request[t].matched
           /\ r.history = request[t].history
  BY FullUpdate, PlainUpdate DEF Plain, Full
<1>2. /\ DOMAIN request' = Threads /\ \A u \in Threads \ {t} : request'[u] = request[u]
      /\ request'[t] = r /\ request' = [u \in Threads |-> request'[u]]
  BY DEF Typed
<1> HIDE DEF r
<1> QED BY <1>1, <1>2 DEF Typed

(* A step of one thread, seen from the others: what was added stays added.   *)
LEMMA StepOfThread ==
  ASSUME Typed, Typed', ThreadInv, NEW t \in Threads, added \subseteq added',
         \A u \in Threads \ {t} :
           request'[u] = request[u] /\ scan'[u] = scan[u] /\ adding'[u] = adding[u],
         scan' = [u \in Threads |-> scan'[u]],
         AddOf(t)', ScanOf(t)', CountOf(t)'
  PROVE  ThreadInv'
<1> SUFFICES ASSUME NEW u \in Threads, u # t
             PROVE  AddOf(u)' /\ ScanOf(u)' /\ CountOf(u)'
  BY DEF ThreadInv
<1>1. request'[u] = request[u] /\ scan'[u] = scan[u] /\ adding'[u] = adding[u]
  OBVIOUS
<1>2. AddOf(u) /\ ScanOf(u) /\ CountOf(u)
  BY DEF ThreadInv
<1>3. AddOf(u)'
  BY <1>1, <1>2 DEF AddOf
<1>4. ScanOf(u)'
  BY <1>1, <1>2 DEF ScanOf
<1>5. IsFiniteSet(added')
  BY DEF Typed, MemoryTyped
<1> DEFINE change == request[u].change
<1>6. /\ Cardinality(Precedents(change)) \in Nat
      /\ Cardinality(Precedents(change)') \in Nat
      /\ Cardinality(Precedents(change)) <= Cardinality(Precedents(change)')
      /\ Cardinality(IncidentsOf(change)) \in Nat
      /\ Cardinality(IncidentsOf(change)') \in Nat
      /\ Cardinality(IncidentsOf(change)) <= Cardinality(IncidentsOf(change)')
  BY <1>5, CountsGrow
<1>7. request[u].matched \in Nat /\ request[u].history \in Nat
  BY RequestTypes DEF Plain, Full
<1>8. CountOf(u)'
  BY <1>1, <1>2, <1>6, <1>7 DEF CountOf
<1> QED BY <1>3, <1>4, <1>8

(* Steps of a request that leave the memory alone but for its search.        *)
LEMMA SearchMemory ==
  ASSUME MemoryTyped, DurableInv,
         UNCHANGED <<durable, episodes, rows, dbLock, adding, added, acknowledged>>
  PROVE  MemoryTyped' /\ DurableInv'
  BY DEF MemoryTyped, DurableInv

LEMMA SubmitKeeps ==
  ASSUME IInv, NEW t \in Threads, NEW change \in Changes, Submit(t, change)
  PROVE  IInv'
<1>1. /\ request[t].stage = "idle"
      /\ request' = [request EXCEPT ![t] = [stage |-> "signature", change |-> change,
                                            matched |-> 0, history |-> 0]]
      /\ scan' = [scan EXCEPT ![t] = [query |-> change.title \cup change.diff,
                                      k |-> SignatureK, at |-> 1, scored |-> {}]]
      /\ UNCHANGED <<durable, episodes, rows, dbLock, adding, added, acknowledged>>
  BY DEF Submit, StartSearch
<1>2. Typed /\ DurableInv /\ ThreadInv
  BY DEF IInv
<1>3. MemoryTyped' /\ DurableInv'
  BY <1>1, <1>2, SearchMemory DEF Typed
<1>4. /\ request' \in [Threads -> Plain \cup Full]
      /\ request'[t] = [stage |-> "signature", change |-> change, matched |-> 0, history |-> 0]
      /\ \A u \in Threads \ {t} : request'[u] = request[u]
  BY <1>1, <1>2 DEF Typed, Full, FullStages
<1>5. /\ scan' = [u \in Threads |-> scan'[u]]
      /\ scan'[t] = [query |-> change.title \cup change.diff, k |-> SignatureK, at |-> 1,
                     scored |-> {}]
      /\ \A u \in Threads \ {t} : scan'[u] = scan[u]
  BY <1>1, <1>2 DEF ThreadInv
<1>6. adding[t].stage = "no"
  BY <1>1, <1>2 DEF ThreadInv, AddOf
<1>7. AddOf(t)' /\ ScanOf(t)' /\ CountOf(t)'
  <2>1. AddOf(t)'
    BY <1>1, <1>6 DEF AddOf
  <2>2. /\ request'[t].stage = "signature" /\ request'[t].change = change
        /\ request'[t].matched = 0
    BY <1>4
  <2>3. /\ scan'[t].query = change.title \cup change.diff /\ scan'[t].at = 1
        /\ scan'[t].k = SignatureK /\ scan'[t].scored = {}
    BY <1>5
  <2>4. ScanOf(t)'
    BY <1>5, <2>2, <2>3 DEF ScanOf
  <2>5. CountOf(t)'
    BY <2>2 DEF CountOf
  <2> QED BY <2>1, <2>4, <2>5
<1>8. Typed'
  BY <1>3, <1>4 DEF Typed
<1>9. ThreadInv'
  BY <1>1, <1>2, <1>4, <1>5, <1>7, <1>8, StepOfThread
<1> QED BY <1>3, <1>8, <1>9 DEF IInv

LEMMA SearchKeeps ==
  ASSUME IInv, NEW t \in Threads, Search(t)
  PROVE  IInv'
<1> DEFINE e == episodes[scan[t].at]
<1> DEFINE overlap == Cardinality(scan[t].query \cap e.tokens)
<1> DEFINE scored == IF overlap = 0 THEN scan[t].scored
                     ELSE scan[t].scored \cup {[overlap |-> overlap, episode |-> e,
                                                index |-> scan[t].at]}
<1>1. Typed /\ DurableInv /\ ThreadInv
  BY DEF IInv
<1>2. /\ scan[t] = [query |-> scan[t].query, k |-> scan[t].k, at |-> scan[t].at,
                    scored |-> scan[t].scored]
      /\ scan = [u \in Threads |-> scan[u]] /\ scan[t].at \in Nat \ {0}
      /\ AddOf(t) /\ ScanOf(t) /\ CountOf(t)
  BY <1>1 DEF ThreadInv, ScanOf
<1>3. /\ scan' = [scan EXCEPT ![t] = [query |-> scan[t].query, k |-> scan[t].k,
                                      at |-> scan[t].at + 1, scored |-> scored]]
      /\ scan[t].at <= Len(episodes)
      /\ UNCHANGED <<durable, episodes, rows, dbLock, adding, added, acknowledged, request>>
  <2>1. /\ scan' = [scan EXCEPT ![t].at = scan[t].at + 1, ![t].scored = scored]
        /\ scan[t].at <= Len(episodes)
        /\ UNCHANGED <<durable, episodes, rows, dbLock, adding, added, acknowledged, request>>
    BY <1>2 DEF Search, Visit, Searching
  <2> HIDE DEF scored
  <2>2. scan' = [scan EXCEPT ![t] = [query |-> scan[t].query, k |-> scan[t].k,
                                     at |-> scan[t].at + 1, scored |-> scored]]
    <3> DEFINE query == scan[t].query
    <3> DEFINE k == scan[t].k
    <3> DEFINE at == scan[t].at
    <3> DEFINE next == scan[t].at + 1
    <3> DEFINE before == scan[t].scored
    <3> DEFINE first == [scan EXCEPT ![t].at = next]
    <3>1. scan[t] = [query |-> query, k |-> k, at |-> at, scored |-> before]
      BY <1>2
    <3>2. first = [scan EXCEPT ![t] = [scan[t] EXCEPT !.at = next]]
      BY <1>2
    <3>3. scan' = [first EXCEPT ![t] = [first[t] EXCEPT !.scored = scored]]
      BY <1>2, <2>1
    <3>4. first[t] = [scan[t] EXCEPT !.at = next] /\ DOMAIN first = Threads
      BY <1>2
    <3> HIDE DEF query, k, at, before, next, first
    <3>5. first[t] = [query |-> query, k |-> k, at |-> next, scored |-> before]
      BY <3>1, <3>4
    <3>6. [first[t] EXCEPT !.scored = scored]
            = [query |-> query, k |-> k, at |-> next, scored |-> scored]
      BY <3>5
    <3>7. scan' = [first EXCEPT ![t] = [query |-> query, k |-> k, at |-> next,
                                        scored |-> scored]]
      BY <3>3, <3>6
    <3>8. scan' = [scan EXCEPT ![t] = [query |-> query, k |-> k, at |-> next,
                                       scored |-> scored]]
      BY <3>2, <3>7
    <3> QED BY <3>8 DEF query, k, next
  <2> QED BY <2>1, <2>2
<1>4. e \in added
  <2>1. scan[t].at \in 1..Len(episodes)
    BY <1>1, <1>2, <1>3, LenProperties DEF Typed, MemoryTyped
  <2> QED BY <1>1, <2>1, ElementOfSeq DEF Typed, MemoryTyped
<1>5. \A s \in scored : s.episode \in added /\ scan[t].query \cap s.episode.tokens # {}
  <2>1. overlap # 0 => scan[t].query \cap e.tokens # {}
    BY FS_EmptySet
  <2>2. \A s \in scan[t].scored :
          s.episode \in added /\ scan[t].query \cap s.episode.tokens # {}
    BY <1>2 DEF ScanOf
  <2> HIDE DEF e
  <2>3. ASSUME NEW s \in scored
        PROVE  s.episode \in added /\ scan[t].query \cap s.episode.tokens # {}
    <3>1. CASE s \in scan[t].scored
      BY <2>2, <3>1
    <3>2. CASE s \notin scan[t].scored
      <4>1. overlap # 0 /\ s.episode = e
        BY <2>3, <3>2
      <4> QED BY <1>4, <2>1, <4>1
    <3> QED BY <3>1, <3>2
  <2> QED BY <2>3
<1> HIDE DEF scored, e
<1>6. MemoryTyped' /\ DurableInv'
  BY <1>1, <1>3, SearchMemory DEF Typed
<1>7. /\ scan' = [u \in Threads |-> scan'[u]]
      /\ scan'[t] = [query |-> scan[t].query, k |-> scan[t].k, at |-> scan[t].at + 1,
                     scored |-> scored]
      /\ \A u \in Threads \ {t} : scan'[u] = scan[u]
  BY <1>2, <1>3
<1>8. ScanOf(t)'
  BY <1>2, <1>3, <1>5, <1>7 DEF ScanOf
<1>9. AddOf(t)' /\ CountOf(t)'
  BY <1>2, <1>3 DEF AddOf, CountOf, Precedents, IncidentsOf
<1>10. Typed'
  BY <1>1, <1>3, <1>6 DEF Typed
<1>11. ThreadInv'
  BY <1>1, <1>3, <1>7, <1>8, <1>9, <1>10, StepOfThread
<1> QED BY <1>6, <1>10, <1>11 DEF IInv

(* What a search found was added and shares a token with its query.          *)
LEMMA FoundWasAdded ==
  ASSUME NEW t \in Threads, ScanOf(t)
  PROVE  \A e \in Found(t) : e \in added /\ scan[t].query \cap e.tokens # {}
  BY DEF Found, ScanOf

LEMMA MatchKeeps ==
  ASSUME IInv, NEW t \in Threads, MatchSignature(t)
  PROVE  IInv'
<1> DEFINE r == request[t]
<1> DEFINE matches == {e \in Found(t) : IsIncident(e) /\ e.verified}
<1> DEFINE m == Cardinality(matches)
<1>1. Typed /\ DurableInv /\ ThreadInv
  BY DEF IInv
<1>2. AddOf(t) /\ ScanOf(t) /\ CountOf(t) /\ scan = [u \in Threads |-> scan[u]]
  BY <1>1 DEF ThreadInv
<1>3. /\ r.stage = "signature"
      /\ request' = [request EXCEPT ![t].stage = "history", ![t].matched = m]
      /\ scan' = [scan EXCEPT ![t] = [query |-> r.change.serviceTokens,
                                      k |-> HistoryK, at |-> 1, scored |-> {}]]
      /\ UNCHANGED <<durable, episodes, rows, dbLock, adding, added, acknowledged>>
  BY DEF MatchSignature, StartSearch
<1>4. r \in Full
  BY <1>1, <1>3, RequestTypes DEF FullStages
<1>5. matches \in SUBSET Precedents(r.change) /\ IsFiniteSet(Precedents(r.change))
  <2>1. scan[t].query = r.change.title \cup r.change.diff
    BY <1>2, <1>3 DEF ScanOf
  <2>2. \A e \in matches : e \in Precedents(r.change)
    BY <1>2, <2>1, FoundWasAdded DEF Precedents
  <2>3. Precedents(r.change) \in SUBSET added /\ IsFiniteSet(added)
    BY <1>1 DEF Precedents, Typed, MemoryTyped
  <2> QED BY <2>2, <2>3, FS_Subset
<1>6. m \in Nat /\ m <= Cardinality(Precedents(r.change))
  BY <1>5, FS_Subset, FS_CardinalityType
<1> HIDE DEF m
<1>7. MemoryTyped' /\ DurableInv'
  BY <1>1, <1>3, SearchMemory DEF Typed
<1>8. /\ request' \in [Threads -> Plain \cup Full]
      /\ request'[t].stage = "history" /\ request'[t].matched = m
      /\ request'[t].change = r.change
      /\ \A u \in Threads \ {t} : request'[u] = request[u]
  BY <1>1, <1>3, <1>4, <1>6, MatchedUpdate
<1>9. /\ scan' = [u \in Threads |-> scan'[u]]
      /\ scan'[t] = [query |-> r.change.serviceTokens, k |-> HistoryK, at |-> 1,
                     scored |-> {}]
      /\ \A u \in Threads \ {t} : scan'[u] = scan[u]
  BY <1>2, <1>3
<1>10. Typed'
  BY <1>7, <1>8 DEF Typed
<1>11. Precedents(r.change)' = Precedents(r.change)
  BY <1>3, <1>8 DEF Precedents
<1>12. CountOf(t)'
  BY <1>3, <1>6, <1>8, <1>11 DEF CountOf, Precedents
<1>13. AddOf(t)' /\ ScanOf(t)'
  <2>1. AddOf(t)'
    BY <1>2, <1>3 DEF AddOf
  <2>2. /\ scan'[t].query = r.change.serviceTokens /\ scan'[t].at = 1
        /\ scan'[t].k = HistoryK /\ scan'[t].scored = {}
    BY <1>9
  <2>3. ScanOf(t)'
    BY <1>8, <1>9, <2>2 DEF ScanOf
  <2> QED BY <2>1, <2>3
<1>14. ThreadInv'
  BY <1>1, <1>3, <1>8, <1>9, <1>10, <1>12, <1>13, StepOfThread
<1> QED BY <1>7, <1>10, <1>14 DEF IInv

LEMMA CountKeeps ==
  ASSUME IInv, NEW t \in Threads, CountHistory(t)
  PROVE  IInv'
<1> DEFINE r == request[t]
<1> DEFINE incidents == {e \in Found(t) : IsIncident(e) /\ e.service = r.change.service}
<1> DEFINE m == Cardinality(incidents)
<1>1. Typed /\ DurableInv /\ ThreadInv
  BY DEF IInv
<1>2. AddOf(t) /\ ScanOf(t) /\ CountOf(t) /\ scan = [u \in Threads |-> scan[u]]
  BY <1>1 DEF ThreadInv
<1>3. /\ r.stage = "history"
      /\ request' = [request EXCEPT ![t].stage = "score", ![t].history = m]
      /\ scan' = [scan EXCEPT ![t] = NotScanning]
      /\ UNCHANGED <<durable, episodes, rows, dbLock, adding, added, acknowledged>>
  BY DEF CountHistory
<1>4. r \in Full
  BY <1>1, <1>3, RequestTypes DEF FullStages
<1>5. incidents \in SUBSET IncidentsOf(r.change) /\ IsFiniteSet(IncidentsOf(r.change))
  <2>1. \A e \in incidents : e \in IncidentsOf(r.change)
    BY <1>2, FoundWasAdded DEF IncidentsOf
  <2>2. IncidentsOf(r.change) \in SUBSET added /\ IsFiniteSet(added)
    BY <1>1 DEF IncidentsOf, Typed, MemoryTyped
  <2> QED BY <2>1, <2>2, FS_Subset
<1>6. m \in Nat /\ m <= Cardinality(IncidentsOf(r.change))
  BY <1>5, FS_Subset, FS_CardinalityType
<1> HIDE DEF m
<1>7. MemoryTyped' /\ DurableInv'
  BY <1>1, <1>3, SearchMemory DEF Typed
<1>8. /\ request' \in [Threads -> Plain \cup Full]
      /\ request'[t].stage = "score" /\ request'[t].history = m
      /\ request'[t].change = r.change /\ request'[t].matched = r.matched
      /\ \A u \in Threads \ {t} : request'[u] = request[u]
  BY <1>1, <1>3, <1>4, <1>6, CountedUpdate
<1>9. /\ scan' = [u \in Threads |-> scan'[u]] /\ scan'[t] = NotScanning
      /\ \A u \in Threads \ {t} : scan'[u] = scan[u]
  BY <1>2, <1>3
<1>10. Typed'
  BY <1>7, <1>8 DEF Typed
<1>11. /\ Precedents(r.change)' = Precedents(r.change)
       /\ IncidentsOf(r.change)' = IncidentsOf(r.change)
  BY <1>3, <1>8 DEF Precedents, IncidentsOf
<1>12. CountOf(t)'
  <2>1. r.matched <= Cardinality(Precedents(r.change))
    BY <1>2, <1>3 DEF CountOf
  <2>2. /\ request'[t].matched <= Cardinality(Precedents(r.change)')
        /\ request'[t].history <= Cardinality(IncidentsOf(r.change)')
    BY <1>6, <1>8, <1>11, <2>1
  <2>3. /\ Precedents(request[t].change)' = Precedents(r.change)'
        /\ IncidentsOf(request[t].change)' = IncidentsOf(r.change)'
    BY <1>8 DEF Precedents, IncidentsOf
  <2> QED BY <2>2, <2>3 DEF CountOf
<1>13. AddOf(t)' /\ ScanOf(t)'
  <2>1. AddOf(t)'
    BY <1>2, <1>3 DEF AddOf
  <2>2. /\ scan'[t].query = {} /\ scan'[t].at = 1 /\ scan'[t].k = 0
        /\ scan'[t].scored = {}
        /\ scan'[t] = [query |-> {}, k |-> 0, at |-> 1, scored |-> {}]
    BY <1>9 DEF NotScanning
  <2>3. ScanOf(t)'
    BY <1>8, <2>2 DEF ScanOf
  <2> QED BY <2>1, <2>3
<1>14. ThreadInv'
  BY <1>1, <1>3, <1>8, <1>9, <1>10, <1>12, <1>13, StepOfThread
<1> QED BY <1>7, <1>10, <1>14 DEF IInv

LEMMA DecideKeeps ==
  ASSUME IInv, NEW t \in Threads, Decide(t)
  PROVE  IInv'
<1>1. Typed /\ DurableInv /\ ThreadInv
  BY DEF IInv
<1>2. AddOf(t) /\ ScanOf(t) /\ CountOf(t) /\ scan = [u \in Threads |-> scan[u]]
  BY <1>1 DEF ThreadInv
<1>3. PICK s \in {"failed", "paused", "record"} :
        request' = [request EXCEPT ![t].stage = s]
  BY DEF Decide
<1>4. request[t].stage = "score" /\ UNCHANGED memoryVars
  BY DEF Decide
<1>5. UNCHANGED <<durable, episodes, rows, dbLock, adding, scan, added, acknowledged>>
  BY <1>4 DEF memoryVars
<1>6. request[t] \in Full
  BY <1>1, <1>4, RequestTypes DEF FullStages
<1>7. s \in FullStages
  BY DEF FullStages
<1>8. /\ request' \in [Threads -> Plain \cup Full] /\ request'[t].stage = s
      /\ request'[t].change = request[t].change /\ request'[t].matched = request[t].matched
      /\ request'[t].history = request[t].history
      /\ \A u \in Threads \ {t} : request'[u] = request[u]
  BY <1>1, <1>3, <1>6, <1>7, StageUpdate
<1>9. MemoryTyped' /\ DurableInv'
  BY <1>1, <1>5, SearchMemory DEF Typed
<1>10. Typed'
  BY <1>8, <1>9 DEF Typed
<1>11. AddOf(t)'
  BY <1>2, <1>4, <1>5 DEF AddOf
<1>12. ScanOf(t)'
  BY <1>2, <1>5, <1>8 DEF ScanOf
<1>13. CountOf(t)'
  BY <1>2, <1>4, <1>5, <1>8 DEF CountOf, Precedents, IncidentsOf
<1>14. ThreadInv'
  BY <1>1, <1>2, <1>5, <1>8, <1>10, <1>11, <1>12, <1>13, StepOfThread
<1> QED BY <1>9, <1>10, <1>14 DEF IInv

(* add() begins: in _record and in _learn.                                  *)
LEMMA BeginAddKeeps ==
  ASSUME IInv, NEW t \in Threads, NEW tokens, NEW service, NEW class, NEW verified,
         StartAdd(t, tokens, service, class, verified),
         NEW s \in {"recording", "learning"},
         s = "recording" => request[t] \in Full, s = "learning" => request[t] \in Plain,
         request' = [request EXCEPT ![t].stage = s]
  PROVE  IInv'
<1>1. Typed /\ DurableInv /\ ThreadInv
  BY DEF IInv
<1>2. AddOf(t) /\ ScanOf(t) /\ CountOf(t) /\ scan = [u \in Threads |-> scan[u]]
  BY <1>1 DEF ThreadInv
<1>3. /\ MemoryTyped' /\ DurableInv' /\ added \subseteq added' /\ scan' = scan
      /\ \A u \in Threads \ {t} : adding'[u] = adding[u]
  BY <1>1, StartAddMemory DEF Typed
<1>4. /\ request' \in [Threads -> Plain \cup Full] /\ request'[t].stage = s
      /\ \A u \in Threads \ {t} : request'[u] = request[u]
  BY <1>1, StageUpdate DEF FullStages
<1>5. Typed'
  BY <1>3, <1>4 DEF Typed
<1>6. AddOf(t)' /\ CountOf(t)'
  BY <1>4 DEF AddOf, CountOf
<1>7. ScanOf(t)'
  BY <1>2, <1>3, <1>4 DEF ScanOf
<1>8. ThreadInv'
  BY <1>1, <1>2, <1>3, <1>4, <1>5, <1>6, <1>7, StepOfThread
<1> QED BY <1>3, <1>5, <1>8 DEF IInv

LEMMA AddStepKeeps ==
  ASSUME IInv, NEW t \in Threads, AddStep(t)
  PROVE  IInv'
<1>1. Typed /\ DurableInv /\ ThreadInv
  BY DEF IInv
<1>2. AddOf(t) /\ ScanOf(t) /\ CountOf(t) /\ scan = [u \in Threads |-> scan[u]]
  BY <1>1 DEF ThreadInv
<1>3. /\ MemoryTyped' /\ DurableInv' /\ added' = added /\ scan' = scan
      /\ adding[t].stage # "no" /\ \A u \in Threads \ {t} : adding'[u] = adding[u]
      /\ request' = request
  BY <1>1, AddStepMemory DEF Typed, AddStep
<1>4. Typed'
  BY <1>1, <1>3 DEF Typed
<1>5. AddOf(t)' /\ ScanOf(t)' /\ CountOf(t)'
  BY <1>2, <1>3 DEF AddOf, ScanOf, CountOf, Precedents, IncidentsOf
<1>6. ThreadInv'
  BY <1>1, <1>2, <1>3, <1>4, <1>5, StepOfThread
<1> QED BY <1>3, <1>4, <1>6 DEF IInv

LEMMA FinishAddKeeps ==
  ASSUME IInv, NEW t \in Threads, FinishAdd(t)
  PROVE  IInv'
<1>1. Typed /\ DurableInv /\ ThreadInv
  BY DEF IInv
<1>2. AddOf(t) /\ ScanOf(t) /\ CountOf(t) /\ scan = [u \in Threads |-> scan[u]]
  BY <1>1 DEF ThreadInv
<1>3. /\ adding[t].stage \in {"added", "raised"}
      /\ adding' = [adding EXCEPT ![t] = NotAdding]
      /\ UNCHANGED <<durable, episodes, rows, dbLock, scan, added, acknowledged>>
  BY DEF FinishAdd, EndAdd
<1>4. request[t].stage \in {"learning", "recording"}
  BY <1>2, <1>3 DEF AddOf
<1>5. PICK s : /\ request' = [request EXCEPT ![t].stage = s]
               /\ IF request[t].stage = "learning" THEN s = "learned"
                  ELSE s \in {"succeeded", "failed"}
  BY <1>1 DEF FinishAdd, Typed
<1>6. \/ request[t] \in Full /\ s \in FullStages
      \/ request[t] \in Plain /\ s \in {"idle", "learning", "learned"}
  BY <1>1, <1>4, <1>5, RequestTypes DEF FullStages
<1>7. /\ request' \in [Threads -> Plain \cup Full] /\ request'[t].stage = s
      /\ \A u \in Threads \ {t} : request'[u] = request[u]
  BY <1>1, <1>5, <1>6, StageUpdate
<1>8. s \in {"learned", "succeeded", "failed"}
  BY <1>5
<1>9. /\ adding'[t] = NotAdding /\ \A u \in Threads \ {t} : adding'[u] = adding[u]
      /\ adding' \in [Threads -> [stage : AddStages, episode : added, cut : Nat]]
  BY <1>1, <1>3 DEF Typed, MemoryTyped, NotAdding, AddStages
<1>10. MemoryTyped'
  BY <1>1, <1>3, <1>9 DEF Typed, MemoryTyped
<1>11. adding'[t].stage = "no"
  BY <1>9 DEF NotAdding
<1>12. DurableInv'
  BY <1>1, <1>3, <1>9, <1>11 DEF DurableInv
<1>13. Typed'
  BY <1>7, <1>10 DEF Typed
<1>14. AddOf(t)' /\ CountOf(t)'
  BY <1>7, <1>8, <1>11 DEF AddOf, CountOf
<1>15. ScanOf(t)'
  BY <1>2, <1>3, <1>7, <1>8 DEF ScanOf
<1>16. ThreadInv'
  BY <1>1, <1>2, <1>3, <1>7, <1>9, <1>13, <1>14, <1>15, StepOfThread
<1> QED BY <1>12, <1>13, <1>16 DEF IInv

LEMMA AnswerKeeps ==
  ASSUME IInv, NEW t \in Threads, Answer(t)
  PROVE  IInv'
<1>1. Typed /\ DurableInv /\ ThreadInv
  BY DEF IInv
<1>2. AddOf(t) /\ ScanOf(t) /\ CountOf(t) /\ scan = [u \in Threads |-> scan[u]]
  BY <1>1 DEF ThreadInv
<1>3. /\ request[t].stage \in {"succeeded", "failed", "paused", "learned"}
      /\ request' = [request EXCEPT ![t] = Idle]
      /\ UNCHANGED <<durable, episodes, rows, dbLock, adding, scan, added, acknowledged>>
  BY DEF Answer, Answered, memoryVars
<1>4. MemoryTyped' /\ DurableInv'
  BY <1>1, <1>3, SearchMemory DEF Typed
<1>5. /\ request' \in [Threads -> Plain \cup Full] /\ request'[t] = Idle
      /\ \A u \in Threads \ {t} : request'[u] = request[u]
  BY <1>1, <1>3 DEF Typed, Plain, Idle
<1>6. request'[t].stage = "idle"
  BY <1>5 DEF Idle
<1>7. Typed'
  BY <1>4, <1>5 DEF Typed
<1>8. adding'[t].stage = "no"
  BY <1>2, <1>3 DEF AddOf
<1>9. AddOf(t)' /\ CountOf(t)'
  BY <1>6, <1>8 DEF AddOf, CountOf
<1>10. ScanOf(t)'
  BY <1>2, <1>3, <1>6 DEF ScanOf
<1>11. ThreadInv'
  BY <1>1, <1>2, <1>3, <1>5, <1>7, <1>9, <1>10, StepOfThread
<1> QED BY <1>4, <1>7, <1>11 DEF IInv

LEMMA RestartKeeps ==
  ASSUME IInv, Restart
  PROVE  IInv'
<1>1. Typed /\ DurableInv
  BY DEF IInv
<1>2. /\ request' = [t \in Threads |-> Idle] /\ adding' = [t \in Threads |-> NotAdding]
      /\ scan' = [t \in Threads |-> NotScanning]
      /\ episodes' = IF durable /\ rows # <<>> THEN rows ELSE <<Seed>>
      /\ acknowledged' = IF durable THEN acknowledged ELSE {Seed}
      /\ UNCHANGED <<durable, rows, added>>
  BY DEF Restart, MemoryRestart
<1>3. ThreadInv'
  <2>1. scan' = [t \in Threads |-> scan'[t]]
    BY <1>2
  <2>2. ASSUME NEW t \in Threads
        PROVE  AddOf(t)' /\ ScanOf(t)' /\ CountOf(t)'
    <3>1. request'[t].stage = "idle" /\ adding'[t].stage = "no"
      BY <1>2 DEF Idle, NotAdding
    <3>2. /\ scan'[t].query = {} /\ scan'[t].at = 1 /\ scan'[t].k = 0
          /\ scan'[t].scored = {}
          /\ scan'[t] = [query |-> {}, k |-> 0, at |-> 1, scored |-> {}]
      BY <1>2 DEF NotScanning
    <3> QED BY <3>1, <3>2 DEF AddOf, ScanOf, CountOf
  <2> QED BY <2>1, <2>2 DEF ThreadInv
<1>4. Seed \in acknowledged' /\ acknowledged' \subseteq added /\ Seed \in added
  BY <1>1, <1>2 DEF Typed, MemoryTyped
<1>5. episodes' \in Seq(added)
  BY <1>1, <1>2, <1>4 DEF Typed, MemoryTyped
<1>6. adding' \in [Threads -> [stage : AddStages, episode : added, cut : Nat]]
  BY <1>2, <1>4 DEF NotAdding, AddStages
<1>7. request' \in [Threads -> Plain \cup Full]
  BY <1>2 DEF Plain, Idle
<1>8. Typed'
  BY <1>1, <1>2, <1>4, <1>5, <1>6, <1>7 DEF Typed, MemoryTyped
<1>9. \A t \in Threads : adding'[t].stage = "no"
  BY <1>2 DEF NotAdding
<1>10. CASE durable
  <2>1. PICK i \in DOMAIN rows : rows[i] = Seed
    BY <1>1, <1>10 DEF Typed, MemoryTyped, DurableInv
  <2>2. rows # <<>>
    BY <2>1
  <2>3. episodes' = rows /\ acknowledged' = acknowledged /\ durable' /\ rows' = rows
    BY <1>2, <1>10, <2>2
  <2>4. DurableInv'
    BY <1>1, <1>9, <1>10, <2>3 DEF DurableInv
  <2> QED BY <1>3, <1>8, <2>4 DEF IInv
<1>11. CASE ~durable
  <2>1. ~durable'
    BY <1>2, <1>11
  <2>2. DurableInv'
    BY <1>9, <2>1 DEF DurableInv
  <2> QED BY <1>3, <1>8, <2>2 DEF IInv
<1> QED BY <1>10, <1>11

LEMMA InitIInv == Init => IInv
<1> SUFFICES ASSUME Init PROVE IInv
  OBVIOUS
<1>1. Typed
  BY InitTyped
<1>2. ThreadInv
  <2>1. scan = [t \in Threads |-> scan[t]]
    BY DEF Init, MemoryInit
  <2>2. ASSUME NEW t \in Threads
        PROVE  AddOf(t) /\ ScanOf(t) /\ CountOf(t)
    <3>1. request[t].stage = "idle" /\ adding[t].stage = "no"
      BY DEF Init, MemoryInit, Idle, NotAdding
    <3>2. /\ scan[t].query = {} /\ scan[t].at = 1 /\ scan[t].k = 0
          /\ scan[t].scored = {}
          /\ scan[t] = [query |-> {}, k |-> 0, at |-> 1, scored |-> {}]
      BY DEF Init, MemoryInit, NotScanning
    <3> QED BY <3>1, <3>2 DEF AddOf, ScanOf, CountOf
  <2> QED BY <2>1, <2>2 DEF ThreadInv
<1>3. \A t \in Threads : adding[t].stage = "no"
  BY DEF Init, MemoryInit, NotAdding
<1>4. ASSUME durable, NEW e \in acknowledged
      PROVE  /\ \E i \in DOMAIN episodes : episodes[i] = e
             /\ \E i \in DOMAIN rows : rows[i] = e
  <2>1. e = Seed /\ episodes = <<Seed>> /\ rows = <<Seed>>
    BY <1>4 DEF Init, MemoryInit
  <2>2. 1 \in DOMAIN <<Seed>> /\ <<Seed>>[1] = Seed
    OBVIOUS
  <2> QED BY <2>1, <2>2
<1>5. DurableInv
  BY <1>3, <1>4 DEF DurableInv
<1> QED BY <1>1, <1>2, <1>5 DEF IInv

LEMMA NextIInv == IInv /\ [Next]_vars => IInv'
<1> SUFFICES ASSUME IInv, [Next]_vars PROVE IInv'
  OBVIOUS
<1>1. ASSUME NEW t \in Threads, NEW change \in Changes, Submit(t, change)
      PROVE  IInv'
  BY <1>1, SubmitKeeps
<1>2. ASSUME NEW t \in Threads, NEW incident \in Incidents, LearnIncident(t, incident)
      PROVE  IInv'
  <2>1. request[t] \in Plain
    BY <1>2, RequestTypes DEF LearnIncident, IInv
  <2>2. /\ StartAdd(t, incident.tokens, incident.service, "deploy-regression/memory", TRUE)
        /\ request' = [request EXCEPT ![t].stage = "learning"]
    BY <1>2 DEF LearnIncident
  <2> QED BY <2>1, <2>2, BeginAddKeeps
<1>3. ASSUME NEW t \in Threads, Search(t) PROVE IInv'
  BY <1>3, SearchKeeps
<1>4. ASSUME NEW t \in Threads, MatchSignature(t) PROVE IInv'
  BY <1>4, MatchKeeps
<1>5. ASSUME NEW t \in Threads, CountHistory(t) PROVE IInv'
  BY <1>5, CountKeeps
<1>6. ASSUME NEW t \in Threads, Decide(t) PROVE IInv'
  BY <1>6, DecideKeeps
<1>7. ASSUME NEW t \in Threads, RecordDecision(t)
      PROVE  IInv'
  <2>1. request[t] \in Full
    BY <1>7, RequestTypes DEF RecordDecision, IInv, FullStages
  <2> DEFINE change == request[t].change
  <2>2. /\ StartAdd(t, change.title \cup change.serviceTokens \cup {"change", "scored"},
                    change.service, "none", FALSE)
        /\ request' = [request EXCEPT ![t].stage = "recording"]
    BY <1>7 DEF RecordDecision
  <2> QED BY <2>1, <2>2, BeginAddKeeps
<1>8. ASSUME NEW t \in Threads, AddStep(t) PROVE IInv'
  BY <1>8, AddStepKeeps
<1>9. ASSUME NEW t \in Threads, FinishAdd(t) PROVE IInv'
  BY <1>9, FinishAddKeeps
<1>10. ASSUME NEW t \in Threads, Answer(t) PROVE IInv'
  BY <1>10, AnswerKeeps
<1>11. CASE Restart
  BY <1>11, RestartKeeps
<1>12. CASE UNCHANGED vars
  <2>1. UNCHANGED <<durable, episodes, rows, dbLock, adding, scan, added, acknowledged,
                    request>>
    BY <1>12 DEF vars, memoryVars
  <2>2. MemoryTyped' /\ DurableInv'
    BY <2>1, SearchMemory DEF IInv, Typed
  <2>3. Typed'
    BY <2>1, <2>2 DEF IInv, Typed
  <2>4. ThreadInv'
    BY <2>1 DEF IInv, ThreadInv, AddOf, ScanOf, CountOf, Precedents, IncidentsOf
  <2> QED BY <2>2, <2>3, <2>4 DEF IInv
<1> QED BY <1>1, <1>2, <1>3, <1>4, <1>5, <1>6, <1>7, <1>8, <1>9, <1>10, <1>11, <1>12
      DEF Next

(* What the memory holds was added, its lock's holder inserts the last       *)
(* episode, and no count of a search exceeds what was ever added.          *)
THEOREM Invariance == Spec => []IInv
<1> QED BY InitIInv, NextIInv, PTL DEF Spec

(* What add() returned an id for outlives a restart of the process, whatever *)
(* inserts failed and whoever was adding (SqliteEpisodicMemory).            *)
THEOREM LearningOutlives == Spec => []LearningSurvives
<1>1. IInv => LearningSurvives
  BY DEF IInv, DurableInv, LearningSurvives
<1> QED BY <1>1, Invariance, PTL

-----------------------------------------------------------------------------
(* A band grows with what is counted: the arithmetic of score_change.        *)
LEMMA CappedIsLess ==
  ASSUME NEW cap \in Nat, NEW points \in Nat
  PROVE  Capped(cap, points) = IF cap <= points THEN cap ELSE points
<1> DEFINE least == IF cap <= points THEN cap ELSE points
<1>1. least \in {cap, points} /\ \A y \in {cap, points} : least <= y
  OBVIOUS
<1>2. \A x \in {cap, points} : (\A y \in {cap, points} : x <= y) => x = least
  OBVIOUS
<1> QED BY <1>1, <1>2 DEF Capped, Min

LEMMA CappedGrows ==
  ASSUME NEW cap \in Nat, NEW points \in Nat, NEW more \in Nat, points <= more
  PROVE  /\ Capped(cap, points) \in Nat /\ Capped(cap, more) \in Nat
         /\ Capped(cap, points) <= Capped(cap, more)
  BY CappedIsLess

LEMMA ScoreGrows ==
  ASSUME NEW matched \in Nat, NEW history \in Nat, NEW moreMatched \in Nat,
         NEW moreHistory \in Nat, matched <= moreMatched, history <= moreHistory,
         NEW radius \in Nat, NEW peak \in BOOLEAN
  PROVE  /\ ScoreOf(matched, radius, peak, history) \in Nat
         /\ ScoreOf(moreMatched, radius, peak, moreHistory) \in Nat
         /\ ScoreOf(matched, radius, peak, history)
              <= ScoreOf(moreMatched, radius, peak, moreHistory)
<1>1. /\ Capped(40, 20 * matched) \in Nat /\ Capped(40, 20 * moreMatched) \in Nat
      /\ Capped(40, 20 * matched) <= Capped(40, 20 * moreMatched)
  <2>1. /\ 20 * matched \in Nat /\ 20 * moreMatched \in Nat
        /\ 20 * matched <= 20 * moreMatched
    OBVIOUS
  <2> QED BY <2>1, CappedGrows
<1>2. /\ Capped(15, 5 * history) \in Nat /\ Capped(15, 5 * moreHistory) \in Nat
      /\ Capped(15, 5 * history) <= Capped(15, 5 * moreHistory)
  <2>1. /\ 5 * history \in Nat /\ 5 * moreHistory \in Nat
        /\ 5 * history <= 5 * moreHistory
    OBVIOUS
  <2> QED BY <2>1, CappedGrows
<1>3. Capped(30, 10 * radius) \in Nat
  <2>1. 10 * radius \in Nat
    OBVIOUS
  <2> QED BY <2>1, CappedGrows
<1>4. (IF peak THEN 15 ELSE 0) \in Nat
  OBVIOUS
<1> DEFINE a == Capped(40, 20 * matched)
<1> DEFINE b == Capped(40, 20 * moreMatched)
<1> DEFINE c == Capped(15, 5 * history)
<1> DEFINE d == Capped(15, 5 * moreHistory)
<1> DEFINE e == Capped(30, 10 * radius)
<1> DEFINE f == IF peak THEN 15 ELSE 0
<1>5. /\ a \in Nat /\ b \in Nat /\ c \in Nat /\ d \in Nat /\ e \in Nat /\ f \in Nat
      /\ a <= b /\ c <= d
  BY <1>1, <1>2, <1>3, <1>4
<1>6. /\ ScoreOf(matched, radius, peak, history) = a + e + f + c
      /\ ScoreOf(moreMatched, radius, peak, moreHistory) = b + e + f + d
  BY DEF ScoreOf
<1> HIDE DEF a, b, c, d, e, f
<1>7. a + e + f + c \in Nat /\ b + e + f + d \in Nat /\ a + e + f + c <= b + e + f + d
  BY <1>5
<1> QED BY <1>6, <1>7

LEMMA BandGrows ==
  ASSUME NEW score \in Nat, NEW more \in Nat, score <= more
  PROVE  Rank(BandOf(score)) <= Rank(BandOf(more))
<1>1. Rank("LOW") = 0 /\ Rank("MEDIUM") = 1 /\ Rank("HIGH") = 2
  BY DEF Rank
<1>2. CASE score >= 70
  <2>1. BandOf(score) = "HIGH" /\ BandOf(more) = "HIGH"
    BY <1>2 DEF BandOf
  <2> QED BY <1>1, <2>1
<1>3. CASE score < 70 /\ score >= 40
  <2>1. BandOf(score) = "MEDIUM" /\ BandOf(more) \in {"MEDIUM", "HIGH"}
    BY <1>3 DEF BandOf
  <2> QED BY <1>1, <2>1
<1>4. CASE score < 40
  <2>1. BandOf(score) = "LOW" /\ BandOf(more) \in {"LOW", "MEDIUM", "HIGH"}
    BY <1>4 DEF BandOf
  <2> QED BY <1>1, <2>1
<1> QED BY <1>2, <1>3, <1>4

LEMMA BlastRadiusIsANumber ==
  ASSUME NEW service
  PROVE  Cardinality(Dependents(service)) \in Nat
<1> DEFINE named == {"checkout-service", "payments-service", "search-api",
                     "orders-service", "storefront-web", "mobile-bff"}
<1>1. IsFiniteSet(named)
  <2>1. named = {"checkout-service"} \cup ({"payments-service"} \cup ({"search-api"}
                  \cup ({"orders-service"} \cup ({"storefront-web"} \cup {"mobile-bff"}))))
    OBVIOUS
  <2>2. \A name : IsFiniteSet({name})
    BY FS_Singleton
  <2>3. \A S, T : IsFiniteSet(S) /\ IsFiniteSet(T) => IsFiniteSet(S \cup T)
    BY FS_Union
  <2> HIDE DEF named
  <2> QED BY <2>1, <2>2, <2>3
<1>2. \A call \in CallsGraph : call[1] \in named /\ call[2] \in named
  BY DEF CallsGraph
<1> HIDE DEF named
<1>3. Services \subseteq named
  BY <1>2 DEF Services
<1>4. Dependents(service) \in SUBSET named
  BY <1>3 DEF Dependents
<1>5. IsFiniteSet(Dependents(service))
  BY <1>1, <1>4, FS_Subset
<1> QED BY <1>5, FS_CardinalityType

(* A change is never banded above what the verified incidents it resembles,  *)
(* and the incidents of its service, account for: recorded decisions do not  *)
(* inflate a later change (change_intel.py), whoever writes meanwhile.       *)
THEOREM OnlyIncidentsCount == Spec => []OnlyIncidentsInflate
<1>1. IInv => OnlyIncidentsInflate
  <2> SUFFICES ASSUME IInv, NEW t \in Threads, Scored(t)
               PROVE  LET change == request[t].change
                      IN  Rank(Band(t)) <=
                            Rank(BandWith(change, Cardinality(Precedents(change)),
                                          Cardinality({e \in added :
                                            /\ IsIncident(e)
                                            /\ e.service = change.service})))
    BY DEF OnlyIncidentsInflate
  <2> DEFINE change == request[t].change
  <2> DEFINE radius == Cardinality(Dependents(change.service))
  <2> DEFINE similar == Cardinality(Precedents(change))
  <2> DEFINE local == Cardinality(IncidentsOf(change))
  <2>1. request[t] \in Full /\ CountOf(t) /\ IsFiniteSet(added)
    BY RequestTypes DEF IInv, ThreadInv, Scored, FullStages, Typed, MemoryTyped
  <2>2. /\ request[t].matched \in Nat /\ request[t].history \in Nat
        /\ change.peakWindow \in BOOLEAN
    BY <2>1, ChangeAssumption DEF Full
  <2>3. /\ request[t].matched <= similar /\ request[t].history <= local
    BY <2>1 DEF CountOf, Scored
  <2>4. similar \in Nat /\ local \in Nat
    <3>1. Precedents(change) \in SUBSET added /\ IncidentsOf(change) \in SUBSET added
      BY DEF Precedents, IncidentsOf
    <3>2. IsFiniteSet(Precedents(change)) /\ IsFiniteSet(IncidentsOf(change))
      BY <2>1, <3>1, FS_Subset
    <3> QED BY <3>2, FS_CardinalityType
  <2>5. radius \in Nat
    BY BlastRadiusIsANumber
  <2>6. /\ Band(t) = BandOf(ScoreOf(request[t].matched, radius, change.peakWindow,
                                    request[t].history))
        /\ BandWith(change, similar, local)
             = BandOf(ScoreOf(similar, radius, change.peakWindow, local))
        /\ IncidentsOf(change)
             = {e \in added : IsIncident(e) /\ e.service = change.service}
    BY DEF Band, BandWith, IncidentsOf
  <2> HIDE DEF radius, similar, local
  <2> DEFINE score == ScoreOf(request[t].matched, radius, change.peakWindow,
                              request[t].history)
  <2> DEFINE most == ScoreOf(similar, radius, change.peakWindow, local)
  <2>7. score \in Nat /\ most \in Nat /\ score <= most
    BY <2>2, <2>3, <2>4, <2>5, ScoreGrows
  <2> HIDE DEF score, most
  <2>8. Rank(BandOf(score)) <= Rank(BandOf(most))
    BY <2>7, BandGrows
  <2>9. Rank(Band(t)) <= Rank(BandWith(change, similar, local))
    BY <2>6, <2>8 DEF score, most
  <2> QED BY <2>6, <2>9 DEF similar, local
<1> QED BY <1>1, Invariance, PTL

================================================================================
