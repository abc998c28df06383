---------------------------- MODULE EpisodicMemory -----------------------------
(***************************************************************************)
(* Episodic memory as the threads of the API share it: the bounded list of   *)
(* memory/store.py, or its durable subclass of storage/sqlite.py.           *)
(*                                                                         *)
(* Only the durable one has a lock, and it does not protect a search: the    *)
(* list is read while others append to it and, when it is bounded, cut it.  *)
(* A text is the set of its tokens.                                        *)
(***************************************************************************)
EXTENDS Naturals, Sequences, FiniteSets, SequencesExt

CONSTANTS Threads,
          MaxEpisodes,      \* max_episodes of the list that is not durable
          MaxAdded,         \* bound: episodes added besides the seed
          MaxRestarts       \* bound: restarts of the process

VARIABLES
  durable,      \* AETHEROPS_DB is set
  episodes,     \* _episodes
  rows,         \* the table, in the order of rowid
  dbLock,       \* holder of _db_lock, or none
  adding,       \* per thread: the add() it is in
  scan,         \* per thread: the search() it is in
  added,        \* history: every episode appended, in any life
  acknowledged, \* history: those whose add() returned, in this life when not durable
  restarts

memoryVars == <<durable, episodes, rows, dbLock, adding, scan, added, acknowledged,
                restarts>>

Nobody == "nobody"

ASSUME MemoryAssumption ==
  /\ MaxEpisodes \in Nat \ {0} /\ MaxAdded \in Nat /\ MaxRestarts \in Nat
  /\ Nobody \notin Threads

Episode(id, tokens, service, class, verified) ==
  [id |-> id, tokens |-> tokens, service |-> service, class |-> class,
   verified |-> verified]

IsIncident(e) == e.class # "none"

(* The learned episode every memory is seeded with.                         *)
Seed == Episode(0, {"raise", "pool", "oom", "checkout", "service"}, "checkout-service",
                "deploy-regression/memory", TRUE)

NotAdding == [stage |-> "no", episode |-> Seed, cut |-> 0]
NotScanning == [query |-> {}, k |-> 0, at |-> 1, scored |-> {}]

MemoryInit ==
  /\ durable \in BOOLEAN
  /\ episodes = <<Seed>>
  /\ rows = IF durable THEN <<Seed>> ELSE <<>>
  /\ dbLock = Nobody
  /\ adding = [t \in Threads |-> NotAdding]
  /\ scan = [t \in Threads |-> NotScanning]
  /\ added = {Seed} /\ acknowledged = {Seed}
  /\ restarts = 0
-----------------------------------------------------------------------------
(* add(): the new episode is visible as soon as it is appended; the durable  *)
(* memory then inserts its row, the other cuts the oldest.                  *)
CanAdd == Cardinality(added) <= MaxAdded

StartAdd(t, tokens, service, class, verified) ==
  /\ CanAdd
  /\ durable => dbLock = Nobody
  /\ dbLock' = IF durable THEN t ELSE dbLock
  /\ LET e == Episode(Cardinality(added), tokens, service, class, verified)
     IN  /\ episodes' = Append(episodes, e)
         /\ added' = added \cup {e}
         /\ adding' = [adding EXCEPT ![t] =
                         [stage |-> IF durable THEN "insert" ELSE "measure",
                          episode |-> e, cut |-> 0]]
  /\ UNCHANGED <<durable, rows, scan, acknowledged, restarts>>

Measure(t) ==
  /\ adding[t].stage = "measure"
  /\ adding' = [adding EXCEPT ![t].stage = "cut",
                  ![t].cut = IF Len(episodes) > MaxEpisodes
                             THEN Len(episodes) - MaxEpisodes ELSE 0]
  /\ UNCHANGED <<durable, episodes, rows, dbLock, scan, added, acknowledged,
                 restarts>>

(* del _episodes[:n], of the list as others have left it since.             *)
Cut(t) ==
  /\ adding[t].stage = "cut"
  /\ episodes' = SubSeq(episodes, adding[t].cut + 1, Len(episodes))
  /\ adding' = [adding EXCEPT ![t].stage = "added"]
  /\ acknowledged' = acknowledged \cup {adding[t].episode}
  /\ UNCHANGED <<durable, rows, dbLock, scan, added, restarts>>

Insert(t) ==
  /\ adding[t].stage = "insert"
  /\ rows' = Append(rows, Last(episodes))
  /\ dbLock' = Nobody
  /\ adding' = [adding EXCEPT ![t].stage = "added"]
  /\ acknowledged' = acknowledged \cup {adding[t].episode}
  /\ UNCHANGED <<durable, episodes, scan, added, restarts>>

(* Fault: the exception is swallowed and the id returned.                   *)
InsertFailsSilently(t) ==
  /\ adding[t].stage = "insert"
  /\ dbLock' = Nobody
  /\ adding' = [adding EXCEPT ![t].stage = "added"]
  /\ acknowledged' = acknowledged \cup {adding[t].episode}
  /\ UNCHANGED <<durable, episodes, rows, scan, added, restarts>>

(* The database refuses: the episode stays in this process only.             *)
InsertFails(t) ==
  /\ adding[t].stage = "insert"
  /\ dbLock' = Nobody
  /\ adding' = [adding EXCEPT ![t].stage = "raised"]
  /\ UNCHANGED <<durable, episodes, rows, scan, added, acknowledged, restarts>>

EndAdd(t) == adding' = [adding EXCEPT ![t] = NotAdding]
-----------------------------------------------------------------------------
(* search(): an iteration by index over the live list, then the k best by    *)
(* overlap, verified before not, recent before old.                        *)
StartSearch(t, query, k) ==
  scan' = [scan EXCEPT ![t] = [query |-> query, k |-> k, at |-> 1, scored |-> {}]]

Searching(t) == scan[t].at <= Len(episodes)

Visit(t) ==
  /\ scan[t].k > 0 /\ Searching(t)
  /\ LET e == episodes[scan[t].at]
         overlap == Cardinality(scan[t].query \cap e.tokens)
     IN  scan' = [scan EXCEPT
           ![t].at = @ + 1,
           ![t].scored = IF overlap = 0 THEN @
                         ELSE @ \cup {[overlap |-> overlap, episode |-> e,
                                       index |-> scan[t].at]}]
  /\ UNCHANGED <<durable, episodes, rows, dbLock, adding, added, acknowledged,
                 restarts>>

Outranks(r, s) ==
  \/ r.overlap > s.overlap
  \/ /\ r.overlap = s.overlap
     /\ \/ r.episode.verified /\ ~s.episode.verified
        \/ r.episode.verified = s.episode.verified /\ r.index > s.index

Found(t) ==
  {s.episode : s \in {r \in scan[t].scored :
                        Cardinality({q \in scan[t].scored : Outranks(q, r)}) < scan[t].k}}
-----------------------------------------------------------------------------
(* A restart reads the rows back in the order they were inserted; a memory   *)
(* that is not durable, or empty, is seeded again.                          *)
MemoryRestart ==
  /\ restarts < MaxRestarts
  /\ restarts' = restarts + 1
  /\ episodes' = IF durable /\ rows # <<>> THEN rows ELSE <<Seed>>
  /\ dbLock' = Nobody
  /\ adding' = [t \in Threads |-> NotAdding]
  /\ scan' = [t \in Threads |-> NotScanning]
  /\ acknowledged' = IF durable THEN acknowledged ELSE {Seed}
  /\ UNCHANGED <<durable, rows, added>>

(* What add() returned an id for outlives a restart of the process, whatever *)
(* inserts failed before it and whoever was adding at the time (the premise  *)
(* of SqliteEpisodicMemory and of STATE.memory: "learning survives").       *)
LearningSurvives ==
  durable => \A e \in acknowledged :
               /\ \E i \in DOMAIN episodes : episodes[i] = e
               /\ \E i \in DOMAIN rows : rows[i] = e
=============================================================================
