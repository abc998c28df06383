-------------------------------- MODULE AuditLog --------------------------------
(***************************************************************************)
(* The hash-chained audit ledger: AuditLog with its JSONL file             *)
(* (security/audit.py) and SqliteAuditLog (storage/sqlite.py), appended to *)
(* by several threads, with writes that fail and a process that restarts.  *)
(* A hash is the history it covers, so it is free of collisions.           *)
(***************************************************************************)
EXTENDS Naturals, Sequences, FiniteSets

CONSTANTS
  Thread,      \* threads that append
  Body,        \* what a record says: ts, actor, action and payload
  DiskMayFail, \* a write to the store may raise
  MayRestart,  \* the process may die and start again
  MaxAppends,  \* bound: calls of append()
  NoThread     \* "the lock is free"

ASSUME AuditAssumption ==
  /\ NoThread \notin Thread
  /\ DiskMayFail \in BOOLEAN /\ MayRestart \in BOOLEAN
  /\ MaxAppends \in Nat

VARIABLES
  sqlite,   \* the ledger is a SqliteAuditLog, not an AuditLog with a file
  records,  \* self._records
  disk,     \* lines of the file, or rows in the order they were inserted
  attached, \* records go to the store (self._path, or a SqliteAuditLog)
  lock,     \* holder of self._lock
  pc,       \* where each thread stands in append()
  pending,  \* pending[t]: the record t is appending
  appends,  \* calls of append() so far
  failed,   \* some write to the store has raised
  restarted \* the ledger was reloaded from the store

vars == <<sqlite, records, disk, attached, lock, pc, pending, appends, failed,
          restarted>>

Genesis == <<>>
Digest(prev, seq, body) == Append(prev, [seq |-> seq, body |-> body])

Covered == [seq : Nat, body : Body]
Record  == [seq : Nat, body : Body, prev : Seq(Covered), hash : Seq(Covered)]

TypeOK ==
  /\ sqlite \in BOOLEAN
  /\ records \in Seq(Record)
  /\ disk \in Seq(Record)
  /\ attached \in BOOLEAN
  /\ lock \in Thread \cup {NoThread}
  /\ pc \in [Thread -> {"idle", "chained", "appended", "inserting"}]
  /\ \A t \in Thread : pc[t] # "idle" => pending[t] \in Record
  /\ appends \in Nat
  /\ failed \in BOOLEAN /\ restarted \in BOOLEAN

NoRecord == [seq |-> 0]

Init ==
  /\ sqlite \in BOOLEAN
  /\ records = <<>> /\ disk = <<>>
  /\ attached = sqlite
  /\ lock = NoThread
  /\ pc = [t \in Thread |-> "idle"]
  /\ pending = [t \in Thread |-> NoRecord]
  /\ appends = 0
  /\ failed = FALSE /\ restarted = FALSE

-----------------------------------------------------------------------------
(* What append() does under the lock, and after it for SQLite.             *)

Tip == IF records = <<>> THEN Genesis ELSE records[Len(records)].hash
Chained(body) == [seq |-> Len(records), body |-> body, prev |-> Tip,
                  hash |-> Digest(Tip, Len(records), body)]

(* A ledger loaded from a file is read-only: nothing appends to it.        *)
Writable == sqlite \/ ~restarted

(* Fault: seq and the previous hash are read without the lock.             *)
ChainUnlocked(t, body) ==
  /\ pc[t] = "idle" /\ Writable /\ appends < MaxAppends
  /\ appends' = appends + 1
  /\ pending' = [pending EXCEPT ![t] = Chained(body)]
  /\ pc' = [pc EXCEPT ![t] = "chained"]
  /\ UNCHANGED <<sqlite, records, disk, attached, lock, failed, restarted>>

Chain(t, body) ==
  /\ pc[t] = "idle" /\ Writable /\ appends < MaxAppends
  /\ lock = NoThread
  /\ lock' = t
  /\ appends' = appends + 1
  /\ pending' = [pending EXCEPT ![t] = Chained(body)]
  /\ pc' = [pc EXCEPT ![t] = "chained"]
  /\ UNCHANGED <<sqlite, records, disk, attached, failed, restarted>>

(* Fault: the file is written after the lock is released.                  *)
ExtendAndUnlock(t) ==
  /\ pc[t] = "chained"
  /\ records' = Append(records, pending[t])
  /\ pc' = [pc EXCEPT ![t] = IF sqlite THEN "inserting" ELSE "appended"]
  /\ lock' = NoThread
  /\ UNCHANGED <<sqlite, disk, attached, pending, appends, failed, restarted>>

Extend(t) ==
  /\ pc[t] = "chained"
  /\ records' = Append(records, pending[t])
  /\ pc' = [pc EXCEPT ![t] = IF sqlite THEN "inserting" ELSE "appended"]
  /\ lock' = IF sqlite THEN NoThread ELSE lock
  /\ UNCHANGED <<sqlite, disk, attached, pending, appends, failed, restarted>>

Leave(t) == pc' = [pc EXCEPT ![t] = "idle"]
Keep     == UNCHANGED <<sqlite, records, attached, pending, appends, restarted>>

WriteLine(t) ==
  /\ pc[t] = "appended"
  /\ disk' = IF attached THEN Append(disk, pending[t]) ELSE disk
  /\ lock' = NoThread
  /\ Leave(t)
  /\ UNCHANGED failed
  /\ Keep

Stored(r) == \E k \in DOMAIN disk : disk[k].seq = r.seq

(* Fault: the database numbers the row.                                    *)
InsertNextRow(t) ==
  /\ pc[t] = "inserting"
  /\ disk' = Append(disk, [pending[t] EXCEPT !.seq = Len(disk)])
  /\ Leave(t)
  /\ UNCHANGED <<lock, failed>>
  /\ Keep

InsertRow(t) ==
  /\ pc[t] = "inserting"
  /\ ~Stored(pending[t])
  /\ disk' = Append(disk, pending[t])
  /\ Leave(t)
  /\ UNCHANGED <<lock, failed>>
  /\ Keep

(* The file cannot be written, the database refuses, or the row's primary  *)
(* key is taken: append() raises, and memory keeps the record.             *)
WriteFails(t) ==
  /\ \/ pc[t] = "appended" /\ attached /\ DiskMayFail
     \/ pc[t] = "inserting" /\ (DiskMayFail \/ Stored(pending[t]))
  /\ failed' = TRUE
  /\ lock' = IF sqlite THEN lock ELSE NoThread
  /\ Leave(t)
  /\ UNCHANGED disk
  /\ Keep

(* Fault: only what comes later goes to the file.                          *)
AttachWithoutFlush ==
  /\ ~attached /\ Writable
  /\ lock = NoThread
  /\ attached' = TRUE
  /\ UNCHANGED <<sqlite, records, disk, lock, pc, pending, appends, failed, restarted>>

(* attach_path(): what was recorded so far goes to the file.               *)
AttachPath ==
  /\ ~attached /\ Writable
  /\ lock = NoThread
  /\ attached' = TRUE
  /\ disk' = disk \o records
  /\ UNCHANGED <<sqlite, records, lock, pc, pending, appends, failed, restarted>>

(* The process dies and starts again: AuditLog.load() reads the lines, and *)
(* SqliteAuditLog.__init__ reads the rows by seq.                          *)
BySeq(r, s) == r.seq < s.seq
Loaded == IF sqlite
            THEN CHOOSE q \in [1..Len(disk) -> {disk[k] : k \in DOMAIN disk}] :
                   \A i, j \in 1..Len(disk) : i < j => BySeq(q[i], q[j])
            ELSE disk

Restart ==
  /\ MayRestart /\ ~restarted
  /\ attached
  /\ restarted' = TRUE
  /\ records' = Loaded
  /\ attached' = sqlite
  /\ lock' = NoThread
  /\ pc' = [t \in Thread |-> "idle"]
  /\ pending' = [t \in Thread |-> NoRecord]
  /\ UNCHANGED <<sqlite, disk, appends, failed>>

AppendStep(t) ==
  \/ Extend(t)
  \/ WriteLine(t)
  \/ InsertRow(t)
  \/ WriteFails(t)

Next ==
  \/ \E t \in Thread, body \in Body : Chain(t, body)
  \/ \E t \in Thread : AppendStep(t)
  \/ AttachPath
  \/ Restart

Spec == Init /\ [][Next]_vars

-----------------------------------------------------------------------------
(* Properties.                                                             *)

(* verify().                                                               *)
Before(c, k) == IF k = 1 THEN Genesis ELSE c[k - 1].hash
Verify(c) ==
  \A k \in 1..Len(c) :
    /\ c[k].prev = Before(c, k)
    /\ c[k].hash = Digest(c[k].prev, c[k].seq, c[k].body)

(* "Two threads appending to a shared log fork the chain": they do not, and*)
(* verify() holds of a ledger nobody tampered with, until it is reloaded.  *)
ChainNeverForks == ~restarted => Verify(records)

(* The file holds every record of memory but the one being appended, as    *)
(* long as no write failed: nothing is lost, repeated or out of order.     *)
FileFollowsMemory ==
  ~sqlite /\ attached /\ ~failed =>
    /\ Len(disk) <= Len(records) /\ Len(records) <= Len(disk) + 1
    /\ disk = SubSeq(records, 1, Len(disk))
    /\ lock = NoThread => disk = records

(* The rows hold every record of memory that no thread is still inserting, *)
(* whatever the order in which the threads got to the database.            *)
RowsFollowMemory ==
  sqlite /\ ~failed /\ ~restarted =>
    {disk[k] : k \in DOMAIN disk} =
      {records[k] : k \in DOMAIN records}
        \ {pending[t] : t \in {u \in Thread : pc[u] = "inserting"}}

(* "A past incident's governance trail is reloadable + verifiable after a  *)
(* restart" (AppState.__init__): so it is from its file, unless a write had*)
(* failed.                                                                 *)
ReloadVerifies == restarted /\ ~sqlite /\ ~failed => Verify(records)
=============================================================================
