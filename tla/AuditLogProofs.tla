----------------------------- MODULE AuditLogProofs -----------------------------
(***************************************************************************)
(* Proofs about the audit ledger, for every number of threads, bodies and  *)
(* appends, with or without failing writes and restarts.                   *)
(***************************************************************************)
EXTENDS AuditLog, SequenceTheorems, TLAPS

(* What a ledger's tip and its next record are, for any ledger c.          *)
TipOf(c) == IF c = <<>> THEN Genesis ELSE c[Len(c)].hash
NextOf(c, body) == [seq |-> Len(c), body |-> body, prev |-> TipOf(c),
                    hash |-> Digest(TipOf(c), Len(c), body)]

(* A ledger read back from the rows of a database is outside the proof:    *)
(* nothing says its rows have no gap (a process may die between two inserts).           *)
Reloaded == restarted /\ sqlite

TypeInv ==
  /\ TypeOK
  /\ pending \in [Thread -> Record \cup {NoRecord}]

(* A thread between reading the tip and extending the ledger has the lock, *)
(* and so has one that has yet to write its line.                          *)
LockInv ==
  \A t \in Thread :
    /\ pc[t] = "chained" => lock = t
    /\ pc[t] = "appended" => ~sqlite /\ lock = t
    /\ pc[t] = "inserting" => sqlite

(* The record a thread is about to append is the next one of the ledger.   *)
NextInv == \A t \in Thread : pc[t] = "chained" =>
             /\ pending[t].body \in Body
             /\ pending[t] = NextOf(records, pending[t].body)

(* The file against memory.                                                *)
FileInv ==
  ~sqlite =>
    /\ ~attached /\ ~restarted => disk = <<>>
    /\ attached /\ ~failed => \/ /\ disk = records
                                 /\ \A t \in Thread : pc[t] # "appended"
                              \/ \E t \in Thread : /\ pc[t] = "appended"
                                                   /\ records = Append(disk, pending[t])
    /\ restarted => ~attached /\ \A t \in Thread : pc[t] = "idle"

IInv == /\ restarted \in BOOLEAN /\ sqlite \in BOOLEAN
        /\ ~Reloaded => /\ TypeInv
                        /\ LockInv
                        /\ NextInv
                        /\ FileInv
                        /\ ChainNeverForks
                        /\ ReloadVerifies

-----------------------------------------------------------------------------
(* Facts about ledgers.                                                    *)

(* Extending a ledger that verifies by its next record keeps it verifying. *)
LEMMA ExtendVerifies ==
  ASSUME NEW c \in Seq(Record), Verify(c), NEW body \in Body
  PROVE  Verify(Append(c, NextOf(c, body)))
<1> DEFINE r == NextOf(c, body)
           d == Append(c, r)
<1>1. Len(c) \in Nat /\ Len(d) = Len(c) + 1
  OBVIOUS
<1>2. \A k \in 1..Len(c) : d[k] = c[k]
  OBVIOUS
<1>3. d[Len(c) + 1] = r
  OBVIOUS
<1>4. SUFFICES ASSUME NEW k \in 1..Len(d)
               PROVE  /\ d[k].prev = Before(d, k)
                      /\ d[k].hash = Digest(d[k].prev, d[k].seq, d[k].body)
  BY DEF Verify
<1>5. CASE k \in 1..Len(c)
  <2>1. Before(d, k) = Before(c, k)
    <3>1. k # 1 => k - 1 \in 1..Len(c)
      BY <1>5, <1>1
    <3> QED BY <3>1, <1>2 DEF Before
  <2>2. d[k] = c[k]
    BY <1>2, <1>5
  <2> QED BY <2>1, <2>2, <1>5 DEF Verify
<1>6. CASE k = Len(c) + 1
  <2>1. /\ r.prev = TipOf(c) /\ r.seq = Len(c) /\ r.body = body
        /\ r.hash = Digest(TipOf(c), Len(c), body)
    BY DEF NextOf
  <2>2. Before(d, k) = TipOf(c)
    <3>1. CASE c = <<>>
      <4>1. k = 1
        BY <3>1, <1>6
      <4> QED BY <4>1, <3>1 DEF Before, TipOf
    <3>2. CASE c # <<>>
      <4>1. Len(c) # 0 /\ Len(c) \in 1..Len(c)
        BY <3>2, <1>1
      <4>2. k # 1 /\ k - 1 = Len(c)
        BY <4>1, <1>1, <1>6
      <4> QED BY <4>1, <4>2, <3>2, <1>2 DEF Before, TipOf
    <3> QED BY <3>1, <3>2
  <2> QED BY <2>1, <2>2, <1>3, <1>6
<1> QED BY <1>1, <1>4, <1>5, <1>6

(* A ledger verifies only if the ledger before its last record does.       *)
LEMMA PrefixVerifies ==
  ASSUME NEW c \in Seq(Record), NEW r, Verify(Append(c, r))
  PROVE  Verify(c)
<1> DEFINE d == Append(c, r)
<1>1. Len(c) \in Nat /\ Len(d) = Len(c) + 1
  OBVIOUS
<1>2. \A k \in 1..Len(c) : d[k] = c[k]
  OBVIOUS
<1>3. SUFFICES ASSUME NEW k \in 1..Len(c)
               PROVE  /\ c[k].prev = Before(c, k)
                      /\ c[k].hash = Digest(c[k].prev, c[k].seq, c[k].body)
  BY DEF Verify
<1>4. k \in 1..Len(d)
  BY <1>1
<1>5. Before(d, k) = Before(c, k)
  <2>1. k # 1 => k - 1 \in 1..Len(c)
    BY <1>1
  <2> QED BY <2>1, <1>2 DEF Before
<1>6. /\ d[k].prev = Before(d, k)
      /\ d[k].hash = Digest(d[k].prev, d[k].seq, d[k].body)
  BY <1>4 DEF Verify
<1> QED BY <1>2, <1>5, <1>6

(* verify() detects the replacement of any record but the last by a        *)
(* different one, however the forger fills in its hashes: the hash of the  *)
(* old record is part of the one after it (AuditLog.verify).               *)
THEOREM EditDetected ==
  ASSUME NEW c \in Seq(Record), Verify(c),
         NEW k \in 1..(Len(c) - 1), NEW r \in Record, r # c[k]
  PROVE  ~Verify([c EXCEPT ![k] = r])
<1> DEFINE d == [c EXCEPT ![k] = r]
<1>1. Len(c) \in Nat /\ k \in 1..Len(c) /\ k + 1 \in 1..Len(c) /\ k + 1 # k
  OBVIOUS
<1>2. d \in Seq(Record) /\ Len(d) = Len(c)
  BY <1>1
<1>3. d[k] = r /\ \A j \in 1..Len(c) : j # k => d[j] = c[j]
  BY <1>1
<1>4. SUFFICES ASSUME Verify(d) PROVE FALSE
  OBVIOUS
<1>5. Before(d, k) = Before(c, k)
  <2>1. k # 1 => k - 1 \in 1..Len(c) /\ k - 1 # k
    BY <1>1
  <2> QED BY <2>1, <1>3 DEF Before
<1>6. r.prev = c[k].prev
  BY <1>1, <1>2, <1>3, <1>4, <1>5 DEF Verify
<1>7. r.hash = c[k].hash
  <2>1. c[k + 1].prev = c[k].hash
    <3>1. c[k + 1].prev = Before(c, k + 1)
      BY <1>1 DEF Verify
    <3>2. Before(c, k + 1) = c[k].hash
      BY <1>1 DEF Before
    <3> QED BY <3>1, <3>2
  <2>2. d[k + 1].prev = d[k].hash
    <3>1. d[k + 1].prev = Before(d, k + 1)
      BY <1>1, <1>2, <1>4 DEF Verify
    <3>2. Before(d, k + 1) = d[k].hash
      BY <1>1 DEF Before
    <3> QED BY <3>1, <3>2
  <2> QED BY <2>1, <2>2, <1>1, <1>3
<1>8. c[k] \in Record
  BY <1>1
<1>9. Digest(r.prev, r.seq, r.body) = Digest(c[k].prev, c[k].seq, c[k].body)
  <2>1. r.hash = Digest(r.prev, r.seq, r.body)
    BY <1>1, <1>2, <1>3, <1>4 DEF Verify
  <2>2. c[k].hash = Digest(c[k].prev, c[k].seq, c[k].body)
    BY <1>1 DEF Verify
  <2> QED BY <2>1, <2>2, <1>7
<1>10. r.seq = c[k].seq /\ r.body = c[k].body
  <2> DEFINE p == r.prev
             x == [seq |-> r.seq, body |-> r.body]
             y == [seq |-> c[k].seq, body |-> c[k].body]
  <2>1. Append(p, x) = Append(p, y)
    BY <1>6, <1>9 DEF Digest
  <2>2. p \in Seq(Covered) /\ x \in Covered /\ y \in Covered
    BY <1>8 DEF Record, Covered
  <2>3. Append(p, x)[Len(p) + 1] = x /\ Append(p, y)[Len(p) + 1] = y
    BY <2>2
  <2>4. x = y
    BY <2>1, <2>3
  <2> QED BY <2>4
<1>11. r = [seq |-> r.seq, body |-> r.body, prev |-> r.prev, hash |-> r.hash]
  BY DEF Record
<1>12. c[k] = [seq |-> c[k].seq, body |-> c[k].body, prev |-> c[k].prev,
               hash |-> c[k].hash]
  BY <1>8 DEF Record
<1> QED BY <1>6, <1>7, <1>10, <1>11, <1>12
-----------------------------------------------------------------------------
(* The invariant is inductive.                                             *)

LEMMA NextIsRecord ==
  ASSUME NEW c \in Seq(Record), NEW body \in Body
  PROVE  NextOf(c, body) \in Record
<1>1. TipOf(c) \in Seq(Covered)
  <2>1. CASE c = <<>>
    BY <2>1 DEF TipOf, Genesis
  <2>2. CASE c # <<>>
    <3>1. c[Len(c)] \in Record
      BY <2>2
    <3> QED BY <3>1, <2>2 DEF TipOf, Record
  <2> QED BY <2>1, <2>2
<1>2. Len(c) \in Nat
  OBVIOUS
<1>3. [seq |-> Len(c), body |-> body] \in Covered
  BY <1>2 DEF Covered
<1>4. Digest(TipOf(c), Len(c), body) \in Seq(Covered)
  BY <1>1, <1>3 DEF Digest
<1> QED BY <1>1, <1>2, <1>4 DEF NextOf, Record

LEMMA InitInv == Init => IInv
<1> SUFFICES ASSUME Init PROVE IInv
  OBVIOUS
<1>1. TypeInv
  <2>1. records \in Seq(Record) /\ disk \in Seq(Record)
    BY DEF Init
  <2>2. \A t \in Thread : pc[t] = "idle"
    BY DEF Init
  <2>3. pending \in [Thread -> Record \cup {NoRecord}]
    BY DEF Init
  <2> QED BY <2>1, <2>2, <2>3, AuditAssumption DEF Init, TypeInv, TypeOK
<1>2. LockInv /\ NextInv
  BY DEF Init, LockInv, NextInv
<1>3. FileInv
  BY AuditAssumption DEF Init, FileInv
<1>4. ChainNeverForks /\ ReloadVerifies
  <2>1. Len(records) = 0
    BY DEF Init
  <2> QED BY <2>1 DEF Init, ChainNeverForks, ReloadVerifies, Verify
<1> QED BY <1>1, <1>2, <1>3, <1>4 DEF IInv, Init

(* append() takes the lock and chains a record to the tip.                 *)
LEMMA ChainInv ==
  ASSUME IInv, ~Reloaded, NEW t \in Thread, NEW body \in Body, Chain(t, body)
  PROVE  IInv'
<1>1. TypeInv /\ LockInv /\ NextInv /\ FileInv /\ ChainNeverForks /\ ReloadVerifies
  BY DEF IInv
<1>2. records \in Seq(Record) /\ t # NoThread
  BY <1>1, AuditAssumption DEF TypeInv, TypeOK
<1>3. /\ pc[t] = "idle" /\ lock = NoThread /\ lock' = t
      /\ pending' = [pending EXCEPT ![t] = NextOf(records, body)]
      /\ pc' = [pc EXCEPT ![t] = "chained"]
      /\ appends' = appends + 1
      /\ UNCHANGED <<sqlite, records, disk, attached, failed, restarted>>
  BY DEF Chain, Chained, NextOf, Tip, TipOf
<1>4. NextOf(records, body) \in Record
  BY <1>2, NextIsRecord
<1>5. \A u \in Thread : pc[u] \notin {"chained", "appended"}
  BY <1>1, <1>3, AuditAssumption DEF LockInv
<1>6. TypeInv'
  BY <1>1, <1>3, <1>4 DEF TypeInv, TypeOK
<1>7. LockInv'
  BY <1>1, <1>3, <1>5 DEF LockInv, TypeInv, TypeOK
<1>8. NextInv'
  <2>1. NextOf(records, body).body = body
    BY DEF NextOf
  <2>2. records' = records
    BY <1>3
  <2>3. ASSUME NEW u \in Thread, pc'[u] = "chained"
        PROVE  u = t
    BY <2>3, <1>1, <1>3, <1>5 DEF TypeInv, TypeOK
  <2>4. pending'[t] = NextOf(records, body)
    BY <1>1, <1>3 DEF TypeInv
  <2> QED BY <2>1, <2>2, <2>3, <2>4 DEF NextInv, NextOf, TipOf
<1>9. FileInv'
  <2>0. \A u \in Thread : pc'[u] # "appended"
    BY <1>1, <1>3, <1>5 DEF TypeInv, TypeOK
  <2>1. ~sqlite => ~restarted
    BY <1>1, <1>3 DEF FileInv, Chain, Writable
  <2> QED BY <1>1, <1>3, <1>5, <2>0, <2>1 DEF FileInv
<1>10. ChainNeverForks' /\ ReloadVerifies'
  BY <1>1, <1>3 DEF ChainNeverForks, ReloadVerifies, Verify, Before
<1> QED BY <1>3, <1>6, <1>7, <1>8, <1>9, <1>10 DEF IInv

(* The record becomes the ledger's last one.                               *)
LEMMA ExtendInv ==
  ASSUME IInv, ~Reloaded, NEW t \in Thread, Extend(t)
  PROVE  IInv'
<1>1. TypeInv /\ LockInv /\ NextInv /\ FileInv /\ ChainNeverForks /\ ReloadVerifies
  BY DEF IInv
<1>2. records \in Seq(Record) /\ pending[t] \in Record
  BY <1>1 DEF TypeInv, TypeOK, Extend
<1>3. /\ pc[t] = "chained" /\ lock = t
      /\ records' = Append(records, pending[t])
      /\ pc' = [pc EXCEPT ![t] = IF sqlite THEN "inserting" ELSE "appended"]
      /\ lock' = IF sqlite THEN NoThread ELSE lock
      /\ UNCHANGED <<sqlite, disk, attached, pending, appends, failed, restarted>>
  BY <1>1 DEF Extend, LockInv
<1>4. \A u \in Thread \ {t} : pc[u] \notin {"chained", "appended"}
  BY <1>1, <1>3 DEF LockInv
<1>5. ~restarted
  BY <1>1, <1>3 DEF FileInv, Reloaded
<1>6. TypeInv'
  BY <1>1, <1>2, <1>3 DEF TypeInv, TypeOK
<1>7. LockInv'
  BY <1>1, <1>3, <1>4 DEF LockInv, TypeInv, TypeOK
<1>8. NextInv'
  BY <1>1, <1>3, <1>4 DEF NextInv, TypeInv, TypeOK
<1>9. FileInv'
  <2>1. SUFFICES ASSUME ~sqlite PROVE FileInv'
    BY <1>3 DEF FileInv
  <2>2. attached /\ ~failed => disk = records
    BY <1>1, <1>3, <1>4, <2>1 DEF FileInv
  <2>3. pc'[t] = "appended"
    BY <1>1, <1>3, <2>1 DEF TypeInv, TypeOK
  <2> QED BY <1>1, <1>3, <1>5, <2>1, <2>2, <2>3 DEF FileInv
<1>10. ChainNeverForks'
  <2>1. Verify(records)
    BY <1>1, <1>5 DEF ChainNeverForks
  <2>2. pending[t].body \in Body /\ pending[t] = NextOf(records, pending[t].body)
    BY <1>1, <1>3 DEF NextInv
  <2>3. Verify(Append(records, NextOf(records, pending[t].body)))
    BY <1>2, <2>1, <2>2, ExtendVerifies
  <2>4. Verify(Append(records, pending[t]))
    BY <2>2, <2>3
  <2> QED BY <2>4, <1>3 DEF ChainNeverForks, Verify, Before
<1>11. ReloadVerifies'
  BY <1>3, <1>5 DEF ReloadVerifies
<1> QED BY <1>3, <1>5, <1>6, <1>7, <1>8, <1>9, <1>10, <1>11 DEF IInv

(* The steps after it leave memory alone: one line, one row, or a failure. *)
LEMMA StoreInv ==
  ASSUME IInv, ~Reloaded, NEW t \in Thread,
         WriteLine(t) \/ InsertRow(t) \/ WriteFails(t)
  PROVE  IInv'
<1>1. TypeInv /\ LockInv /\ NextInv /\ FileInv /\ ChainNeverForks /\ ReloadVerifies
  BY DEF IInv
<1>2. /\ pc[t] \in {"appended", "inserting"}
      /\ pc' = [pc EXCEPT ![t] = "idle"]
      /\ UNCHANGED <<sqlite, records, attached, pending, appends, restarted>>
  BY DEF WriteLine, InsertRow, WriteFails, Leave, Keep
<1>3. pending[t] \in Record
  BY <1>1, <1>2 DEF TypeInv, TypeOK
<1>4. lock' \in {lock, NoThread} /\ (sqlite => lock' = lock)
  BY <1>1, <1>2 DEF WriteLine, InsertRow, WriteFails, LockInv
<1>5. ~sqlite => pc[t] = "appended" /\ lock = t /\ lock' = NoThread
  BY <1>1, <1>2 DEF LockInv, WriteLine, InsertRow, WriteFails
<1>6. disk' \in {disk, Append(disk, pending[t])} /\ failed' \in BOOLEAN
  BY <1>1 DEF WriteLine, InsertRow, WriteFails, TypeInv, TypeOK
<1>7. ~sqlite => \A u \in Thread \ {t} : pc[u] \notin {"chained", "appended"}
  BY <1>1, <1>5 DEF LockInv
<1>8. ~restarted
  BY <1>1, <1>2 DEF FileInv, Reloaded
<1>9. TypeInv'
  <2>1. disk' \in Seq(Record)
    BY <1>1, <1>3, <1>6 DEF TypeInv, TypeOK
  <2> QED BY <1>1, <1>2, <1>4, <1>6, <2>1 DEF TypeInv, TypeOK
<1>10. LockInv'
  BY <1>1, <1>2, <1>4, <1>7 DEF LockInv, TypeInv, TypeOK
<1>11. NextInv'
  BY <1>1, <1>2 DEF NextInv, NextOf, TipOf, TypeInv, TypeOK
<1>12. FileInv'
  <2>1. SUFFICES ASSUME ~sqlite PROVE FileInv'
    BY <1>2 DEF FileInv
  <2>2. \A u \in Thread : pc'[u] # "appended"
    BY <1>1, <1>2, <1>7, <2>1 DEF TypeInv, TypeOK
  <2>3. ~attached => disk' = disk
    BY <1>1, <1>5, <2>1 DEF WriteLine, InsertRow, WriteFails
  <2>4. ASSUME attached, ~failed' PROVE disk' = records
    <3>1. ~failed /\ disk' = Append(disk, pending[t])
      BY <2>4, <1>5, <2>1 DEF WriteLine, InsertRow, WriteFails
    <3>2. records = Append(disk, pending[t])
      BY <3>1, <2>4, <2>1, <1>1, <1>5, <1>7 DEF FileInv
    <3> QED BY <3>1, <3>2
  <2> QED BY <1>1, <1>2, <1>8, <2>1, <2>2, <2>3, <2>4 DEF FileInv
<1>13. ChainNeverForks' /\ ReloadVerifies'
  BY <1>1, <1>2, <1>8 DEF ChainNeverForks, ReloadVerifies, Verify, Before
<1> QED BY <1>2, <1>9, <1>10, <1>11, <1>12, <1>13 DEF IInv

(* attach_path() writes what memory holds to an empty file.                *)
LEMMA AttachInv ==
  ASSUME IInv, ~Reloaded, AttachPath
  PROVE  IInv'
<1>1. TypeInv /\ LockInv /\ NextInv /\ FileInv /\ ChainNeverForks /\ ReloadVerifies
  BY DEF IInv
<1>2. /\ ~attached /\ Writable /\ lock = NoThread
      /\ attached' = TRUE /\ disk' = disk \o records
      /\ UNCHANGED <<sqlite, records, lock, pc, pending, appends, failed, restarted>>
  BY DEF AttachPath
<1>3. TypeInv'
  BY <1>1, <1>2 DEF TypeInv, TypeOK
<1>4. LockInv' /\ NextInv'
  BY <1>1, <1>2 DEF LockInv, NextInv, NextOf, TipOf
<1>5. FileInv'
  <2>1. SUFFICES ASSUME ~sqlite PROVE FileInv'
    BY <1>2 DEF FileInv
  <2>2. ~restarted
    BY <1>2, <2>1 DEF Writable
  <2>3. disk = <<>>
    BY <1>1, <1>2, <2>1, <2>2 DEF FileInv
  <2>4. disk' = records
    BY <1>1, <1>2, <2>3 DEF TypeInv, TypeOK
  <2>5. \A u \in Thread : pc[u] # "appended"
    BY <1>1, <1>2, AuditAssumption DEF LockInv
  <2> QED BY <1>2, <2>1, <2>2, <2>4, <2>5 DEF FileInv
<1>6. ChainNeverForks' /\ ReloadVerifies'
  BY <1>1, <1>2 DEF ChainNeverForks, ReloadVerifies, Verify, Before
<1> QED BY <1>2, <1>3, <1>4, <1>5, <1>6 DEF IInv

(* AuditLog.load() reads back what append() wrote.                         *)
LEMMA RestartInv ==
  ASSUME IInv, ~Reloaded, Restart
  PROVE  IInv'
<1>1. TypeInv /\ LockInv /\ NextInv /\ FileInv /\ ChainNeverForks /\ ReloadVerifies
  BY DEF IInv
<1>2. CASE sqlite
  BY <1>2 DEF IInv, Reloaded, Restart
<1>3. CASE ~sqlite
  <2>1. /\ ~restarted /\ attached /\ restarted' = TRUE
        /\ records' = disk /\ attached' = FALSE /\ lock' = NoThread
        /\ pc' = [t \in Thread |-> "idle"]
        /\ pending' = [t \in Thread |-> NoRecord]
        /\ UNCHANGED <<sqlite, disk, appends, failed>>
    BY <1>3, AuditAssumption DEF Restart, Loaded
  <2>2. TypeInv'
    BY <1>1, <2>1 DEF TypeInv, TypeOK
  <2>3. LockInv' /\ NextInv' /\ FileInv'
    BY <2>1 DEF LockInv, NextInv, FileInv
  <2>4. ChainNeverForks'
    BY <2>1 DEF ChainNeverForks
  <2>5. ReloadVerifies'
    <3>1. SUFFICES ASSUME ~failed PROVE Verify(disk)
      BY <2>1 DEF ReloadVerifies, Verify, Before
    <3>2. Verify(records)
      BY <1>1, <2>1 DEF ChainNeverForks
    <3>3. disk \in Seq(Record)
      BY <1>1 DEF TypeInv, TypeOK
    <3>4. CASE disk = records
      BY <3>2, <3>4
    <3>5. CASE \E t \in Thread : records = Append(disk, pending[t])
      <4>1. PICK t \in Thread : records = Append(disk, pending[t])
        BY <3>5
      <4>2. Verify(Append(disk, pending[t]))
        BY <3>2, <4>1
      <4> QED BY <3>3, <4>2, PrefixVerifies
    <3> QED BY <1>1, <1>3, <2>1, <3>1, <3>4, <3>5 DEF FileInv
  <2> QED BY <2>1, <2>2, <2>3, <2>4, <2>5 DEF IInv
<1> QED BY <1>2, <1>3

LEMMA NextInvariant == IInv /\ [Next]_vars => IInv'
<1> SUFFICES ASSUME IInv, [Next]_vars PROVE IInv'
  OBVIOUS
<1>1. CASE Reloaded
  <2>1. restarted'
    BY <1>1 DEF Reloaded, Next, Chain, AppendStep, Extend, WriteLine, InsertRow,
                WriteFails, Keep, AttachPath, Restart, vars
  <2>2. restarted' = restarted
    BY <1>1 DEF Reloaded, Next, Chain, AppendStep, Extend, WriteLine, InsertRow,
                WriteFails, Keep, AttachPath, Restart, vars
  <2>3. sqlite' = sqlite
    BY <1>1 DEF Reloaded, Next, Chain, AppendStep, Extend, WriteLine, InsertRow,
                WriteFails, Keep, AttachPath, Restart, vars
  <2> QED BY <1>1, <2>2, <2>3 DEF Reloaded, IInv
<1>2. CASE ~Reloaded
  <2>1. ASSUME NEW t \in Thread, NEW body \in Body, Chain(t, body) PROVE IInv'
    BY <1>2, <2>1, ChainInv
  <2>2. ASSUME NEW t \in Thread, Extend(t) PROVE IInv'
    BY <1>2, <2>2, ExtendInv
  <2>3. ASSUME NEW t \in Thread, WriteLine(t) \/ InsertRow(t) \/ WriteFails(t)
        PROVE  IInv'
    BY <1>2, <2>3, StoreInv
  <2>4. CASE AttachPath
    BY <1>2, <2>4, AttachInv
  <2>5. CASE Restart
    BY <1>2, <2>5, RestartInv
  <2>6. CASE UNCHANGED vars
    BY <2>6 DEF vars, IInv, Reloaded, TypeInv, TypeOK, LockInv, NextInv, FileInv,
                ChainNeverForks, ReloadVerifies, NextOf, TipOf, Verify, Before
  <2> QED BY <2>1, <2>2, <2>3, <2>4, <2>5, <2>6 DEF Next, AppendStep
<1> QED BY <1>1, <1>2

-----------------------------------------------------------------------------
(* IInv holds throughout (AuditLog.append, attach_path and load).          *)
THEOREM Invariance == Spec => []IInv
<1> QED BY InitInv, NextInvariant, PTL DEF Spec

(* Types, for a ledger with a file. Of one in SQLite they would also need  *)
(* the rows it is reloaded from to have an order by seq.                   *)
THEOREM TypeCorrect == Spec => [](~sqlite => TypeOK)
<1>1. IInv => (~sqlite => TypeOK)
  BY DEF IInv, Reloaded, TypeInv
<1> QED BY <1>1, Invariance, PTL

(* Concurrent appends never fork the chain: verify() holds of a ledger of  *)
(* either kind until it is reloaded.                                       *)
THEOREM ChainNeverForksHolds == Spec => []ChainNeverForks
<1>1. IInv => ChainNeverForks
  BY DEF IInv, Reloaded, ChainNeverForks
<1> QED BY <1>1, Invariance, PTL

(* Every record of memory is in the file once, in order, except the one    *)
(* being appended, as long as no write failed.                             *)
THEOREM FileFollowsMemoryHolds == Spec => []FileFollowsMemory
<1>1. IInv => FileFollowsMemory
  <2> SUFFICES ASSUME IInv, ~sqlite, attached, ~failed
               PROVE  /\ Len(disk) <= Len(records) /\ Len(records) <= Len(disk) + 1
                      /\ disk = SubSeq(records, 1, Len(disk))
                      /\ lock = NoThread => disk = records
    BY DEF FileFollowsMemory
  <2>1. TypeInv /\ LockInv /\ FileInv
    BY DEF IInv, Reloaded
  <2>2. disk \in Seq(Record) /\ records \in Seq(Record)
    BY <2>1 DEF TypeInv, TypeOK
  <2>3. CASE disk = records
    BY <2>2, <2>3
  <2>4. CASE \E t \in Thread : pc[t] = "appended" /\ records = Append(disk, pending[t])
    <3>1. PICK t \in Thread : pc[t] = "appended" /\ records = Append(disk, pending[t])
      BY <2>4
    <3>2. pending[t] \in Record
      BY <2>1, <3>1 DEF TypeInv, TypeOK
    <3>3. lock # NoThread
      BY <2>1, <3>1, AuditAssumption DEF LockInv
    <3>4. /\ Len(records) = Len(disk) + 1 /\ Len(disk) \in Nat
          /\ disk = SubSeq(records, 1, Len(disk))
      BY <2>2, <3>1, <3>2
    <3> QED BY <3>3, <3>4
  <2> QED BY <2>1, <2>3, <2>4 DEF FileInv
<1> QED BY <1>1, Invariance, PTL

(* A ledger reloaded from its file verifies unless a write had failed.     *)
THEOREM ReloadVerifiesHolds == Spec => []ReloadVerifies
<1>1. IInv => ReloadVerifies
  BY DEF IInv, Reloaded, ReloadVerifies
<1> QED BY <1>1, Invariance, PTL
-----------------------------------------------------------------------------
(* The rows of the database against memory: a record is numbered by its place *)
(* in memory, so no two threads insert the same one, and what is not a row    *)
(* yet is what some thread is inserting.                                    *)
Rows == {disk[k] : k \in DOMAIN disk}
Kept == {records[k] : k \in DOMAIN records}
Unstored == {pending[t] : t \in {u \in Thread : pc[u] = "inserting"}}

Stages == {"idle", "chained", "appended", "inserting"}

RowsInv ==
  sqlite /\ ~restarted =>
    /\ attached
    /\ \A k \in 1..Len(records) : records[k].seq = k - 1
    /\ Unstored \subseteq Kept
    /\ \A t, u \in Thread : pc[t] = "inserting" /\ pc[u] = "inserting"
                            /\ pending[t] = pending[u] => t = u
    /\ ~failed => Rows = Kept \ Unstored

(* Appending to a sequence adds one to what it holds.                        *)
LEMMA AppendHolds ==
  ASSUME NEW S, NEW q \in Seq(S), NEW e \in S
  PROVE  {Append(q, e)[k] : k \in DOMAIN Append(q, e)} = {q[k] : k \in DOMAIN q} \cup {e}
<1>1. /\ DOMAIN Append(q, e) = 1..(Len(q) + 1) /\ DOMAIN q = 1..Len(q)
      /\ \A k \in 1..Len(q) : Append(q, e)[k] = q[k]
      /\ Append(q, e)[Len(q) + 1] = e
  BY AppendProperties, LenProperties
<1>2. \A k \in 1..(Len(q) + 1) : k \in 1..Len(q) \/ k = Len(q) + 1
  BY LenProperties
<1>3. Len(q) + 1 \in 1..(Len(q) + 1) /\ \A k \in 1..Len(q) : k \in 1..(Len(q) + 1)
  BY LenProperties
<1> QED BY <1>1, <1>2, <1>3

LEMMA ExtendRows ==
  ASSUME IInv, RowsInv, sqlite, ~restarted, NEW t \in Thread, Extend(t)
  PROVE  RowsInv'
<1> DEFINE r == pending[t]
<1>1. TypeInv /\ LockInv /\ NextInv
  BY DEF IInv, Reloaded
<1>2. /\ pc[t] = "chained" /\ records' = Append(records, r)
      /\ pc' = [pc EXCEPT ![t] = "inserting"]
      /\ UNCHANGED <<sqlite, disk, attached, pending, failed, restarted>>
  BY DEF Extend
<1>3. /\ records \in Seq(Record) /\ r \in Record /\ pc \in [Thread -> Stages]
      /\ Len(records) \in Nat
  BY <1>1, <1>2 DEF TypeInv, TypeOK, Stages
<1>4. r.seq = Len(records)
  <2>1. r = NextOf(records, r.body)
    BY <1>1, <1>2 DEF NextInv
  <2>2. NextOf(records, r.body).seq = Len(records)
    BY DEF NextOf
  <2> QED BY <2>1, <2>2
<1>5. \A k \in 1..Len(records) : records[k].seq = k - 1
  BY DEF RowsInv
<1>6. r \notin Kept
  <2>1. ASSUME NEW k \in DOMAIN records PROVE records[k] # r
    BY <1>3, <1>4, <1>5, LenProperties
  <2> QED BY <2>1 DEF Kept
<1>7. Kept' = Kept \cup {r}
  BY <1>2, <1>3, AppendHolds DEF Kept
<1>8. Unstored' = Unstored \cup {r}
  <2>1. \A u \in Thread : pc'[u] = "inserting" <=> pc[u] = "inserting" \/ u = t
    BY <1>2, <1>3
  <2> QED BY <1>2, <2>1 DEF Unstored
<1>9. Unstored \subseteq Kept
  BY DEF RowsInv
<1>10. /\ Len(records') = Len(records) + 1
       /\ \A k \in 1..Len(records') : records'[k].seq = k - 1
  <2>1. /\ Len(records') = Len(records) + 1 /\ records'[Len(records) + 1] = r
        /\ \A k \in 1..Len(records) : records'[k] = records[k]
    BY <1>2, <1>3, AppendProperties
  <2>2. \A k \in 1..(Len(records) + 1) : k \in 1..Len(records) \/ k = Len(records) + 1
    BY <1>3
  <2> QED BY <1>3, <1>4, <1>5, <2>1, <2>2
<1>11. ASSUME NEW u \in Thread, NEW v \in Thread, pc'[u] = "inserting",
              pc'[v] = "inserting", pending[u] = pending[v]
       PROVE  u = v
  <2>1. ASSUME NEW w \in Thread, pc'[w] = "inserting", w # t
        PROVE  pc[w] = "inserting" /\ pending[w] \in Kept
    BY <1>2, <1>3, <1>9, <2>1 DEF Unstored
  <2> QED BY <1>6, <1>11, <2>1 DEF RowsInv
<1>12. Rows' = Rows
  BY <1>2 DEF Rows
<1>13. ~failed => Rows = Kept \ Unstored
  BY DEF RowsInv
<1> QED BY <1>2, <1>6, <1>7, <1>8, <1>9, <1>10, <1>11, <1>12, <1>13 DEF RowsInv

LEMMA StoreRows ==
  ASSUME IInv, RowsInv, sqlite, ~restarted, NEW t \in Thread,
         InsertRow(t) \/ WriteFails(t)
  PROVE  RowsInv'
<1> DEFINE r == pending[t]
<1>1. TypeInv /\ LockInv
  BY DEF IInv, Reloaded
<1>2. /\ pc[t] = "inserting" /\ pc' = [pc EXCEPT ![t] = "idle"]
      /\ UNCHANGED <<sqlite, records, attached, pending, restarted>>
  BY <1>1 DEF InsertRow, WriteFails, Leave, Keep, LockInv
<1>3. /\ disk \in Seq(Record) /\ r \in Record /\ pc \in [Thread -> Stages]
  BY <1>1, <1>2 DEF TypeInv, TypeOK, Stages
<1>4. \A u \in Thread : pc'[u] = "inserting" <=> pc[u] = "inserting" /\ u # t
  BY <1>2, <1>3
<1>5. \A u \in Thread : pc[u] = "inserting" /\ pending[u] = r => u = t
  BY <1>2 DEF RowsInv
<1>6. Unstored' = Unstored \ {r} /\ r \in Unstored
  BY <1>2, <1>4, <1>5 DEF Unstored
<1>7. Kept' = Kept /\ Len(records') = Len(records)
  BY <1>2 DEF Kept
<1>8. Unstored \subseteq Kept
  BY DEF RowsInv
<1>9. ~failed' => Rows' = Kept \ (Unstored \ {r})
  <2> SUFFICES ASSUME ~failed' PROVE Rows' = Kept \ (Unstored \ {r})
    OBVIOUS
  <2>1. ~failed /\ disk' = Append(disk, r)
    BY DEF InsertRow, WriteFails
  <2>2. Rows' = Rows \cup {r}
    BY <1>3, <2>1, AppendHolds DEF Rows
  <2>3. Rows = Kept \ Unstored
    BY <2>1 DEF RowsInv
  <2> QED BY <1>6, <1>8, <2>2, <2>3
<1>10. \A k \in 1..Len(records) : records[k].seq = k - 1
  BY DEF RowsInv
<1>11. \A u, v \in Thread : pc'[u] = "inserting" /\ pc'[v] = "inserting"
                            /\ pending[u] = pending[v] => u = v
  BY <1>4 DEF RowsInv
<1>12. attached
  BY DEF RowsInv
<1> QED BY <1>2, <1>6, <1>7, <1>8, <1>9, <1>10, <1>11, <1>12 DEF RowsInv

(* The rows hold every record of memory that no thread is still inserting,    *)
(* whatever the order in which threads got to the database (SqliteAuditLog).  *)
THEOREM RowsFollowMemoryHolds == Spec => []RowsFollowMemory
<1>1. Init => RowsInv
  <2> SUFFICES ASSUME Init PROVE RowsInv
    OBVIOUS
  <2>1. /\ attached = sqlite /\ records = <<>> /\ disk = <<>>
        /\ \A t \in Thread : pc[t] # "inserting"
    BY DEF Init
  <2>2. DOMAIN records = {} /\ DOMAIN disk = {} /\ 1..Len(records) = {}
    BY <2>1
  <2>3. Rows = {} /\ Kept = {} /\ Unstored = {}
    BY <2>1, <2>2 DEF Rows, Kept, Unstored
  <2> QED BY <2>1, <2>2, <2>3 DEF RowsInv
<1>2. IInv /\ RowsInv /\ [Next]_vars => RowsInv'
  <2> SUFFICES ASSUME IInv, RowsInv, [Next]_vars, sqlite', ~restarted' PROVE RowsInv'
    BY DEF RowsInv
  <2>1. sqlite /\ ~restarted
    <3>1. sqlite' = sqlite
      BY DEF Next, Chain, AppendStep, Extend, WriteLine, InsertRow, WriteFails, Keep,
             AttachPath, Restart, vars
    <3>2. restarted' = restarted \/ restarted' = TRUE
      BY DEF Next, Chain, AppendStep, Extend, WriteLine, InsertRow, WriteFails, Keep,
             AttachPath, Restart, vars
    <3> QED BY <3>1, <3>2
  <2>2. attached
    BY <2>1 DEF RowsInv
  <2>3. ASSUME NEW t \in Thread, NEW body \in Body, Chain(t, body) PROVE RowsInv'
    <3>1. /\ pc[t] = "idle" /\ pc' = [pc EXCEPT ![t] = "chained"]
          /\ pending' = [pending EXCEPT ![t] = Chained(body)]
          /\ UNCHANGED <<sqlite, records, disk, attached, failed, restarted>>
      BY <2>3 DEF Chain
    <3>2. pc \in [Thread -> Stages] /\ DOMAIN pending = Thread
      BY <2>1 DEF IInv, Reloaded, TypeInv, TypeOK, Stages
    <3>3. \A u \in Thread : /\ pc'[u] = "inserting" <=> pc[u] = "inserting"
                            /\ pc[u] = "inserting" => pending'[u] = pending[u]
      BY <3>1, <3>2
    <3>4. Unstored' = Unstored
      BY <3>3 DEF Unstored
    <3>5. Rows' = Rows /\ Kept' = Kept
      BY <3>1 DEF Rows, Kept
    <3> QED BY <2>1, <3>1, <3>3, <3>4, <3>5 DEF RowsInv
  <2>4. ASSUME NEW t \in Thread, Extend(t) PROVE RowsInv'
    BY <2>1, <2>4, ExtendRows
  <2>5. ASSUME NEW t \in Thread, WriteLine(t) PROVE RowsInv'
    BY <2>1, <2>5 DEF WriteLine, IInv, Reloaded, LockInv
  <2>6. ASSUME NEW t \in Thread, InsertRow(t) \/ WriteFails(t) PROVE RowsInv'
    BY <2>1, <2>6, StoreRows
  <2>7. CASE AttachPath
    BY <2>2, <2>7 DEF AttachPath
  <2>8. CASE Restart
    BY <2>8 DEF Restart
  <2>9. CASE UNCHANGED vars
    <3>1. Rows' = Rows /\ Kept' = Kept /\ Unstored' = Unstored
      BY <2>9 DEF vars, Rows, Kept, Unstored
    <3>2. UNCHANGED <<sqlite, records, attached, pc, pending, failed, restarted>>
      BY <2>9 DEF vars
    <3> QED BY <3>1, <3>2 DEF RowsInv
  <2> QED BY <2>3, <2>4, <2>5, <2>6, <2>7, <2>8, <2>9 DEF Next, AppendStep
<1>3. RowsInv => RowsFollowMemory
  BY DEF RowsInv, RowsFollowMemory, Rows, Kept, Unstored
<1> QED BY <1>1, <1>2, <1>3, Invariance, PTL DEF Spec

=============================================================================
