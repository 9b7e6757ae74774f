-------------------------- MODULE BlobStore_proofs --------------------------
(***************************************************************************)
(* The blob store keeps its types, the file of whatever is needed and exact *)
(* reference counts, for any number of contents, tasks and coroutines.      *)
(*                                                                          *)
(* Types first, under every step; then the invariant of a store that does   *)
(* not crash and adopts nothing past its TTL: what the steps leave alone,   *)
(* how the counts change, one lemma per action, and the theorems.           *)
(***************************************************************************)
EXTENDS BlobStore, FiniteSetTheorems, TLAPS

USE StoreAssumption

-----------------------------------------------------------------------------
(* Types.                                                                   *)

Storing == {"select", "write", "insert", "insert_commit"}

\* Whoever stores something knows what.
HasHash(c) == c.pc \in Storing \/ c.op \in {"transcribe", "prepare"} => c.hash \in Hashes

TInv == TypeOK /\ \A k \in Coros : HasHash(co[k])

\* The state of an idle coroutine, and one that goes on elsewhere.
LEMMA IdleOK ==
    /\ Idle \in Coroutine
    /\ Idle.pc = "idle" /\ Idle.op = "none" /\ Idle.hash = None /\ Idle.task = None
    /\ Idle.cols = {} /\ Idle.held = Nothing /\ Idle.todo = {} /\ Idle.doomed = {}
BY DEF Idle, Coroutine, PCs, Ops, Nothing, Holding

\* Only the program counter differs.
LEMMA AtOK ==
    ASSUME NEW c \in Coroutine, NEW pc \in PCs
    PROVE  /\ At(c, pc) \in Coroutine /\ At(c, pc).pc = pc
           /\ At(c, pc).op = c.op /\ At(c, pc).hash = c.hash /\ At(c, pc).task = c.task
           /\ At(c, pc).cols = c.cols /\ At(c, pc).held = c.held /\ At(c, pc).todo = c.todo
           /\ At(c, pc).doomed = c.doomed /\ At(c, pc).pinned = c.pinned
BY DEF At, Coroutine

\* The columns a coroutine may hold.
LEMMA HeldOK ==
    ASSUME NEW h \in Hashes \cup {None}, NEW g \in Hashes \cup {None}, NEW col \in Columns
    PROVE  /\ Nothing \in Holding
           /\ [Nothing EXCEPT ![col] = h] \in Holding
           /\ [[Nothing EXCEPT !["executable"] = g] EXCEPT !["input"] = h] \in Holding
BY DEF Nothing, Holding, Columns

\* The rows of blobs.
LEMMA BlobOK ==
    ASSUME NEW b \in Blob
    PROVE  /\ NoBlob \in Blob /\ NewBlob \in Blob
           /\ Referenced(b) \in Blob /\ Released(b) \in Blob
           /\ [b EXCEPT !.pin = TRUE] \in Blob /\ [b EXCEPT !.old = TRUE] \in Blob
           /\ \A n \in Nat : [b EXCEPT !.refs = n] \in Blob
<1>1. NoBlob \in Blob
  BY DEF NoBlob, Blob
<1>2. NewBlob \in Blob
  BY <1>1 DEF NewBlob, Blob
<1>3. /\ [b EXCEPT !.pin = TRUE] \in Blob /\ [b EXCEPT !.old = TRUE] \in Blob
      /\ \A n \in Nat : [b EXCEPT !.refs = n] \in Blob
  BY DEF Blob
<1>4. b.refs \in Nat /\ b.refs + 1 \in Nat /\ (b.refs > 0 => b.refs - 1 \in Nat)
  BY DEF Blob
<1>5. Referenced(b) \in Blob
  BY <1>3, <1>4 DEF Referenced
<1>6. Released(b) \in Blob
  BY <1>3, <1>4 DEF Released
<1> QED BY <1>1, <1>2, <1>3, <1>5, <1>6

\* A write to the row of a blob, or of a task, and to nothing else.
LEMMA SetBlobOK ==
    ASSUME db \in Table, NEW h, NEW b \in Blob, SetBlob(h, b)
    PROVE  /\ db' \in Table /\ db'.tasks = db.tasks
           /\ \A g \in Hashes : db'.blobs[g] = IF g = h THEN b ELSE db.blobs[g]
<1>1. db.blobs \in [Hashes -> Blob] /\ db.tasks \in [Tasks -> TaskRow]
  BY DEF Table
<1>2. /\ db'.blobs = [db.blobs EXCEPT ![h] = b] /\ db'.tasks = db.tasks
      /\ db' = [blobs |-> db'.blobs, tasks |-> db'.tasks]
  BY DEF SetBlob, Table
<1>3. db'.blobs \in [Hashes -> Blob]
  BY <1>1, <1>2
<1> QED BY <1>1, <1>2, <1>3 DEF Table

\* A write to the row of a task, and to nothing else.
LEMMA SetTaskOK ==
    ASSUME db \in Table, NEW t, NEW r \in TaskRow, SetTask(t, r)
    PROVE  /\ db' \in Table /\ db'.blobs = db.blobs
           /\ \A u \in Tasks : db'.tasks[u] = IF u = t THEN r ELSE db.tasks[u]
<1>1. db.blobs \in [Hashes -> Blob] /\ db.tasks \in [Tasks -> TaskRow]
  BY DEF Table
<1>2. /\ db'.tasks = [db.tasks EXCEPT ![t] = r] /\ db'.blobs = db.blobs
      /\ db' = [blobs |-> db'.blobs, tasks |-> db'.tasks]
  BY DEF SetTask, Table
<1>3. db'.tasks \in [Tasks -> TaskRow]
  BY <1>1, <1>2
<1> QED BY <1>1, <1>2, <1>3 DEF Table

\* The references of a table are finitely many.
LEMMA FiniteReferences ==
    /\ IsFiniteSet(Tasks \X Columns)
    /\ \A S \in SUBSET (Tasks \X Columns) : IsFiniteSet(S) /\ Cardinality(S) \in Nat
<1>1. IsFiniteSet(Columns)
  <2>1. Columns = ({"executable"} \cup {"input"}) \cup {"output"}
    BY DEF Columns
  <2>2. IsFiniteSet({"executable"} \cup {"input"})
    BY FS_Singleton, FS_Union
  <2> QED BY <2>1, <2>2, FS_Singleton, FS_Union
<1>2. IsFiniteSet(Tasks \X Columns)
  BY <1>1, FS_Product
<1> QED BY <1>2, FS_Subset, FS_CardinalityType

\* Start-up on a table.
LEMMA StartedOK ==
    ASSUME NEW table \in Table
    PROVE  /\ Started(table) \in Table /\ Started(table).tasks = table.tasks
           /\ Seeded(table) \in Table /\ Seeded(table).tasks = table.tasks
           /\ \A h \in Hashes : /\ Started(table).blobs[h] = Reconciled(Seeded(table))[h]
                                /\ h # Runner => Seeded(table).blobs[h] = table.blobs[h]
           /\ Seeded(table).blobs[Runner].known /\ Seeded(table).blobs[Runner].pin
<1> DEFINE first == IF table.blobs[Runner].known THEN table.blobs[Runner] ELSE NewBlob
           seeded == Seeded(table)
<1>1. table.blobs \in [Hashes -> Blob] /\ table.tasks \in [Tasks -> TaskRow]
  BY DEF Table
<1>2. first \in Blob /\ first.known
  <2>1. table.blobs[Runner] \in Blob
    BY <1>1
  <2>2. NewBlob \in Blob
    BY <2>1, BlobOK
  <2>3. NewBlob.known
    BY DEF NewBlob, NoBlob
  <2> QED BY <2>1, <2>2, <2>3
<1> HIDE DEF first
<1>3. [first EXCEPT !.pin = TRUE] \in Blob /\ [first EXCEPT !.pin = TRUE].known
      /\ [first EXCEPT !.pin = TRUE].pin
  BY <1>2 DEF Blob
<1>4. seeded = [table EXCEPT !.blobs[Runner] = [first EXCEPT !.pin = TRUE]]
  BY DEF Seeded, first
<1>5. /\ seeded.blobs = [table.blobs EXCEPT ![Runner] = [first EXCEPT !.pin = TRUE]]
      /\ seeded.tasks = table.tasks /\ seeded = [blobs |-> seeded.blobs, tasks |-> seeded.tasks]
  BY <1>4 DEF Table
<1>6. /\ seeded \in Table /\ seeded.blobs[Runner] = [first EXCEPT !.pin = TRUE]
      /\ \A h \in Hashes : h # Runner => seeded.blobs[h] = table.blobs[h]
  <2>1. seeded.blobs \in [Hashes -> Blob]
    BY <1>1, <1>3, <1>5
  <2> QED BY <1>1, <1>3, <1>5, <2>1 DEF Table
<1> HIDE DEF seeded
<1>7. Reconciled(seeded) \in [Hashes -> Blob]
  <2> SUFFICES ASSUME NEW h \in Hashes PROVE Reconciled(seeded)[h] \in Blob
    BY DEF Reconciled
  <2>1. seeded.blobs[h] \in Blob
    BY <1>6 DEF Table
  <2>2. Cardinality(References(seeded, h)) \in Nat
    BY FiniteReferences DEF References
  <2>3. Cardinality(References(seeded, h)) + (IF seeded.blobs[h].pin THEN 1 ELSE 0) \in Nat
    BY <2>2
  <2> QED BY <2>1, <2>3, BlobOK DEF Reconciled, Recounted
<1>8. Started(table) = [seeded EXCEPT !.blobs = Reconciled(seeded)]
  BY DEF Started, seeded
<1>9. /\ Started(table).blobs = Reconciled(seeded) /\ Started(table).tasks = seeded.tasks
      /\ Started(table) = [blobs |-> Reconciled(seeded), tasks |-> seeded.tasks]
  BY <1>6, <1>8 DEF Table
<1> QED BY <1>1, <1>3, <1>5, <1>6, <1>7, <1>9 DEF Table, seeded

\* One coroutine moves.
LEMMA MoveOK ==
    ASSUME TypeOK, NEW k \in Coros, NEW c \in Coroutine, Resume(k, c)
    PROVE  /\ co' \in [Coros -> Coroutine] /\ co'[k] = c
           /\ \A j \in Coros \ {k} : co'[j] = co[j]
BY DEF TypeOK, Resume

\* The states the actions put a coroutine in.
Begun(pc, op, h) == [At(Idle, pc) EXCEPT !.op = op, !.hash = h]

Made(op, t, h, held, cols) ==
    [At(Idle, "ref") EXCEPT !.op = op, !.task = t, !.hash = h, !.held = held, !.cols = cols]

Input(c) == [At(c, "ref") EXCEPT !.cols = {"input"},
                                 !.held = [Nothing EXCEPT !["input"] = c.hash]]

Done(c, col, p, q) == [c EXCEPT !.cols = @ \ {col}, !.pc = IF c.cols = {col} THEN p ELSE q]

Doomed(pinned) == [At(Idle, "gc_unlink") EXCEPT !.op = "gc", !.pinned = pinned,
                                                !.doomed = Collectable(pinned)]

\* The state of a coroutine that stores a blob or pins one.
LEMMA BegunOK ==
    ASSUME NEW pc \in PCs, NEW op \in Ops, NEW h \in Hashes
    PROVE  /\ Begun(pc, op, h) \in Coroutine /\ Begun(pc, op, h).pc = pc
           /\ Begun(pc, op, h).op = op /\ Begun(pc, op, h).hash = h
           /\ Begun(pc, op, h).task = None /\ Begun(pc, op, h).cols = {}
<1>1. /\ At(Idle, pc) \in Coroutine /\ At(Idle, pc).pc = pc
      /\ At(Idle, pc).task = None /\ At(Idle, pc).cols = {}
  BY IdleOK, AtOK
<1> QED BY <1>1 DEF Coroutine, Begun

\* The state of a coroutine that has created a task, or written its output.
LEMMA MadeOK ==
    ASSUME NEW op \in Ops, NEW t \in Tasks, NEW h \in Hashes, NEW held \in Holding,
           NEW cols \in SUBSET Columns
    PROVE  LET c == Made(op, t, h, held, cols)
           IN /\ c \in Coroutine /\ c.pc = "ref" /\ c.op = op /\ c.hash = h /\ c.task = t
              /\ c.cols = cols /\ c.held = held
<1>1. /\ At(Idle, "ref") \in Coroutine /\ At(Idle, "ref").pc = "ref"
  BY IdleOK, AtOK DEF PCs
<1> QED BY <1>1 DEF Coroutine, Made

\* The state of a prepare that has written the input.
LEMMA InputOK ==
    ASSUME NEW c \in Coroutine
    PROVE  LET d == Input(c)
           IN /\ d \in Coroutine /\ d.pc = "ref" /\ d.op = c.op /\ d.hash = c.hash
              /\ d.task = c.task /\ d.cols = {"input"}
              /\ d.held = [Nothing EXCEPT !["input"] = c.hash]
<1>1. /\ At(c, "ref") \in Coroutine /\ At(c, "ref").pc = "ref" /\ At(c, "ref").op = c.op
      /\ At(c, "ref").hash = c.hash /\ At(c, "ref").task = c.task
  BY AtOK DEF PCs
<1>2. c.hash \in Hashes \cup {None}
  BY DEF Coroutine
<1>3. [Nothing EXCEPT !["input"] = c.hash] \in Holding /\ {"input"} \in SUBSET Columns
  BY <1>2, HeldOK DEF Columns
<1> QED BY <1>1, <1>3 DEF Coroutine, Input

\* A coroutine that has done a column.
LEMMA DoneOK ==
    ASSUME NEW c \in Coroutine, NEW col \in Columns, NEW p \in PCs, NEW q \in PCs
    PROVE  LET d == Done(c, col, p, q)
           IN /\ d \in Coroutine /\ d.pc = (IF c.cols = {col} THEN p ELSE q)
              /\ d.op = c.op /\ d.hash = c.hash /\ d.task = c.task /\ d.held = c.held
              /\ d.cols = c.cols \ {col} /\ d.todo = c.todo
<1>1. c.cols \ {col} \in SUBSET Columns
  BY DEF Coroutine
<1> QED BY <1>1 DEF Coroutine, Done

\* The maintenance loop at its next task.
LEMMA NextTaskOK ==
    ASSUME db \in Table, NEW c \in Coroutine
    PROVE  /\ NextTask(c) \in Coroutine /\ NextTask(c).op = c.op /\ NextTask(c).hash = c.hash
           /\ c.todo = {} => NextTask(c) = At(c, "cleanup_commit")
           /\ c.todo # {} =>
                /\ NextTask(c).pc = "release" /\ NextTask(c).task \in c.todo
                /\ NextTask(c).todo = c.todo \ {NextTask(c).task}
                /\ NextTask(c).held = db.tasks[NextTask(c).task].hash
                /\ NextTask(c).cols = {col \in Columns : NextTask(c).held[col] # None}
<1>1. CASE c.todo = {}
  BY <1>1, AtOK DEF NextTask, PCs
<1>2. CASE c.todo # {}
  <2> DEFINE t == CHOOSE u \in c.todo : TRUE
             held == db.tasks[t].hash
             cols == {col \in Columns : held[col] # None}
  <2>1. t \in c.todo /\ t \in Tasks
    BY <1>2 DEF Coroutine
  <2>2. held \in Holding /\ cols \in SUBSET Columns /\ c.todo \ {t} \in SUBSET Tasks
    BY <2>1 DEF Table, TaskRow, Coroutine
  <2>3. NextTask(c) = [c EXCEPT !.pc = "release", !.task = t, !.todo = c.todo \ {t},
                                !.held = held, !.cols = cols]
    BY <1>2 DEF NextTask
  <2>4. "release" \in PCs
    BY DEF PCs
  <2> HIDE DEF t, held, cols
  <2>5. /\ NextTask(c) \in Coroutine /\ NextTask(c).op = c.op /\ NextTask(c).hash = c.hash
        /\ NextTask(c).pc = "release" /\ NextTask(c).task = t
        /\ NextTask(c).todo = c.todo \ {t}
        /\ NextTask(c).held = held /\ NextTask(c).cols = cols
    BY <2>1, <2>2, <2>3, <2>4 DEF Coroutine
  <2> QED BY <1>2, <2>1, <2>5 DEF held, cols
<1> QED BY <1>1, <1>2

\* The GC loop at its next rows.
LEMMA DoomOK ==
    ASSUME NEW pinned \in BOOLEAN
    PROVE  LET c == Doomed(pinned)
           IN /\ c \in Coroutine /\ c.pc = "gc_unlink" /\ c.op = "gc" /\ c.hash = None
              /\ c.task = None /\ c.doomed = Collectable(pinned) /\ c.pinned = pinned
<1>1. /\ At(Idle, "gc_unlink") \in Coroutine /\ At(Idle, "gc_unlink").pc = "gc_unlink"
      /\ At(Idle, "gc_unlink").hash = None /\ At(Idle, "gc_unlink").task = None
  BY IdleOK, AtOK DEF PCs
<1>2. Collectable(pinned) \in SUBSET Hashes /\ "gc" \in Ops
  BY DEF Collectable, Ops
<1> QED BY <1>1, <1>2 DEF Coroutine, Doomed

-----------------------------------------------------------------------------
(* Every step keeps the types.                                              *)

\* A coroutine moves, the tables and counters stay within their types.
LEMMA Typed ==
    ASSUME TInv, NEW k \in Coros, NEW c \in Coroutine, Resume(k, c), HasHash(c),
           db' \in Table, disk' \in Table, file' \subseteq Hashes, told' \subseteq Hashes,
           uploads' \in 0..MaxUploads, crashes' = crashes,
           submits' \in [Tasks -> 0..MaxSubmits]
    PROVE  TInv'
<1>1. /\ co' \in [Coros -> Coroutine] /\ co'[k] = c
      /\ \A j \in Coros \ {k} : co'[j] = co[j]
  BY MoveOK DEF TInv
<1>2. TypeOK'
  BY <1>1 DEF TInv, TypeOK
<1>3. \A j \in Coros : HasHash(co'[j])
  BY <1>1 DEF TInv
<1> QED BY <1>2, <1>3 DEF TInv, HasHash

\* The parts of the state.
LEMMA Parts ==
    ASSUME TypeOK
    PROVE  /\ db \in Table /\ disk \in Table /\ file \subseteq Hashes /\ told \subseteq Hashes
           /\ uploads \in 0..MaxUploads /\ submits \in [Tasks -> 0..MaxSubmits]
           /\ db.blobs \in [Hashes -> Blob] /\ db.tasks \in [Tasks -> TaskRow]
           /\ \A k \in Coros : co[k] \in Coroutine
           /\ Maint \in Coros /\ Gc \in Coros
BY DEF TypeOK, Table

\* A coroutine at rest needs no hash.
LEMMA RestOK == HasHash(Idle)
BY IdleOK DEF HasHash, Storing

\* store_blob.
LEMMA StoreType ==
    ASSUME TInv, NEW k \in Coros,
           StoreSelect(k) \/ StoreWrite(k) \/ StoreInsert(k) \/ StoreCommit(k)
    PROVE  TInv'
<1> DEFINE c == co[k]
<1>1. c \in Coroutine /\ HasHash(c) /\ TypeOK
  BY DEF TInv, TypeOK
<1>2. c.pc \in Storing /\ c.hash \in Hashes
  BY <1>1 DEF StoreSelect, StoreWrite, StoreInsert, StoreCommit, HasHash, Storing
<1>3. \A p \in PCs : At(c, p) \in Coroutine /\ HasHash(At(c, p))
  BY <1>1, <1>2, AtOK DEF HasHash
<1>4. Stored(c) \in Coroutine /\ HasHash(Stored(c))
  BY <1>3, RestOK, IdleOK DEF Stored, PCs
<1>5. told \cup {c.hash} \subseteq Hashes /\ file \cup {c.hash} \subseteq Hashes
  BY <1>1, <1>2, Parts
<1> HIDE DEF c
<1>6. CASE StoreSelect(k)
  <2>1. /\ UNCHANGED <<db, disk, uploads, submits, crashes>>
        /\ told' \in {told, told \cup {c.hash}} /\ file' \in {file, file \cup {c.hash}}
        /\ Resume(k, Stored(c)) \/ Resume(k, At(c, "write")) \/ Resume(k, At(c, "insert"))
    BY <1>6 DEF StoreSelect, Answer, c
  <2>2. "write" \in PCs /\ "insert" \in PCs
    BY DEF PCs
  <2>3. told' \subseteq Hashes /\ file' \subseteq Hashes
    BY <1>1, <1>5, <2>1, Parts
  <2> QED BY <1>1, <1>3, <1>4, <2>1, <2>2, <2>3, Typed, Parts
<1>7. CASE StoreWrite(k)
  <2>1. /\ UNCHANGED <<db, disk, told, uploads, submits, crashes>>
        /\ file' = file \cup {c.hash} /\ Resume(k, At(c, "insert")) /\ "insert" \in PCs
    BY <1>7 DEF StoreWrite, c, PCs
  <2> QED BY <1>1, <1>3, <1>5, <2>1, Typed, Parts
<1>8. CASE StoreInsert(k)
  <2>1. /\ UNCHANGED <<disk, file, told, uploads, submits, crashes>>
        /\ \/ db' = db /\ (Resume(k, At(c, "select")) \/ Resume(k, Idle))
           \/ SetBlob(c.hash, NewBlob) /\ Resume(k, At(c, "insert_commit"))
    BY <1>8 DEF StoreInsert, c
  <2>2. "select" \in PCs /\ "insert_commit" \in PCs
    BY DEF PCs
  <2>3. db \in Table /\ NewBlob \in Blob
    BY <1>1, <1>2, Parts, BlobOK
  <2>4. db' \in Table
    BY <2>1, <2>3, SetBlobOK
  <2> QED BY <1>1, <1>3, <2>1, <2>2, <2>4, Typed, Parts, RestOK, IdleOK
<1>9. CASE StoreCommit(k)
  <2>1. /\ UNCHANGED <<db, file, uploads, submits, crashes>> /\ disk' = db
        /\ told' \in {told, told \cup {c.hash}} /\ Resume(k, Stored(c))
    BY <1>9 DEF StoreCommit, Commit, Answer, c
  <2>2. told' \subseteq Hashes
    BY <1>1, <1>5, <2>1, Parts
  <2> QED BY <1>1, <1>4, <2>1, <2>2, Typed, Parts
<1> QED BY <1>6, <1>7, <1>8, <1>9

\* Requests that have a task created, or begin to store or to pin a blob.
LEMMA RequestType ==
    ASSUME TInv, NEW k \in Coros, Request(k)
    PROVE  TInv'
<1>0. TypeOK
  BY DEF TInv
<1>1. PICK h \in Hashes : \/ Upload(k, h) \/ Pin(k, h)
                          \/ \E t \in Tasks : Create(k, t, h) \/ Transcribe(k, t, h) \/ Submit(k, t, h)
  BY DEF Request
<1>2. /\ "select" \in PCs /\ "pin" \in PCs
      /\ {"upload", "pin", "create", "transcribe", "submit"} \subseteq Ops
  BY DEF PCs, Ops
<1>3. CASE Upload(k, h)
  <2> DEFINE c == Begun("select", "upload", h)
  <2>1. /\ Resume(k, c) /\ uploads < MaxUploads /\ uploads' = uploads + 1
        /\ UNCHANGED <<db, disk, file, told, submits, crashes>>
    BY <1>3 DEF Upload, Begun
  <2>2. c \in Coroutine /\ c.hash = h
    BY <1>2, BegunOK
  <2> HIDE DEF c
  <2>3. uploads' \in 0..MaxUploads
    BY <1>0, <2>1, Parts
  <2> QED BY <1>0, <2>1, <2>2, <2>3, Typed, Parts DEF HasHash
<1>4. CASE Pin(k, h)
  <2> DEFINE c == Begun("pin", "pin", h)
  <2>1. /\ Resume(k, c) /\ UNCHANGED <<db, disk, file, told, uploads, submits, crashes>>
    BY <1>4 DEF Pin, Begun
  <2>2. c \in Coroutine /\ c.hash = h
    BY <1>2, BegunOK
  <2> HIDE DEF c
  <2> QED BY <1>0, <2>1, <2>2, Typed, Parts DEF HasHash
<1>5. ASSUME NEW t \in Tasks, NEW op \in Ops, NEW input \in Hashes \cup {None},
             CreateRow(k, t, op, h, input)
      PROVE  TInv'
  <2> DEFINE held == [Nothing EXCEPT !["executable"] = Runner, !["input"] = input]
             cols == {col \in Columns : held[col] # None}
             c == Made(op, t, h, held, cols)
             r == [phase |-> "live", hash |-> held]
  <2>1. /\ Resume(k, c) /\ SetTask(t, r)
        /\ UNCHANGED <<disk, file, told, uploads, submits, crashes>>
    BY <1>5 DEF CreateRow, Made
  <2>2. held \in Holding /\ cols \in SUBSET Columns
    <3>1. Runner \in Hashes \cup {None}
      OBVIOUS
    <3>2. "executable" \in Columns
      BY DEF Columns
    <3>3. held \in Holding
      BY <3>1, <3>2, HeldOK
    <3> QED BY <3>3
  <2> HIDE DEF held, cols
  <2>3. c \in Coroutine /\ c.hash = h
    BY <2>2, MadeOK
  <2>4. r \in TaskRow
    BY <2>2 DEF TaskRow
  <2> HIDE DEF c, r
  <2>5. db' \in Table
    BY <1>0, <2>1, <2>4, SetTaskOK, Parts
  <2> QED BY <1>0, <2>1, <2>3, <2>5, Typed, Parts DEF HasHash
<1>6. ASSUME NEW t \in Tasks, Submit(k, t, h)
      PROVE  TInv'
  <2> DEFINE held == [Nothing EXCEPT !["output"] = h]
             c == Made("submit", t, h, held, {"output"})
             r == [db.tasks[t] EXCEPT !.hash["output"] = h]
  <2>1. /\ Resume(k, c) /\ SetTask(t, r)
        /\ submits[t] < MaxSubmits /\ submits' = [submits EXCEPT ![t] = @ + 1]
        /\ UNCHANGED <<disk, file, told, uploads, crashes>>
    BY <1>6 DEF Submit, Made
  <2>2. c \in Coroutine /\ c.hash = h
    <3>1. held \in Holding /\ {"output"} \in SUBSET Columns
      BY HeldOK DEF Columns
    <3> HIDE DEF held
    <3> QED BY <1>2, <3>1, MadeOK
  <2>3. r \in TaskRow
    BY <1>0, Parts DEF TaskRow, Holding
  <2> HIDE DEF c, r
  <2>4. db' \in Table
    BY <1>0, <2>1, <2>3, SetTaskOK, Parts
  <2>5. submits' \in [Tasks -> 0..MaxSubmits]
    BY <1>0, <2>1, Parts
  <2> QED BY <1>0, <2>1, <2>2, <2>4, <2>5, Typed, Parts DEF HasHash
<1> QED BY <1>1, <1>2, <1>3, <1>4, <1>5, <1>6 DEF Create, Transcribe

\* References, verdicts and releases.
LEMMA ReferenceType ==
    ASSUME TInv, NEW k \in Coros,
           SetGet(k) \/ SetInput(k) \/ TakeReference(k) \/ ReferenceCommit(k) \/ PinUpdate(k)
             \/ Release(k) \/ DeleteTask(k) \/ CleanupCommit(k) \/ \E t \in Tasks : Finish(k, t)
    PROVE  TInv'
<1> DEFINE c == co[k]
<1>1. c \in Coroutine /\ HasHash(c) /\ TypeOK
  BY DEF TInv, TypeOK
<1> HIDE DEF c
<1>2. \A p \in PCs \ Storing : At(c, p) \in Coroutine /\ HasHash(At(c, p))
  BY <1>1, AtOK DEF HasHash
<1>3. {"set_input", "ref", "commit", "cleanup_commit", "delete", "release"} \subseteq PCs \ Storing
  BY DEF PCs, Storing
<1>4. \A h \in Hashes : /\ db.blobs[h] \in Blob /\ Referenced(db.blobs[h]) \in Blob
                        /\ Released(db.blobs[h]) \in Blob
                        /\ [Referenced(db.blobs[h]) EXCEPT !.pin = TRUE] \in Blob
  BY <1>1, Parts, BlobOK
<1>5. CASE SetGet(k)
  <2>1. /\ Resume(k, At(c, "set_input")) \/ Resume(k, Idle)
        /\ UNCHANGED <<db, disk, file, told, uploads, submits, crashes>>
    BY <1>5 DEF SetGet, c
  <2> QED BY <1>1, <1>2, <1>3, <2>1, Typed, Parts, RestOK, IdleOK
<1>6. CASE SetInput(k)
  <2> DEFINE d == Input(c)
             r == [db.tasks[c.task] EXCEPT !.hash["input"] = c.hash]
  <2>1. /\ Resume(k, d) /\ SetTask(c.task, r)
        /\ UNCHANGED <<disk, file, told, uploads, submits, crashes>>
    BY <1>6 DEF SetInput, Input, c
  <2>2. d \in Coroutine /\ HasHash(d)
    BY <1>1, <1>3, InputOK DEF HasHash
  <2> HIDE DEF d
  <2>3. db' \in Table
    <3>1. CASE c.task \in Tasks
      <4>1. c.hash \in Hashes \cup {None}
        BY <1>1 DEF Coroutine
      <4>2. r \in TaskRow
        BY <1>1, <3>1, <4>1, Parts DEF TaskRow, Holding
      <4> HIDE DEF r
      <4> QED BY <1>1, <2>1, <4>2, SetTaskOK, Parts
    <3>2. CASE c.task \notin Tasks
      <4>1. db' = [db EXCEPT !.tasks[c.task] = r]
        BY <2>1 DEF SetTask
      <4> HIDE DEF r
      <4> QED BY <1>1, <3>2, <4>1, Parts DEF Table
    <3> QED BY <3>1, <3>2
  <2> QED BY <1>1, <2>1, <2>2, <2>3, Typed, Parts
<1>7. ASSUME NEW col \in c.cols, NEW p \in {"commit", "delete"}, NEW q \in {"ref", "release"},
             NEW b, SetBlob(c.held[col], b), c.held[col] \in Hashes => b \in Blob,
             Resume(k, Done(c, col, p, q)),
             UNCHANGED <<disk, file, told, uploads, submits, crashes>>
      PROVE  TInv'
  <2> DEFINE d == Done(c, col, p, q)
  <2>1. col \in Columns /\ p \in PCs \ Storing /\ q \in PCs \ Storing
    BY <1>1, <1>3 DEF Coroutine
  <2>2. d \in Coroutine /\ HasHash(d)
    <3>2. /\ d \in Coroutine /\ d.pc \in PCs \ Storing
          /\ d.op = c.op /\ d.hash = c.hash
      BY <1>1, <2>1, DoneOK
    <3> QED BY <1>1, <3>2 DEF HasHash
  <2>3. db' \in Table
    <3>1. CASE c.held[col] \in Hashes
      BY <1>1, <1>7, <3>1, SetBlobOK, Parts
    <3>2. CASE c.held[col] \notin Hashes
      BY <1>1, <1>7, <3>2, Parts DEF SetBlob, Table
    <3> QED BY <3>1, <3>2
  <2> HIDE DEF d
  <2>4. Resume(k, d)
    BY <1>7 DEF d
  <2> QED BY <1>1, <1>7, <2>2, <2>3, <2>4, Typed, Parts
<1>8. CASE TakeReference(k)
  <2>1. PICK col \in c.cols :
           /\ IF c.op = "submit" /\ ~db.blobs[c.hash].known
              THEN db' = disk /\ Resume(k, Idle)
              ELSE /\ SetBlob(c.held[col], Referenced(db.blobs[c.held[col]]))
                   /\ Resume(k, Done(c, col, "commit", "ref"))
           /\ UNCHANGED <<disk, file, told, uploads, submits, crashes>>
    BY <1>8 DEF TakeReference, Done, c
  <2>2. CASE db' = disk /\ Resume(k, Idle)
    BY <1>1, <2>1, <2>2, Typed, Parts, RestOK, IdleOK
  <2>3. CASE ~(db' = disk /\ Resume(k, Idle))
    BY <1>4, <1>7, <2>1, <2>3
  <2> QED BY <2>2, <2>3
<1>9. CASE ReferenceCommit(k)
  <2> DEFINE d == [At(c, "select") EXCEPT !.op = "prepare"]
  <2>1. /\ \/ c.op = "transcribe" /\ Resume(k, d)
           \/ Resume(k, Idle)
        /\ disk' = db /\ UNCHANGED <<db, file, told, uploads, submits, crashes>>
    BY <1>9 DEF ReferenceCommit, Commit, c
  <2>2. d \in Coroutine /\ d.hash = c.hash
    <3>1. At(c, "select") \in Coroutine /\ At(c, "select").hash = c.hash
      BY <1>1, AtOK DEF PCs
    <3>2. "prepare" \in Ops
      BY DEF Ops
    <3> QED BY <3>1, <3>2 DEF Coroutine
  <2> HIDE DEF d
  <2>3. c.op = "transcribe" => HasHash(d)
    BY <1>1, <2>2 DEF HasHash
  <2> QED BY <1>1, <2>1, <2>2, <2>3, Typed, Parts, RestOK, IdleOK
<1>10. CASE PinUpdate(k)
  <2>1. /\ \/ db' = db
           \/ SetBlob(c.hash, IF db.blobs[c.hash].known
                              THEN [Referenced(db.blobs[c.hash]) EXCEPT !.pin = TRUE]
                              ELSE db.blobs[c.hash])
        /\ Resume(k, At(c, "commit")) /\ UNCHANGED <<disk, file, told, uploads, submits, crashes>>
    BY <1>10 DEF PinUpdate, c
  <2>2. db' \in Table
    <3>1. CASE c.hash \in Hashes
      BY <1>1, <1>4, <2>1, <3>1, SetBlobOK, Parts
    <3>2. CASE c.hash \notin Hashes
      BY <1>1, <2>1, <3>2, Parts DEF SetBlob, Table
    <3> QED BY <3>1, <3>2
  <2> QED BY <1>1, <1>2, <1>3, <2>1, <2>2, Typed, Parts
<1>11. CASE Release(k)
  BY <1>4, <1>7, <1>11 DEF Release, Done, c
<1>12. CASE DeleteTask(k)
  <2>1. /\ SetTask(c.task, [phase |-> "gone", hash |-> Nothing])
        /\ Resume(k, NextTask(c)) /\ UNCHANGED <<disk, file, told, uploads, submits, crashes>>
    BY <1>12 DEF DeleteTask, c
  <2>2. NextTask(c) \in Coroutine /\ HasHash(NextTask(c))
    <3>1. db \in Table
      BY <1>1, Parts
    <3>2. /\ NextTask(c) \in Coroutine /\ NextTask(c).op = c.op /\ NextTask(c).hash = c.hash
          /\ NextTask(c).pc \in {"cleanup_commit", "release"}
      <4>1. CASE c.todo = {}
        <5>1. "cleanup_commit" \in PCs
          BY DEF PCs
        <5> QED BY <1>1, <3>1, <4>1, <5>1, NextTaskOK, AtOK
      <4>2. CASE c.todo # {}
        BY <1>1, <3>1, <4>2, NextTaskOK
      <4> QED BY <4>1, <4>2
    <3> QED BY <1>1, <1>3, <3>2 DEF HasHash
  <2>3. [phase |-> "gone", hash |-> Nothing] \in TaskRow
    BY DEF TaskRow, Nothing, Holding
  <2>4. db' \in Table
    BY <1>1, <2>1, <2>3, SetTaskOK, Parts
  <2> QED BY <1>1, <2>1, <2>2, <2>4, Typed, Parts
<1>13. CASE CleanupCommit(k)
  <2>1. disk' = db /\ Resume(k, Idle) /\ UNCHANGED <<db, file, told, uploads, submits, crashes>>
    BY <1>13 DEF CleanupCommit, Commit
  <2> QED BY <1>1, <2>1, Typed, Parts, RestOK, IdleOK
<1>14. ASSUME NEW t \in Tasks, Finish(k, t) PROVE TInv'
  <2> DEFINE d == [At(Idle, "commit") EXCEPT !.op = "finish", !.task = t]
             r == [db.tasks[t] EXCEPT !.phase = "finished"]
  <2>1. SetTask(t, r) /\ Resume(k, d) /\ UNCHANGED <<disk, file, told, uploads, submits, crashes>>
    BY <1>14 DEF Finish
  <2>2. d \in Coroutine /\ HasHash(d)
    <3>1. At(Idle, "commit") \in Coroutine /\ At(Idle, "commit").pc = "commit"
      BY IdleOK, AtOK DEF PCs
    <3>2. "finish" \in Ops
      BY DEF Ops
    <3>3. d \in Coroutine /\ d.pc = "commit" /\ d.op = "finish"
      BY <3>1, <3>2 DEF Coroutine
    <3> HIDE DEF d
    <3> QED BY <3>3 DEF HasHash, Storing
  <2>3. r \in TaskRow
    BY <1>1, Parts DEF TaskRow
  <2> HIDE DEF d, r
  <2>4. db' \in Table
    BY <1>1, <2>1, <2>3, SetTaskOK, Parts
  <2> QED BY <1>1, <2>1, <2>2, <2>4, Typed, Parts
<1> QED BY <1>5, <1>6, <1>8, <1>9, <1>10, <1>11, <1>12, <1>13, <1>14

\* The collection, the cleanup's SELECT, time and restarts.
LEMMA CollectType ==
    ASSUME TInv, Collect \/ CleanupSelect
    PROVE  TInv'
<1>0. TypeOK /\ Gc \in Coros /\ Maint \in Coros /\ co[Gc] \in Coroutine /\ HasHash(co[Gc])
  BY Parts DEF TInv
<1> DEFINE c == co[Gc]
<1> HIDE DEF c
<1>1. /\ c \in Coroutine /\ HasHash(c) /\ c.doomed \subseteq Hashes
      /\ \A p \in PCs \ Storing : At(c, p) \in Coroutine /\ HasHash(At(c, p))
  <2>1. c \in Coroutine /\ HasHash(c) /\ c.doomed \subseteq Hashes
    BY <1>0 DEF c, Coroutine
  <2> QED BY <2>1, AtOK DEF HasHash
<1>2. ASSUME NEW pinned \in BOOLEAN, Doom(pinned),
             UNCHANGED <<db, disk, file, told, uploads, submits, crashes>>
      PROVE  TInv'
  <2> DEFINE d == Doomed(pinned)
  <2>1. Resume(Gc, d)
    BY <1>2 DEF Doom, Doomed
  <2>3. d \in Coroutine /\ d.pc = "gc_unlink" /\ d.op = "gc"
    BY DoomOK
  <2> HIDE DEF d
  <2>4. HasHash(d)
    BY <2>3 DEF HasHash, Storing
  <2> QED BY <1>0, <1>2, <2>1, <2>3, <2>4, Typed, Parts
<1>3. CASE GcStart
  <2>1. TRUE \in BOOLEAN
    OBVIOUS
  <2> QED BY <1>2, <1>3, <2>1 DEF GcStart
<1>4. CASE GcSelect
  <2>1. FALSE \in BOOLEAN
    OBVIOUS
  <2> QED BY <1>2, <1>4, <2>1 DEF GcSelect
<1>5. {"gc_delete", "gc_select", "gc_commit"} \subseteq PCs \ Storing
  BY DEF PCs, Storing
<1>6. CASE GcUnlink
  <2>1. /\ Resume(Gc, At(c, "gc_delete")) /\ UNCHANGED <<db, disk, uploads, submits, crashes>>
        /\ file' = file \ c.doomed /\ told' = told \ c.doomed
    BY <1>6 DEF GcUnlink, c
  <2>2. file' \subseteq Hashes /\ told' \subseteq Hashes
    BY <1>0, <2>1, Parts
  <2> QED BY <1>0, <1>1, <1>5, <2>1, <2>2, Typed, Parts
<1>7. CASE GcDelete
  <2> DEFINE gone == Collectable(c.pinned)
             rows == [h \in Hashes |-> IF h \in gone THEN NoBlob ELSE db.blobs[h]]
  <2>1. /\ Resume(Gc, At(c, "gc_select")) \/ Resume(Gc, At(c, "gc_commit"))
        /\ UNCHANGED <<disk, file, uploads, submits, crashes>>
        /\ told' = told \ gone /\ db' = [db EXCEPT !.blobs = rows]
    BY <1>7 DEF GcDelete, c
  <2>2. rows \in [Hashes -> Blob]
    <3> SUFFICES ASSUME NEW h \in Hashes PROVE rows[h] \in Blob
      OBVIOUS
    <3> QED BY <1>0, Parts, BlobOK
  <2> HIDE DEF rows, gone
  <2>3. db' \in Table /\ told' \subseteq Hashes
    BY <1>0, <2>1, <2>2, Parts DEF Table
  <2> QED BY <1>0, <1>1, <1>5, <2>1, <2>3, Typed, Parts
<1>8. CASE GcCommit
  BY <1>0, <1>8, Typed, Parts, RestOK, IdleOK DEF GcCommit, Commit
<1>9. CASE CleanupSelect
  <2> DEFINE old == {t \in Tasks : db.tasks[t].phase = "expired"}
             d == [Idle EXCEPT !.op = "cleanup", !.todo = old]
  <2>1. Resume(Maint, NextTask(d)) /\ UNCHANGED <<db, disk, file, told, uploads, submits, crashes>>
    BY <1>9 DEF CleanupSelect
  <2>2. d \in Coroutine /\ d.op = "cleanup"
    <3>1. old \in SUBSET Tasks /\ "cleanup" \in Ops
      BY DEF Ops
    <3> HIDE DEF old
    <3> QED BY <3>1, IdleOK DEF Coroutine
  <2> HIDE DEF d
  <2>3. /\ NextTask(d) \in Coroutine /\ NextTask(d).op = "cleanup"
        /\ NextTask(d).pc \in {"cleanup_commit", "release"}
    <3>1. db \in Table /\ "cleanup_commit" \in PCs
      BY <1>0, Parts DEF PCs
    <3>2. CASE d.todo = {}
      BY <2>2, <3>1, <3>2, NextTaskOK, AtOK
    <3>3. CASE d.todo # {}
      BY <2>2, <3>1, <3>3, NextTaskOK
    <3> QED BY <3>2, <3>3
  <2>4. HasHash(NextTask(d))
    BY <2>3 DEF HasHash, Storing
  <2> QED BY <1>0, <2>1, <2>3, <2>4, Typed, Parts
<1> QED BY <1>3, <1>4, <1>6, <1>7, <1>8, <1>9 DEF Collect

\* Time and restarts.
LEMMA TimeType ==
    ASSUME TInv, (\E t \in Tasks : Expire(t)) \/ (\E h \in Hashes : Age(h)) \/ Restart
    PROVE  TInv'
<1>0. TypeOK /\ db \in Table /\ disk \in Table
  BY Parts DEF TInv
<1>1. ASSUME db' \in Table, disk' \in Table, UNCHANGED <<file, co, told, uploads, submits, crashes>>
      PROVE  TInv'
  <2>1. TypeOK'
    BY <1>0, <1>1 DEF TypeOK
  <2> QED BY <1>1, <2>1 DEF TInv, HasHash
<1>2. ASSUME NEW t \in Tasks, Expire(t) PROVE TInv'
  <2> DEFINE r == [db.tasks[t] EXCEPT !.phase = "expired"]
  <2>1. SetTask(t, r) /\ disk' = [disk EXCEPT !.tasks[t].phase = "expired"]
        /\ UNCHANGED <<file, co, told, uploads, submits, crashes>>
    BY <1>2 DEF Expire
  <2>2. r \in TaskRow /\ disk' \in Table
    BY <1>0, <2>1 DEF Table, TaskRow
  <2> HIDE DEF r
  <2> QED BY <1>0, <1>1, <2>1, <2>2, SetTaskOK
<1>3. ASSUME NEW h \in Hashes, Age(h) PROVE TInv'
  <2> DEFINE b == [db.blobs[h] EXCEPT !.old = TRUE]
             d == [disk.blobs[h] EXCEPT !.old = @ \/ disk.blobs[h].known]
  <2>1. SetBlob(h, b) /\ disk' = [disk EXCEPT !.blobs[h] = d]
        /\ UNCHANGED <<file, co, told, uploads, submits, crashes>>
    BY <1>0, <1>3 DEF Age, Table
  <2>2. b \in Blob
    BY <1>0, Parts, BlobOK
  <2>3. d \in Blob
    <3>1. disk.blobs[h] \in Blob
      BY <1>0 DEF Table
    <3> DEFINE e == disk.blobs[h]
               v == e.old \/ e.known
    <3>2. v \in BOOLEAN /\ e \in Blob /\ d = [e EXCEPT !.old = v]
      BY <3>1 DEF Blob
    <3> HIDE DEF e, v, d
    <3> QED BY <3>2 DEF Blob
  <2> HIDE DEF b, d
  <2>4. disk' \in Table
    BY <1>0, <2>1, <2>3 DEF Table
  <2> QED BY <1>0, <1>1, <2>1, <2>2, <2>4, SetBlobOK
<1>4. CASE Restart
  <2>1. /\ crashes < MaxCrashes /\ crashes' = crashes + 1
        /\ disk' = Started(disk) /\ db' = Started(disk) /\ UNCHANGED <<told, uploads, submits>>
        /\ file' \in {file, file \cup {Runner}} /\ co' = [k \in Coros |-> Idle]
    BY <1>4 DEF Restart, SeededFiles
  <2>2. Started(disk) \in Table
    BY <1>0, StartedOK
  <2>3. crashes' \in 0..MaxCrashes
    BY <1>0, <2>1 DEF TypeOK
  <2>4. co' \in [Coros -> Coroutine] /\ \A k \in Coros : HasHash(co'[k])
    BY <2>1, IdleOK, RestOK
  <2>5. file' \subseteq Hashes
    BY <1>0, <2>1 DEF TypeOK
  <2>6. TypeOK'
    BY <1>0, <2>1, <2>2, <2>3, <2>4, <2>5 DEF TypeOK
  <2> QED BY <2>4, <2>6 DEF TInv, HasHash
<1> QED BY <1>2, <1>3, <1>4

\* Start-up on nothing.
LEMMA InitType == Init => TInv
<1> SUFFICES ASSUME Init PROVE TInv
  OBVIOUS
<1> DEFINE empty == [blobs |-> [h \in Hashes |-> NoBlob], tasks |-> [t \in Tasks |-> NoTask]]
<1>1. empty \in Table
  <2>1. NoBlob \in Blob
    BY DEF NoBlob, Blob
  <2>2. NoTask \in TaskRow
    BY DEF NoTask, TaskRow, Nothing, Holding
  <2> QED BY <2>1, <2>2 DEF Table
<1>2. db = Started(empty) /\ disk = db
  BY DEF Init
<1> HIDE DEF empty
<1>3. db \in Table
  BY <1>1, <1>2, StartedOK
<1>4. co \in [Coros -> Coroutine] /\ \A k \in Coros : HasHash(co[k])
  BY IdleOK, RestOK DEF Init
<1>5. TypeOK
  BY <1>2, <1>3, <1>4 DEF Init, TypeOK
<1> QED BY <1>4, <1>5 DEF TInv

\* Every step keeps the types.
LEMMA NextType == TInv /\ [Next]_vars => TInv'
<1> SUFFICES ASSUME TInv, [Next]_vars PROVE TInv'
  OBVIOUS
<1>1. CASE UNCHANGED vars
  BY <1>1 DEF TInv, TypeOK, HasHash, vars
<1>2. ASSUME NEW k \in Coros, Step(k) PROVE TInv'
  BY <1>2, StoreType, ReferenceType DEF Step
<1>3. ASSUME NEW k \in Coros, Request(k) PROVE TInv'
  BY <1>3, RequestType
<1>4. ASSUME NEW k \in Coros, \E t \in Tasks : Finish(k, t) PROVE TInv'
  BY <1>4, ReferenceType
<1> QED BY <1>1, <1>2, <1>3, <1>4, CollectType, TimeType DEF Next

\* The tables, the coroutines and the counters keep their types, whatever is
\* uploaded, submitted, collected or lost to a crash.
THEOREM TypeCorrect == Spec => []TypeOK
<1>1. TInv => TypeOK
  BY DEF TInv
<1> QED BY <1>1, InitType, NextType, PTL DEF Spec

-----------------------------------------------------------------------------
(* The inductive invariant, when nothing crashes and nothing old is adopted. *)

\* No restart, and no blob past its TTL is stored or named again.
Calm == MaxCrashes = 0 /\ AdoptOld = FALSE

\* A task's result is accepted once at most.
Once == MaxSubmits <= 1

Handlers == Coros \ {Maint, Gc}
Makers   == {"create", "transcribe", "prepare"}
AtWork   == {"live", "finished"}

\* Which request gets where.
OpOK(k) ==
    /\ co[k].pc \in Storing \cup {"idle", "set_get", "set_input", "ref", "pin", "commit"}
    /\ co[k].pc = "idle" => co[k] = Idle
    /\ co[k].pc \in Storing => co[k].op \in {"upload", "prepare"}
    /\ co[k].pc \in {"set_get", "set_input"} => co[k].op = "prepare"
    /\ co[k].pc = "ref" => co[k].op \in Makers \cup {"submit"}
    /\ co[k].pc = "pin" => co[k].op = "pin"
    /\ co[k].pc = "commit" => co[k].op \in Makers \cup {"submit", "pin", "finish"}

\* It needs the row of its blob.
NeedsRow(k) ==
    \/ co[k].pc \in {"insert_commit", "set_get", "set_input", "pin"}
    \/ co[k].op \in {"create", "submit"}
    \/ co[k].pc = "ref" /\ co[k].op = "prepare"

\* The blob it works with is within its TTL.
HashOK(k) ==
    /\ co[k].op \in {"upload", "create", "transcribe", "prepare", "submit", "pin"} =>
         co[k].hash \in Hashes
    /\ co[k].hash # None => ~db.blobs[co[k].hash].old
    /\ co[k].pc = "insert" => co[k].hash \in file
    /\ NeedsRow(k) => db.blobs[co[k].hash].known

\* The task it works with is within its retention period.
TaskOK(k) ==
    /\ co[k].op \in Makers \cup {"submit", "finish"} =>
         co[k].task \in Tasks /\ db.tasks[co[k].task].phase \in AtWork
    /\ co[k].op \in {"upload", "pin"} => co[k].task = None
    /\ co[k].op = "submit" => submits[co[k].task] > 0
    /\ \/ co[k].op = "transcribe"
       \/ co[k].op = "prepare" /\ co[k].pc \notin {"ref", "commit"}
       => db.tasks[co[k].task].hash["input"] = None

\* The columns it has still to reference.
RefOK(k) ==
    co[k].pc = "ref" =>
      /\ \A col \in co[k].cols :
            /\ co[k].held[col] = IF col = "executable" THEN Runner ELSE co[k].hash
            /\ db.blobs[co[k].held[col]].known
            /\ co[k].op # "submit" \/ Once =>
                 db.tasks[co[k].task].hash[col] = co[k].held[col]
      /\ co[k].cols \subseteq IF co[k].op = "submit" THEN {"output"} ELSE {"executable", "input"}

HandlerOK(k) == OpOK(k) /\ HashOK(k) /\ TaskOK(k) /\ RefOK(k)

\* The cleanup works on expired rows, which nobody else touches.
MaintOK ==
    /\ co[Maint].pc \in {"idle", "release", "delete", "cleanup_commit"}
    /\ co[Maint].op \in {"none", "cleanup"} /\ co[Maint].hash = None
    /\ co[Maint].pc \in {"release", "delete"} =>
         /\ co[Maint].task \in Tasks /\ co[Maint].task \notin co[Maint].todo
         /\ db.tasks[co[Maint].task].phase = "expired"
         /\ co[Maint].held = db.tasks[co[Maint].task].hash
    /\ co[Maint].pc = "delete" => co[Maint].cols = {}
    /\ \A col \in co[Maint].cols : co[Maint].held[col] # None
    /\ \A t \in co[Maint].todo : db.tasks[t].phase = "expired"

\* What the collector has selected stays collectable.
GcOK ==
    /\ co[Gc].pc \in {"idle", "gc_unlink", "gc_delete", "gc_select", "gc_commit"}
    /\ co[Gc].op \in {"none", "gc"} /\ co[Gc].hash = None /\ co[Gc].task = None
    /\ co[Gc].pc \in {"gc_unlink", "gc_delete"} => co[Gc].doomed \subseteq Collectable(co[Gc].pinned)

\* No two handlers make one task, nor submit it when a result is accepted once.
Alone(j, k) ==
    co[j].task = co[k].task =>
      /\ ~(co[j].op \in Makers /\ co[k].op \in Makers)
      /\ Once => ~(co[j].op = "submit" /\ co[k].op = "submit")

Apart == \A j \in Handlers : \A k \in Handlers \ {j} : Alone(j, k)

\* Rows and files.
HasFile(h) == h \in file \/ (co[Gc].pc = "gc_delete" /\ h \in co[Gc].doomed)

StoreInv ==
    /\ db.blobs[Runner].known /\ db.blobs[Runner].pin
    /\ \A h \in told : db.blobs[h].known
    /\ \A h \in Hashes : /\ db.blobs[h].old => db.blobs[h].known
                         /\ db.blobs[h].known => HasFile(h)
    /\ \A t \in Tasks : submits[t] = 0 => db.tasks[t].hash["output"] = None

\* The references whose count is taken, and not given back yet.
Pends(c, p, h) ==
    c.pc = "ref" /\ c.task = p[1] /\ p[2] \in c.cols /\ c.held[p[2]] = h

Undone(c, p, h) ==
    c.pc \in {"release", "delete"} /\ c.task = p[1] /\ p[2] \notin c.cols /\ c.held[p[2]] = h

Counted(table, cs, h) ==
    {p \in References(table, h) :
        ~Undone(cs[Maint], p, h) /\ \A k \in Handlers : ~Pends(cs[k], p, h)}

PinCount(b) == IF b.pin THEN 1 ELSE 0

\* A count covers what is counted, and is that number when results come once.
CountOK(b, counted) ==
    IF b.known
    THEN /\ Cardinality(counted) + PinCount(b) <= b.refs
         /\ Once => Cardinality(counted) + PinCount(b) = b.refs
    ELSE counted = {}

CountInv == \A h \in Hashes : CountOK(db.blobs[h], Counted(db, co, h))

IInv ==
    /\ TInv
    /\ \A k \in Handlers : HandlerOK(k)
    /\ MaintOK /\ GcOK /\ Apart /\ StoreInv /\ CountInv

-----------------------------------------------------------------------------
(* What a step leaves alone.                                                *)

\* The parts of the state have their types.
LEMMA Shape ==
    ASSUME TInv
    PROVE  /\ db \in Table /\ db.blobs \in [Hashes -> Blob] /\ db.tasks \in [Tasks -> TaskRow]
           /\ \A k \in Coros : co[k] \in Coroutine
           /\ \A h \in Hashes : /\ db.blobs[h] \in Blob
                                /\ db.blobs[h].known \in BOOLEAN /\ db.blobs[h].old \in BOOLEAN
                                /\ db.blobs[h].pin \in BOOLEAN /\ db.blobs[h].refs \in Nat
           /\ \A t \in Tasks : db.tasks[t] \in TaskRow /\ submits[t] \in Nat
           /\ Handlers \subseteq Coros /\ Maint \in Coros /\ Gc \in Coros
           /\ Maint \notin Handlers /\ Gc \notin Handlers
           /\ file \subseteq Hashes /\ told \subseteq Hashes
<1>1. TypeOK
  BY DEF TInv
<1>2. db.blobs \in [Hashes -> Blob] /\ db.tasks \in [Tasks -> TaskRow]
  BY <1>1, Parts
<1>3. \A h \in Hashes : db.blobs[h] \in Blob
  BY <1>2
<1> QED BY <1>1, <1>2, <1>3, Parts DEF Blob, Handlers

\* The blob, or the task, a handler works with is not taken from it.
HashKept(h) ==
    ~db.blobs[h].old =>
      /\ ~db'.blobs[h].old
      /\ db.blobs[h].known => db'.blobs[h].known
      /\ h \in file => h \in file'

TaskKept(j) ==
    LET old == db.tasks[co[j].task]
        new == db'.tasks[co[j].task]
    IN /\ old.phase \in AtWork => new.phase \in AtWork
       /\ submits[co[j].task] > 0 => submits'[co[j].task] > 0
       /\ co[j].op \in Makers => \A col \in {"executable", "input"} : new.hash[col] = old.hash[col]
       /\ co[j].op = "submit" /\ Once => new.hash["output"] = old.hash["output"]

\* A handler that does not move, and whose blob and task are kept.
LEMMA HandlerKept ==
    ASSUME NEW j \in Handlers, HandlerOK(j), co'[j] = co[j], co[j] \in Coroutine,
           db'.blobs[Runner].known,
           co[j].hash # None => HashKept(co[j].hash),
           co[j].op \in Makers \cup {"submit", "finish"} => TaskKept(j)
    PROVE  HandlerOK(j)'
<1>1. OpOK(j)'
  BY DEF HandlerOK, OpOK
<1>2. co[j].hash \in Hashes \cup {None} /\ None \notin Hashes
  BY DEF Coroutine
<1>3. HashOK(j)'
  BY <1>2 DEF HandlerOK, OpOK, HashOK, NeedsRow, HashKept, Makers
<1>4. TaskOK(j)'
  BY DEF HandlerOK, TaskOK, TaskKept, Makers
<1>5. RefOK(j)'
  <2> SUFFICES ASSUME co[j].pc = "ref" PROVE RefOK(j)'
    BY DEF RefOK
  <2>1. co[j].op \in Makers \cup {"submit"} /\ co[j].hash \in Hashes /\ TaskKept(j)
    BY DEF HandlerOK, OpOK, HashOK, Makers
  <2>2. ASSUME NEW col \in co[j].cols
        PROVE  /\ co[j].held[col] = IF col = "executable" THEN Runner ELSE co[j].hash
               /\ db'.blobs[co[j].held[col]].known
               /\ co[j].op # "submit" \/ Once =>
                    db'.tasks[co[j].task].hash[col] = co[j].held[col]
    <3>1. /\ co[j].held[col] = IF col = "executable" THEN Runner ELSE co[j].hash
          /\ db.blobs[co[j].held[col]].known
          /\ co[j].op # "submit" \/ Once =>
               db.tasks[co[j].task].hash[col] = co[j].held[col]
          /\ co[j].op = "submit" => col = "output"
          /\ co[j].op # "submit" => col \in {"executable", "input"}
      BY DEF HandlerOK, RefOK
    <3>2. db'.blobs[co[j].held[col]].known
      BY <1>2, <2>1, <3>1 DEF HandlerOK, HashOK, HashKept
    <3>3. co[j].op # "submit" \/ Once => db'.tasks[co[j].task].hash[col] = co[j].held[col]
      BY <2>1, <3>1 DEF TaskKept
    <3> QED BY <3>1, <3>2, <3>3
  <2>3. co[j].cols \subseteq IF co[j].op = "submit" THEN {"output"} ELSE {"executable", "input"}
    BY DEF HandlerOK, RefOK
  <2> QED BY <2>2, <2>3 DEF RefOK
<1> QED BY <1>1, <1>3, <1>4, <1>5 DEF HandlerOK

\* The cleanup does not move, and the expired rows stay.
LEMMA MaintKept ==
    ASSUME MaintOK, co'[Maint] = co[Maint], co[Maint] \in Coroutine,
           \A t \in Tasks : db.tasks[t].phase = "expired" => db'.tasks[t] = db.tasks[t]
    PROVE  MaintOK'
<1>1. co[Maint].todo \subseteq Tasks
  BY DEF Coroutine
<1> QED BY <1>1 DEF MaintOK

\* The collector does not move, and what could be collected still can be.
LEMMA GcKept ==
    ASSUME GcOK, co'[Gc] = co[Gc], co[Gc] \in Coroutine,
           \A h \in Hashes : db.blobs[h].known /\ db.blobs[h].old /\ db.blobs[h].refs = 0 =>
                db'.blobs[h] = db.blobs[h]
    PROVE  GcOK'
BY DEF GcOK, Collectable

-----------------------------------------------------------------------------
(* Counts.                                                                  *)

\* What is counted is finite.
LEMMA CountedFinite ==
    ASSUME NEW table, NEW cs, NEW h
    PROVE  Counted(table, cs, h) \in SUBSET (Tasks \X Columns)
BY DEF Counted, References

\* Sets of references: their sizes, with one more and with one less.
LEMMA Sizes ==
    ASSUME NEW S \in SUBSET (Tasks \X Columns)
    PROVE  /\ Cardinality(S) \in Nat
           /\ Cardinality(S) = 0 <=> S = {}
           /\ \A T \in SUBSET S : Cardinality(T) \in Nat /\ Cardinality(T) <= Cardinality(S)
           /\ \A p : p \notin S => Cardinality(S \cup {p}) = Cardinality(S) + 1
           /\ \A p : p \in S => Cardinality(S \ {p}) = Cardinality(S) - 1
<1>1. IsFiniteSet(S) /\ Cardinality(S) \in Nat
  BY FiniteReferences
<1>2. Cardinality(S) = 0 <=> S = {}
  BY <1>1, FS_EmptySet
<1>3. ASSUME NEW T \in SUBSET S
      PROVE  Cardinality(T) \in Nat /\ Cardinality(T) <= Cardinality(S)
  BY <1>1, <1>3, FS_Subset, FS_CardinalityType
<1>4. ASSUME NEW p, p \notin S PROVE Cardinality(S \cup {p}) = Cardinality(S) + 1
  BY <1>1, <1>4, FS_AddElement
<1>5. ASSUME NEW p, p \in S PROVE Cardinality(S \ {p}) = Cardinality(S) - 1
  BY <1>1, <1>5, FS_RemoveElement
<1> QED BY <1>1, <1>2, <1>3, <1>4, <1>5

\* The numbers stay, and nothing more is counted.
LEMMA CountSame ==
    ASSUME NEW b \in Blob, NEW d \in Blob, d.known = b.known, d.pin = b.pin, d.refs = b.refs,
           NEW S \in SUBSET (Tasks \X Columns), NEW T \in SUBSET S, Once => T = S,
           CountOK(b, S)
    PROVE  CountOK(d, T)
<1>1. /\ Cardinality(S) \in Nat /\ Cardinality(T) \in Nat /\ Cardinality(T) <= Cardinality(S)
      /\ b.refs \in Nat /\ PinCount(b) \in Nat /\ PinCount(d) = PinCount(b)
  BY Sizes DEF Blob, PinCount
<1>2. CASE b.known
  <2>1. Cardinality(S) + PinCount(b) <= b.refs /\ (Once => Cardinality(S) + PinCount(b) = b.refs)
    BY <1>2 DEF CountOK
  <2>2. Cardinality(T) + PinCount(d) <= d.refs
    BY <1>1, <2>1
  <2>3. Once => Cardinality(T) + PinCount(d) = d.refs
    BY <1>1, <2>1
  <2> QED BY <1>2, <2>2, <2>3 DEF CountOK
<1>3. CASE ~b.known
  BY <1>3 DEF CountOK
<1> QED BY <1>2, <1>3

\* A reference is taken.
LEMMA CountTaken ==
    ASSUME NEW b \in Blob, b.known, NEW p, NEW S \in SUBSET (Tasks \X Columns),
           NEW T \in SUBSET (Tasks \X Columns),
           T \subseteq S \cup {p}, Once => p \notin S /\ T = S \cup {p}, CountOK(b, S)
    PROVE  CountOK(Referenced(b), T)
<1>1. /\ Cardinality(S) \in Nat /\ Cardinality(T) \in Nat /\ Cardinality(T) <= Cardinality(S) + 1
      /\ b.refs \in Nat /\ PinCount(b) \in Nat
  <2>1. CASE p \in S
    BY <2>1, Sizes DEF Blob, PinCount
  <2>2. CASE p \notin S
    <3>1. T \ {p} \in SUBSET S
      OBVIOUS
    <3>2. Cardinality(T \ {p}) <= Cardinality(S) /\ Cardinality(T \ {p}) \in Nat
          /\ Cardinality(S) \in Nat /\ Cardinality(T) \in Nat
      BY <3>1, Sizes
    <3>3. Cardinality(T) <= Cardinality(T \ {p}) + 1
      <4>1. CASE p \in T
        BY <3>2, <4>1, Sizes
      <4>2. CASE p \notin T
        <5>1. Cardinality(T \ {p}) = Cardinality(T)
          <6>1. T \ {p} = T
            BY <4>2
          <6> QED BY <6>1
        <5> QED BY <3>2, <5>1
      <4> QED BY <4>1, <4>2
    <3> QED BY <3>2, <3>3 DEF Blob, PinCount
  <2> QED BY <2>1, <2>2
<1>2. /\ Referenced(b).known /\ Referenced(b).refs = b.refs + 1
      /\ PinCount(Referenced(b)) = PinCount(b)
  BY DEF Referenced, Blob, PinCount
<1>3. Cardinality(S) + PinCount(b) <= b.refs /\ (Once => Cardinality(S) + PinCount(b) = b.refs)
  BY DEF CountOK
<1>4. Cardinality(T) + PinCount(b) <= b.refs + 1
  BY <1>1, <1>3
<1>5. Once => Cardinality(T) + PinCount(b) = b.refs + 1
  <2>1. Once => Cardinality(T) = Cardinality(S) + 1
    BY Sizes
  <2> QED BY <1>1, <1>3, <2>1
<1> QED BY <1>2, <1>4, <1>5 DEF CountOK

\* What is counted has a row, and a count.
LEMMA CountedKnown ==
    ASSUME NEW b \in Blob, NEW S \in SUBSET (Tasks \X Columns), CountOK(b, S)
    PROVE  /\ S # {} => b.known
           /\ b.known /\ (S # {} \/ b.pin) => b.refs > 0
           /\ b.known /\ b.refs = 0 => S = {} /\ ~b.pin
<1>1. Cardinality(S) \in Nat /\ b.refs \in Nat /\ (Cardinality(S) = 0 <=> S = {})
  BY Sizes DEF Blob
<1>2. PinCount(b) = IF b.pin THEN 1 ELSE 0
  BY DEF PinCount
<1>3. b.known => Cardinality(S) + PinCount(b) <= b.refs
  BY DEF CountOK
<1>4. b.known /\ (S # {} \/ b.pin) => b.refs > 0
  BY <1>1, <1>2, <1>3
<1> QED BY <1>1, <1>4 DEF CountOK

\* A reference is given back.
LEMMA CountReleased ==
    ASSUME NEW b \in Blob, NEW S \in SUBSET (Tasks \X Columns), NEW p \in S, CountOK(b, S)
    PROVE  CountOK(Released(b), S \ {p})
<1>1. b.known /\ b.refs > 0
  BY CountedKnown
<1>2. /\ Released(b).known /\ Released(b).refs = b.refs - 1
      /\ PinCount(Released(b)) = PinCount(b)
  BY <1>1 DEF Released, Blob, PinCount
<1>3. Cardinality(S) + PinCount(b) <= b.refs /\ (Once => Cardinality(S) + PinCount(b) = b.refs)
  BY <1>1 DEF CountOK
<1>4. /\ Cardinality(S) \in Nat /\ b.refs \in Nat /\ PinCount(b) \in Nat
      /\ Cardinality(S \ {p}) = Cardinality(S) - 1
  BY Sizes DEF Blob, PinCount
<1>5. Cardinality(S \ {p}) + PinCount(b) <= b.refs - 1
  BY <1>3, <1>4
<1>6. Once => Cardinality(S \ {p}) + PinCount(b) = b.refs - 1
  BY <1>3, <1>4
<1> QED BY <1>2, <1>5, <1>6 DEF CountOK

\* A blob is pinned.
LEMMA CountPinned ==
    ASSUME NEW b \in Blob, b.known, ~b.pin, NEW S \in SUBSET (Tasks \X Columns), CountOK(b, S)
    PROVE  CountOK([Referenced(b) EXCEPT !.pin = TRUE], S)
<1> DEFINE d == [Referenced(b) EXCEPT !.pin = TRUE]
<1>1. /\ d.known /\ d.refs = b.refs + 1 /\ d.pin
  BY DEF Referenced, Blob
<1>2. PinCount(d) = 1 /\ PinCount(b) = 0 /\ Cardinality(S) \in Nat /\ b.refs \in Nat
  BY <1>1, Sizes DEF PinCount, Blob
<1>3. Cardinality(S) + PinCount(b) <= b.refs /\ (Once => Cardinality(S) + PinCount(b) = b.refs)
  BY DEF CountOK
<1> HIDE DEF d
<1>4. Cardinality(S) + PinCount(d) <= b.refs + 1
  BY <1>2, <1>3
<1>5. Once => Cardinality(S) + PinCount(d) = b.refs + 1
  BY <1>2, <1>3
<1>6. CountOK(d, S)
  BY <1>1, <1>4, <1>5 DEF CountOK
<1> QED BY <1>6 DEF d

\* A blob that nothing names is stored, or its row deleted.
LEMMA CountNothing == CountOK(NewBlob, {}) /\ CountOK(NoBlob, {})
<1>1. /\ NoBlob.known = FALSE /\ NoBlob.refs = 0 /\ NoBlob.pin = FALSE
      /\ NewBlob.known = TRUE /\ NewBlob.refs = 0 /\ NewBlob.pin = FALSE
  BY DEF NoBlob, NewBlob
<1>2. Cardinality({}) = 0
  BY FS_EmptySet
<1> QED BY <1>1, <1>2 DEF CountOK, PinCount

\* Nobody takes or gives back a reference.
LEMMA CountedSame ==
    ASSUME db'.tasks = db.tasks, NEW h,
           \A p \in Tasks \X Columns : /\ Undone(co'[Maint], p, h) <=> Undone(co[Maint], p, h)
                                       /\ \A k \in Handlers : Pends(co'[k], p, h) <=> Pends(co[k], p, h)
    PROVE  Counted(db', co', h) = Counted(db, co, h)
<1>1. References(db', h) = References(db, h) /\ References(db, h) \subseteq Tasks \X Columns
  BY DEF References, Exists
<1> QED BY <1>1 DEF Counted

\* The rows of tasks, the cleanup and who takes references stay: so do the counts.
LEMMA QuietCount ==
    ASSUME TInv, TInv', CountInv, db'.tasks = db.tasks, co'[Maint] = co[Maint],
           \A k \in Handlers : co'[k] = co[k] \/ (co[k].pc # "ref" /\ co'[k].pc # "ref")
    PROVE  /\ \A h \in Hashes : Counted(db', co', h) = Counted(db, co, h)
           /\ \A h \in Hashes :
                 /\ db'.blobs[h].known = db.blobs[h].known /\ db'.blobs[h].pin = db.blobs[h].pin
                 /\ db'.blobs[h].refs = db.blobs[h].refs
                 => CountOK(db'.blobs[h], Counted(db', co', h))
<1>1. ASSUME NEW h \in Hashes PROVE Counted(db', co', h) = Counted(db, co, h)
  <2>1. \A p \in Tasks \X Columns :
           /\ Undone(co'[Maint], p, h) <=> Undone(co[Maint], p, h)
           /\ \A k \in Handlers : Pends(co'[k], p, h) <=> Pends(co[k], p, h)
    BY DEF Pends
  <2> QED BY <2>1, CountedSame
<1>2. ASSUME NEW h \in Hashes, db'.blobs[h].known = db.blobs[h].known,
             db'.blobs[h].pin = db.blobs[h].pin, db'.blobs[h].refs = db.blobs[h].refs
      PROVE  CountOK(db'.blobs[h], Counted(db', co', h))
  <2>1. db.blobs[h] \in Blob /\ db'.blobs[h] \in Blob
    BY Shape DEF TInv, TypeOK, Table
  <2>2. CountOK(db.blobs[h], Counted(db, co, h))
    BY DEF CountInv
  <2>3. Counted(db, co, h) \in SUBSET (Tasks \X Columns)
        /\ Counted(db, co, h) \in SUBSET Counted(db, co, h)
    BY CountedFinite
  <2>4. CountOK(db'.blobs[h], Counted(db, co, h))
    BY <1>2, <2>1, <2>2, <2>3, CountSame
  <2> QED BY <1>1, <2>4
<1> QED BY <1>1, <1>2

-----------------------------------------------------------------------------
(* The steps of the handlers.                                               *)

\* A handler moves: the other ones, the cleanup and the collector keep what they
\* rely on.
LEMMA HandlerMoves ==
    ASSUME IInv, TInv', NEW k \in Handlers, \A j \in Coros \ {k} : co'[j] = co[j],
           HandlerOK(k)', db'.blobs[Runner].known,
           \A h \in Hashes : HashKept(h),
           \A h \in Hashes : db.blobs[h].known /\ db.blobs[h].old /\ db.blobs[h].refs = 0 =>
              db'.blobs[h] = db.blobs[h],
           \A j \in Handlers \ {k} : co[j].op \in Makers \cup {"submit", "finish"} => TaskKept(j),
           \A t \in Tasks : db.tasks[t].phase = "expired" => db'.tasks[t] = db.tasks[t]
    PROVE  (\A j \in Handlers : HandlerOK(j)') /\ MaintOK' /\ GcOK'
<1>1. /\ Maint \in Coros \ {k} /\ Gc \in Coros \ {k} /\ Handlers \subseteq Coros
      /\ \A j \in Coros : co[j] \in Coroutine
  BY Shape DEF IInv, Handlers
<1>2. ASSUME NEW j \in Handlers \ {k} PROVE HandlerOK(j)'
  <2>1. HandlerOK(j) /\ co'[j] = co[j] /\ co[j] \in Coroutine /\ j \in Handlers
    BY <1>1 DEF IInv
  <2>2. co[j].hash # None => HashKept(co[j].hash)
    BY <2>1 DEF Coroutine
  <2> QED BY <2>1, <2>2, HandlerKept
<1>3. MaintOK'
  BY <1>1, MaintKept DEF IInv
<1>4. GcOK'
  BY <1>1, GcKept DEF IInv
<1> QED BY <1>2, <1>3, <1>4

\* A handler moves, and makes or submits a task only if it did before.
LEMMA StaysApart ==
    ASSUME Apart, NEW k \in Handlers, \A j \in Handlers \ {k} : co'[j] = co[j],
           co'[k].op \in Makers => co[k].op \in Makers /\ co'[k].task = co[k].task,
           co'[k].op = "submit" => co[k].op = "submit" /\ co'[k].task = co[k].task
    PROVE  Apart'
<1> SUFFICES ASSUME NEW i \in Handlers, NEW j \in Handlers \ {i} PROVE Alone(i, j)'
  BY DEF Apart
<1>1. Alone(i, j)
  BY DEF Apart
<1> QED BY <1>1 DEF Alone

\* Rows and files stay together while neither is taken away.
LEMMA StoreKept ==
    ASSUME StoreInv, TInv, co'[Gc] = co[Gc], file \subseteq file',
           \A t \in Tasks : submits'[t] = 0 =>
              submits[t] = 0 /\ db'.tasks[t].hash["output"] \in {db.tasks[t].hash["output"], None},
           \A h \in told' : h \in told \/ db'.blobs[h].known,
           \A h \in Hashes : /\ db.blobs[h].known => db'.blobs[h].known
                             /\ db.blobs[h].known /\ db.blobs[h].pin => db'.blobs[h].pin
                             /\ db'.blobs[h].old => db.blobs[h].old
                             /\ db'.blobs[h].known => db.blobs[h].known \/ h \in file'
    PROVE  StoreInv'
<1>1. told \subseteq Hashes
  BY Shape
<1> QED BY <1>1 DEF StoreInv, HasFile

\* A handler's step that leaves the rows of tasks and blobs alone, and neither
\* before nor after which the handler takes references.
LEMMA QuietStep ==
    ASSUME IInv, TInv', NEW k \in Handlers, NEW c \in Coroutine, Resume(k, c),
           db' = db, submits' = submits, file \subseteq file',
           \A h \in told' : h \in told \/ db.blobs[h].known,
           co[k].pc # "ref", c.pc # "ref", HandlerOK(k)',
           c.op \in Makers => co[k].op \in Makers /\ c.task = co[k].task,
           c.op = "submit" => co[k].op = "submit" /\ c.task = co[k].task
    PROVE  IInv'
<1>0. TypeOK /\ k \in Coros /\ Maint # k /\ Gc # k /\ Maint \in Coros /\ Gc \in Coros
      /\ Handlers \subseteq Coros
  BY Shape DEF IInv, TInv, Handlers
<1>1. co'[k] = c /\ \A j \in Coros \ {k} : co'[j] = co[j]
  BY <1>0, MoveOK
<1>2. (\A j \in Handlers : HandlerOK(j)') /\ MaintOK' /\ GcOK'
  <2>1. db'.blobs[Runner].known
    BY DEF IInv, StoreInv
  <2>2. \A h \in Hashes : HashKept(h)
    BY DEF HashKept
  <2>3. \A j \in Handlers : TaskKept(j)
    BY DEF TaskKept
  <2> QED BY <1>1, <2>1, <2>2, <2>3, HandlerMoves
<1>3. Apart'
  BY <1>0, <1>1, StaysApart DEF IInv
<1>4. StoreInv'
  BY <1>0, <1>1, StoreKept DEF IInv
<1>5. CountInv'
  <2>1. \A h \in Hashes : CountOK(db'.blobs[h], Counted(db', co', h))
    BY <1>0, <1>1, QuietCount DEF IInv
  <2> QED BY <2>1 DEF CountInv
<1> QED BY <1>2, <1>3, <1>4, <1>5 DEF IInv

\* A handler that stores something, where it goes on.
LEMMA StoringOK ==
    ASSUME IInv, NEW k \in Handlers, co[k].pc \in Storing
    PROVE  /\ co[k] \in Coroutine /\ co[k].hash \in Hashes
           /\ co[k].op \in {"upload", "prepare"} /\ ~db.blobs[co[k].hash].old
           /\ co[k].op = "prepare" => /\ co[k].task \in Tasks
                                      /\ db.tasks[co[k].task].phase \in AtWork
                                      /\ db.tasks[co[k].task].hash["input"] = None
           /\ co[k].op = "upload" => co[k].task = None
<1>1. HandlerOK(k) /\ co[k] \in Coroutine
  BY Shape DEF IInv
<1>2. co[k].hash \in Hashes /\ None \notin Hashes
  BY <1>1 DEF HandlerOK, OpOK, HashOK
<1> QED BY <1>1, <1>2 DEF HandlerOK, OpOK, HashOK, TaskOK, Makers, Storing

\* What a handler that stores something, or has just stored it, is at, is in order.
LEMMA StoringStep ==
    ASSUME IInv, NEW k \in Handlers, co[k].pc \in Storing, NEW c \in Coroutine,
           co'[k] = c, db'.tasks = db.tasks, file \subseteq file', submits' = submits,
           ~db'.blobs[co[k].hash].old,
           \/ c = Idle
           \/ /\ c.pc \in Storing \cup {"set_get"}
              /\ c.op = co[k].op /\ c.hash = co[k].hash /\ c.task = co[k].task
              /\ c.pc = "insert" => c.hash \in file'
              /\ c.pc \in {"insert_commit", "set_get"} => db'.blobs[c.hash].known
              /\ c.pc = "set_get" => c.op = "prepare"
    PROVE  HandlerOK(k)'
<1>1. CASE c = Idle
  BY <1>1, IdleOK DEF HandlerOK, OpOK, HashOK, NeedsRow, TaskOK, RefOK, Makers, Storing
<1>2. CASE c # Idle
  <2>1. /\ c.pc \in Storing \cup {"set_get"} /\ c.op \in {"upload", "prepare"}
        /\ c.hash = co[k].hash /\ c.hash \in Hashes /\ c.task = co[k].task
        /\ c.pc \in Storing => c.pc \notin {"idle", "set_get", "set_input", "ref", "pin", "commit"}
    BY <1>2, StoringOK DEF Storing
  <2>2. OpOK(k)'
    BY <1>2, <2>1 DEF OpOK, Storing
  <2>3. HashOK(k)'
    BY <1>2, <2>1 DEF HashOK, NeedsRow, Storing
  <2>4. TaskOK(k)'
    BY <1>2, <2>1, StoringOK DEF TaskOK, Makers, Storing
  <2>5. RefOK(k)'
    BY <1>2, <2>1 DEF RefOK, Storing
  <2> QED BY <2>2, <2>3, <2>4, <2>5 DEF HandlerOK
<1> QED BY <1>1, <1>2

\* store_blob: SELECT, write, commit.
LEMMA StoreSteps ==
    ASSUME IInv, TInv', NEW k \in Handlers, StoreSelect(k) \/ StoreWrite(k) \/ StoreCommit(k)
    PROVE  IInv'
<1> DEFINE c == co[k]
<1>1. /\ c.pc \in Storing /\ c.pc # "ref"
      /\ (c.pc = "insert_commit" => db.blobs[c.hash].known)
  <2>1. c.pc \in Storing /\ c.pc # "ref"
    BY DEF StoreSelect, StoreWrite, StoreCommit, Storing
  <2> QED BY <2>1 DEF IInv, HandlerOK, HashOK, NeedsRow
<1>2. /\ c \in Coroutine /\ c.hash \in Hashes /\ c.op \in {"upload", "prepare"}
      /\ ~db.blobs[c.hash].old
  BY <1>1, StoringOK
<1> HIDE DEF c
<1>3. \A p \in PCs : /\ At(c, p) \in Coroutine /\ At(c, p).pc = p /\ At(c, p).op = c.op
                     /\ At(c, p).hash = c.hash /\ At(c, p).task = c.task
  BY <1>2, AtOK
<1>4. /\ Stored(c) \in Coroutine /\ Stored(c).pc # "ref"
      /\ \/ Stored(c) = Idle
         \/ /\ Stored(c).pc = "set_get" /\ Stored(c).op = "prepare" /\ c.op = "prepare"
            /\ Stored(c).hash = c.hash /\ Stored(c).task = c.task
  BY <1>3, IdleOK DEF Stored, PCs
<1>5. Idle.op \notin Makers \cup {"submit"} /\ c.op # "submit" /\ "prepare" \in Makers
  BY <1>2, IdleOK DEF Makers
<1>6. ASSUME Resume(k, Stored(c)), db.blobs[c.hash].known, file' = file, Answer(c),
             db' = db, submits' = submits
      PROVE  IInv'
  <2>1. co'[k] = Stored(c)
    BY <1>4, <1>6, MoveOK, Shape DEF IInv, TInv
  <2>2. HandlerOK(k)'
    BY <1>1, <1>2, <1>4, <1>6, <2>1, StoringStep DEF c, Storing
  <2>3. \A h \in told' : h \in told \/ db.blobs[h].known
    BY <1>6 DEF Answer
  <2>4. Stored(c).op \in Makers => c.op \in Makers /\ Stored(c).task = c.task
    BY <1>4, <1>5
  <2>5. Stored(c).op # "submit"
    BY <1>4, <1>5
  <2> QED BY <1>1, <1>4, <1>6, <2>2, <2>3, <2>4, <2>5, QuietStep DEF c
<1>7. ASSUME NEW p \in {"write", "insert"}, Resume(k, At(c, p)), file \subseteq file',
             p = "insert" => c.hash \in file', told' = told, db' = db, submits' = submits
      PROVE  IInv'
  <2>1. p \in PCs /\ p \in Storing /\ p # "ref"
    BY DEF PCs, Storing
  <2>2. co'[k] = At(c, p)
    BY <1>3, <1>7, <2>1, MoveOK, Shape DEF IInv, TInv
  <2>3. HandlerOK(k)'
    <3>1. /\ At(c, p) \in Coroutine /\ At(c, p).pc = p /\ At(c, p).op = c.op
          /\ At(c, p).hash = c.hash /\ At(c, p).task = c.task
      BY <1>3, <2>1
    <3> QED BY <1>1, <1>2, <1>7, <2>1, <2>2, <3>1, StoringStep DEF c
  <2>4. At(c, p).op # "submit" /\ At(c, p).op = c.op /\ At(c, p).task = c.task /\ At(c, p).pc # "ref"
        /\ At(c, p) \in Coroutine
    BY <1>3, <1>5, <2>1
  <2> QED BY <1>1, <1>7, <2>3, <2>4, QuietStep DEF c
<1>8. CASE StoreSelect(k)
  <2>1. CASE db.blobs[c.hash].known
    BY <1>6, <1>8, <2>1 DEF StoreSelect, c
  <2>2. CASE ~db.blobs[c.hash].known
    <3>1. /\ told' = told /\ db' = db /\ submits' = submits
          /\ \/ Resume(k, At(c, "write")) /\ file' = file
             \/ Resume(k, At(c, "insert")) /\ file' = file \cup {c.hash}
      BY <1>8, <2>2 DEF StoreSelect, c
    <3> QED BY <1>7, <3>1
  <2> QED BY <2>1, <2>2
<1>9. CASE StoreWrite(k)
  <2>1. /\ told' = told /\ db' = db /\ submits' = submits
        /\ Resume(k, At(c, "insert")) /\ file' = file \cup {c.hash}
    BY <1>9 DEF StoreWrite, c
  <2> QED BY <1>7, <2>1
<1>10. CASE StoreCommit(k)
  BY <1>1, <1>6, <1>10 DEF StoreCommit, Commit, c
<1> QED BY <1>8, <1>9, <1>10

\* A handler's step that writes the row of a blob: all but the counts.
LEMMA RowStep ==
    ASSUME IInv, TInv', NEW k \in Handlers, NEW c \in Coroutine, Resume(k, c),
           NEW h \in Hashes, NEW b \in Blob, SetBlob(h, b), b.known,
           db.blobs[h].known /\ db.blobs[h].pin => b.pin, b.old => db.blobs[h].old,
           db.blobs[h].known => db.blobs[h].refs > 0 \/ ~db.blobs[h].old,
           db.blobs[h].known \/ h \in file,
           file' = file, told' = told, submits' = submits, HandlerOK(k)',
           c.op \in Makers => co[k].op \in Makers /\ c.task = co[k].task,
           c.op = "submit" => co[k].op = "submit" /\ c.task = co[k].task
    PROVE  /\ (\A j \in Handlers : HandlerOK(j)') /\ MaintOK' /\ GcOK' /\ Apart' /\ StoreInv'
           /\ db'.tasks = db.tasks /\ co'[k] = c /\ \A j \in Coros \ {k} : co'[j] = co[j]
           /\ \A g \in Hashes : db'.blobs[g] = IF g = h THEN b ELSE db.blobs[g]
<1>0. TypeOK /\ k \in Coros /\ Maint # k /\ Gc # k /\ Maint \in Coros /\ Gc \in Coros
      /\ Handlers \subseteq Coros /\ db \in Table
  BY Shape DEF IInv, TInv, Handlers
<1>1. co'[k] = c /\ \A j \in Coros \ {k} : co'[j] = co[j]
  BY <1>0, MoveOK
<1>2. /\ db'.tasks = db.tasks
      /\ \A g \in Hashes : db'.blobs[g] = IF g = h THEN b ELSE db.blobs[g]
  BY <1>0, SetBlobOK
<1>3. (\A j \in Handlers : HandlerOK(j)') /\ MaintOK' /\ GcOK'
  <2>1. db'.blobs[Runner].known
    BY <1>2 DEF IInv, StoreInv
  <2>2. \A g \in Hashes : HashKept(g)
    BY <1>2 DEF HashKept
  <2>3. \A j \in Handlers : TaskKept(j)
    BY <1>2 DEF TaskKept
  <2>4. \A g \in Hashes : db.blobs[g].known /\ db.blobs[g].old /\ db.blobs[g].refs = 0 =>
           db'.blobs[g] = db.blobs[g]
    BY <1>2
  <2> QED BY <1>1, <1>2, <2>1, <2>2, <2>3, <2>4, HandlerMoves
<1>4. Apart'
  BY <1>0, <1>1, StaysApart DEF IInv
<1>5. StoreInv'
  <2>1. \A t \in Tasks : submits'[t] = 0 =>
           submits[t] = 0 /\ db'.tasks[t].hash["output"] \in {db.tasks[t].hash["output"], None}
    BY <1>2
  <2>2. \A g \in Hashes : /\ db.blobs[g].known => db'.blobs[g].known
                          /\ db.blobs[g].known /\ db.blobs[g].pin => db'.blobs[g].pin
                          /\ db'.blobs[g].old => db.blobs[g].old
                          /\ db'.blobs[g].known => db.blobs[g].known \/ g \in file'
    BY <1>2
  <2> QED BY <1>0, <1>1, <2>1, <2>2, StoreKept DEF IInv
<1> QED BY <1>1, <1>2, <1>3, <1>4, <1>5

\* store_blob: INSERT.
LEMMA InsertStep ==
    ASSUME IInv, TInv', NEW k \in Handlers, StoreInsert(k)
    PROVE  IInv'
<1> DEFINE c == co[k]
<1>1. c.pc = "insert" /\ c.pc \in Storing /\ c.pc # "ref" /\ c.hash \in file
  <2>1. c.pc = "insert"
    BY DEF StoreInsert
  <2> QED BY <2>1 DEF IInv, HandlerOK, HashOK, Storing
<1>2. /\ c \in Coroutine /\ c.hash \in Hashes /\ c.op \in {"upload", "prepare"}
      /\ ~db.blobs[c.hash].old /\ TypeOK /\ k \in Coros
  BY <1>1, StoringOK, Shape DEF IInv, TInv
<1> HIDE DEF c
<1>3. \A p \in PCs : /\ At(c, p) \in Coroutine /\ At(c, p).pc = p /\ At(c, p).op = c.op
                     /\ At(c, p).hash = c.hash /\ At(c, p).task = c.task
  BY <1>2, AtOK
<1>4. /\ "select" \in PCs /\ "insert_commit" \in PCs
      /\ "select" \in Storing /\ "insert_commit" \in Storing
  BY DEF PCs, Storing
<1>5. file' = file /\ told' = told /\ submits' = submits
  BY DEF StoreInsert
<1>6. CASE db.blobs[c.hash].known
  <2>1. PICK d \in {Idle, At(c, "select")} : Resume(k, d) /\ db' = db
    BY <1>6 DEF StoreInsert, c
  <2>2. d \in Coroutine /\ d.pc # "ref" /\ d.op # "submit"
        /\ (d.op \in Makers => c.op \in Makers /\ d.task = c.task)
    BY <1>2, <1>3, <1>4, IdleOK DEF Makers
  <2>3. co'[k] = d
    BY <1>2, <2>1, <2>2, MoveOK
  <2>4. \/ d = Idle
        \/ d.pc = "select" /\ d.op = c.op /\ d.hash = c.hash /\ d.task = c.task
    BY <1>3, <1>4
  <2>5. HandlerOK(k)'
    BY <1>1, <1>2, <1>4, <1>5, <2>1, <2>2, <2>3, <2>4, StoringStep DEF c
  <2> QED BY <1>1, <1>5, <2>1, <2>2, <2>5, QuietStep DEF c
<1>7. CASE ~db.blobs[c.hash].known
  <2> DEFINE d == At(c, "insert_commit")
  <2>1. Resume(k, d) /\ SetBlob(c.hash, NewBlob)
    BY <1>7 DEF StoreInsert, c
  <2>2. /\ d \in Coroutine /\ d.pc = "insert_commit" /\ d.op = c.op /\ d.hash = c.hash
        /\ d.task = c.task /\ d.op # "submit"
    BY <1>2, <1>3, <1>4
  <2> HIDE DEF d
  <2>3. NewBlob \in Blob /\ NewBlob.known /\ ~NewBlob.old
    <3>1. db.blobs[c.hash] \in Blob
      BY <1>2, Parts
    <3>2. NewBlob \in Blob
      BY <3>1, BlobOK
    <3> QED BY <3>2 DEF NewBlob, NoBlob
  <2>4. co'[k] = d /\ db'.blobs[c.hash] = NewBlob /\ db'.tasks = db.tasks
    BY <1>2, <2>1, <2>2, <2>3, MoveOK, SetBlobOK, Parts
  <2>5. HandlerOK(k)'
    BY <1>1, <1>2, <1>4, <1>5, <2>2, <2>3, <2>4, StoringStep DEF c
  <2>6. /\ HandlerOK(k)' /\ (\A j \in Handlers : HandlerOK(j)') /\ MaintOK' /\ GcOK'
        /\ Apart' /\ StoreInv'
        /\ \A j \in Coros \ {k} : co'[j] = co[j]
        /\ \A g \in Hashes : db'.blobs[g] = IF g = c.hash THEN NewBlob ELSE db.blobs[g]
    <3>1. /\ c.hash \in file /\ ~db.blobs[c.hash].known /\ c.hash \in Hashes
          /\ d.op \in Makers => c.op \in Makers /\ d.task = c.task
      BY <1>1, <1>2, <1>7, <2>2
    <3> QED BY <1>5, <2>1, <2>2, <2>3, <2>5, <3>1, RowStep DEF c
  <2>7. CountInv'
    <3>1. \A g \in Hashes : Counted(db', co', g) = Counted(db, co, g)
      <4>1. co'[Maint] = co[Maint] /\ \A j \in Handlers \ {k} : co'[j] = co[j]
        BY <2>6, Shape DEF IInv
      <4>2. co[k].pc # "ref" /\ co'[k].pc # "ref"
        BY <1>1, <2>2, <2>4 DEF c
      <4> QED BY <2>4, <4>1, <4>2, QuietCount DEF IInv
    <3>2. ASSUME NEW g \in Hashes PROVE CountOK(db'.blobs[g], Counted(db', co', g))
      <4>1. CASE g = c.hash
        <5>1. Counted(db, co, g) = {}
          BY <1>7, <4>1 DEF IInv, CountInv, CountOK
        <5> QED BY <2>4, <3>1, <4>1, <5>1, CountNothing
      <4>2. CASE g # c.hash
        BY <2>6, <3>1, <4>2 DEF IInv, CountInv
      <4> QED BY <4>1, <4>2
    <3> QED BY <3>2 DEF CountInv
  <2> QED BY <2>6, <2>7 DEF IInv
<1> QED BY <1>6, <1>7

\* An upload or a pin begins.
LEMMA BeginStep ==
    ASSUME Calm, IInv, TInv', NEW k \in Coros, NEW h \in Hashes, Upload(k, h) \/ Pin(k, h)
    PROVE  IInv'
<1> DEFINE pc == IF Upload(k, h) THEN "select" ELSE "pin"
           op == IF Upload(k, h) THEN "upload" ELSE "pin"
           c  == Begun(pc, op, h)
<1>1. /\ Resume(k, c) /\ db' = db /\ submits' = submits /\ file' = file /\ told' = told
      /\ k \in Handlers /\ co[k].pc = "idle" /\ ~db.blobs[h].old
      /\ pc = "pin" => h \in told
  BY DEF Upload, Pin, Begun, Free, Handlers, Timely, Named, Calm
<1>2. /\ pc \in PCs /\ op \in Ops
      /\ (pc = "select" /\ op = "upload") \/ (pc = "pin" /\ op = "pin")
  BY DEF PCs, Ops
<1> HIDE DEF pc, op
<1>3. /\ c \in Coroutine /\ c.pc = pc /\ c.op = op /\ c.hash = h /\ c.task = None /\ c.cols = {}
  BY <1>2, BegunOK
<1> HIDE DEF c
<1>4. co'[k] = c
  BY <1>1, <1>3, MoveOK, Shape DEF IInv, TInv
<1>5. HandlerOK(k)'
  <2>1. db.blobs[h].known \/ pc = "select"
    BY <1>1, <1>2 DEF IInv, StoreInv
  <2>2. OpOK(k)'
    BY <1>2, <1>3, <1>4 DEF OpOK, Storing
  <2>3. HashOK(k)'
    BY <1>1, <1>2, <1>3, <1>4, <2>1 DEF HashOK, NeedsRow
  <2>4. TaskOK(k)'
    BY <1>2, <1>3, <1>4 DEF TaskOK, Makers
  <2>5. RefOK(k)'
    BY <1>2, <1>3, <1>4 DEF RefOK
  <2> QED BY <2>2, <2>3, <2>4, <2>5 DEF HandlerOK
<1>6. c.op \notin Makers /\ c.op # "submit" /\ c.pc # "ref" /\ co[k].pc # "ref"
  BY <1>1, <1>2, <1>3 DEF Makers
<1> QED BY <1>1, <1>3, <1>5, <1>6, QuietStep

\* The steps of a handler after which it is idle or begins to store the input.
LEMMA RestStep ==
    ASSUME IInv, TInv', NEW k \in Handlers, co[k].pc # "ref", Resume(k, Idle), db' = db,
           submits' = submits, file' = file, told' = told
    PROVE  IInv'
<1>1. co'[k] = Idle
  BY IdleOK, MoveOK, Shape DEF IInv, TInv
<1>2. HandlerOK(k)'
  BY <1>1, IdleOK DEF HandlerOK, OpOK, HashOK, NeedsRow, TaskOK, RefOK, Makers, Storing
<1>3. Idle.op \notin Makers /\ Idle.op # "submit" /\ Idle.pc # "ref" /\ Idle \in Coroutine
  BY IdleOK DEF Makers
<1> QED BY <1>2, <1>3, QuietStep

\* The commit of references, of a pin or of a verdict.
LEMMA CommitStep ==
    ASSUME IInv, TInv', NEW k \in Handlers, ReferenceCommit(k)
    PROVE  IInv'
<1> DEFINE d == [At(co[k], "select") EXCEPT !.op = "prepare"]
<1>1. /\ co[k].pc = "commit" /\ db' = db /\ submits' = submits /\ file' = file /\ told' = told
      /\ Resume(k, Idle) \/ (co[k].op = "transcribe" /\ Resume(k, d))
  BY DEF ReferenceCommit, Commit
<1>2. CASE Resume(k, Idle)
  BY <1>1, <1>2, RestStep
<1>3. CASE co[k].op = "transcribe" /\ Resume(k, d)
  <2>1. co[k] \in Coroutine /\ HandlerOK(k)
    BY Shape DEF IInv
  <2>2. /\ d \in Coroutine /\ d.pc = "select" /\ d.op = "prepare" /\ d.hash = co[k].hash
        /\ d.task = co[k].task
    <3>1. /\ At(co[k], "select") \in Coroutine /\ At(co[k], "select").pc = "select"
          /\ At(co[k], "select").hash = co[k].hash /\ At(co[k], "select").task = co[k].task
      BY <2>1, AtOK DEF PCs
    <3>2. "prepare" \in Ops
      BY DEF Ops
    <3> QED BY <3>1, <3>2 DEF Coroutine
  <2> HIDE DEF d
  <2>3. co'[k] = d
    BY <1>3, <2>2, MoveOK, Shape DEF IInv, TInv
  <2>4. HandlerOK(k)'
    <3>1. OpOK(k)'
      BY <2>2, <2>3 DEF OpOK, Storing
    <3>2. HashOK(k)'
      BY <1>1, <1>3, <2>1, <2>2, <2>3 DEF HashOK, NeedsRow, HandlerOK
    <3>3. TaskOK(k)'
      BY <1>1, <1>3, <2>1, <2>2, <2>3 DEF TaskOK, Makers, HandlerOK
    <3>4. RefOK(k)'
      BY <2>2, <2>3 DEF RefOK
    <3> QED BY <3>1, <3>2, <3>3, <3>4 DEF HandlerOK
  <2>5. /\ co[k].pc # "ref" /\ d.pc # "ref" /\ d.op # "submit" /\ co[k].op \in Makers
    BY <1>1, <1>3, <2>2 DEF Makers
  <2> QED BY <1>1, <1>3, <2>2, <2>4, <2>5, QuietStep
<1> QED BY <1>1, <1>2, <1>3

\* set_queued reads the row.
LEMMA SetGetStep ==
    ASSUME IInv, TInv', NEW k \in Handlers, SetGet(k)
    PROVE  IInv'
<1> DEFINE d == At(co[k], "set_input")
<1>1. /\ co[k].pc = "set_get" /\ db' = db /\ submits' = submits /\ file' = file /\ told' = told
      /\ Resume(k, Idle) \/ Resume(k, d)
  BY DEF SetGet
<1>2. CASE Resume(k, Idle)
  BY <1>1, <1>2, RestStep
<1>3. CASE Resume(k, d)
  <2>1. co[k] \in Coroutine /\ HandlerOK(k) /\ co[k].op = "prepare"
    BY <1>1, Shape DEF IInv, HandlerOK, OpOK
  <2>2. /\ d \in Coroutine /\ d.pc = "set_input" /\ d.op = "prepare" /\ d.hash = co[k].hash
        /\ d.task = co[k].task
    BY <2>1, AtOK DEF PCs
  <2> HIDE DEF d
  <2>3. co'[k] = d
    BY <1>3, <2>2, MoveOK, Shape DEF IInv, TInv
  <2>4. HandlerOK(k)'
    <3>1. OpOK(k)'
      BY <2>2, <2>3 DEF OpOK, Storing
    <3>2. HashOK(k)'
      BY <1>1, <2>1, <2>2, <2>3 DEF HashOK, NeedsRow, HandlerOK
    <3>3. TaskOK(k)'
      BY <1>1, <2>1, <2>2, <2>3 DEF TaskOK, Makers, HandlerOK
    <3>4. RefOK(k)'
      BY <2>2, <2>3 DEF RefOK
    <3> QED BY <3>1, <3>2, <3>3, <3>4 DEF HandlerOK
  <2> QED BY <1>1, <1>3, <2>1, <2>2, <2>4, QuietStep
<1> QED BY <1>1, <1>2, <1>3

\* The pin of a blob.
LEMMA PinStep ==
    ASSUME IInv, TInv', NEW k \in Handlers, PinUpdate(k)
    PROVE  IInv'
<1> DEFINE h == co[k].hash
           b == db.blobs[h]
           d == At(co[k], "commit")
           new == [Referenced(b) EXCEPT !.pin = TRUE]
<1>1. /\ co[k].pc = "pin" /\ submits' = submits /\ file' = file /\ told' = told
      /\ Resume(k, d)
  BY DEF PinUpdate
<1>2. /\ co[k] \in Coroutine /\ HandlerOK(k) /\ co[k].op = "pin" /\ h \in Hashes
      /\ b.known /\ ~b.old /\ co[k].task = None /\ b \in Blob
  <2>1. co[k] \in Coroutine /\ HandlerOK(k)
    BY Shape DEF IInv
  <2>2. co[k].op = "pin" /\ h \in Hashes /\ b.known /\ ~b.old /\ co[k].task = None
    BY <1>1, <2>1 DEF HandlerOK, OpOK, HashOK, NeedsRow, TaskOK
  <2> QED BY <2>1, <2>2, Shape DEF IInv
<1>3. /\ d \in Coroutine /\ d.pc = "commit" /\ d.op = "pin" /\ d.hash = h /\ d.task = None
  BY <1>2, AtOK DEF PCs
<1> HIDE DEF d
<1>4. co'[k] = d
  BY <1>1, <1>3, MoveOK, Shape DEF IInv, TInv
<1>5. ASSUME ~db'.blobs[h].old PROVE HandlerOK(k)'
  <2>1. OpOK(k)'
    BY <1>3, <1>4 DEF OpOK, Storing
  <2>2. HashOK(k)'
    BY <1>2, <1>3, <1>4, <1>5 DEF HashOK, NeedsRow
  <2>3. TaskOK(k)'
    BY <1>3, <1>4 DEF TaskOK, Makers
  <2>4. RefOK(k)'
    BY <1>3, <1>4 DEF RefOK
  <2> QED BY <2>1, <2>2, <2>3, <2>4 DEF HandlerOK
<1>6. d.op \notin Makers /\ d.op # "submit" /\ d.pc # "ref" /\ co[k].pc # "ref"
  BY <1>1, <1>3 DEF Makers
<1>7. CASE b.pin
  <2>1. db' = db
    BY <1>7 DEF PinUpdate
  <2> QED BY <1>1, <1>2, <1>3, <1>5, <1>6, <2>1, QuietStep
<1>8. CASE ~b.pin
  <2>1. SetBlob(h, new)
    BY <1>2, <1>8 DEF PinUpdate
  <2>2. new \in Blob /\ new.known /\ new.pin /\ new.old = b.old
    <3>1. Referenced(b) \in Blob /\ Referenced(b).known /\ Referenced(b).old = b.old
      BY <1>2 DEF Referenced, Blob
    <3> QED BY <3>1 DEF Blob
  <2>3. CountOK(new, Counted(db, co, h))
    <3>1. CountOK(b, Counted(db, co, h)) /\ Counted(db, co, h) \in SUBSET (Tasks \X Columns)
      BY <1>2, CountedFinite DEF IInv, CountInv
    <3> QED BY <1>2, <1>8, <3>1, CountPinned
  <2> HIDE DEF new
  <2>4. ~db'.blobs[h].old
    BY <1>2, <2>1, <2>2, SetBlobOK, Shape DEF IInv
  <2>5. HandlerOK(k)'
    BY <1>5, <2>4
  <2>6. /\ (\A j \in Handlers : HandlerOK(j)') /\ MaintOK' /\ GcOK' /\ Apart' /\ StoreInv'
        /\ db'.tasks = db.tasks /\ \A j \in Coros \ {k} : co'[j] = co[j]
        /\ \A g \in Hashes : db'.blobs[g] = IF g = h THEN new ELSE db.blobs[g]
    BY <1>1, <1>2, <1>3, <1>6, <2>1, <2>2, <2>5, RowStep
  <2>7. CountInv'
    <3>1. \A g \in Hashes : Counted(db', co', g) = Counted(db, co, g)
      <4>1. co'[Maint] = co[Maint] /\ \A j \in Handlers \ {k} : co'[j] = co[j]
        BY <2>6, Shape DEF IInv
      <4> QED BY <1>4, <1>6, <2>6, <4>1, QuietCount DEF IInv
    <3>2. ASSUME NEW g \in Hashes PROVE CountOK(db'.blobs[g], Counted(db', co', g))
      <4>1. CASE g = h
        BY <2>3, <2>6, <3>1, <4>1
      <4>2. CASE g # h
        BY <2>6, <3>1, <4>2 DEF IInv, CountInv
      <4> QED BY <4>1, <4>2
    <3> QED BY <3>2 DEF CountInv
  <2> QED BY <2>6, <2>7 DEF IInv
<1> QED BY <1>7, <1>8

\* A handler at its references.
LEMMA AtReference ==
    ASSUME IInv, NEW k \in Handlers, co[k].pc = "ref", NEW col \in co[k].cols
    PROVE  /\ co[k] \in Coroutine /\ HandlerOK(k) /\ col \in Columns
           /\ co[k].op \in Makers \cup {"submit"} /\ co[k].hash \in Hashes
           /\ co[k].held[col] \in Hashes /\ db.blobs[co[k].held[col]].known
           /\ db.blobs[co[k].held[col]].refs > 0 \/ ~db.blobs[co[k].held[col]].old
           /\ co[k].op = "submit" => db.blobs[co[k].hash].known
           /\ co[k].task \in Tasks /\ db.tasks[co[k].task].phase \in AtWork
<1>1. /\ co[k] \in Coroutine /\ HandlerOK(k) /\ co[k].cols \subseteq Columns
      /\ Runner \in Hashes /\ None \notin Hashes
  BY Shape DEF IInv, Coroutine
<1>2. /\ co[k].op \in Makers \cup {"submit"} /\ co[k].hash \in Hashes
      /\ db.blobs[co[k].held[col]].known /\ co[k].held[col] \in {Runner, co[k].hash}
      /\ co[k].op = "submit" => db.blobs[co[k].hash].known
      /\ co[k].task \in Tasks /\ db.tasks[co[k].task].phase \in AtWork
      /\ ~db.blobs[co[k].hash].old
  <2>1. co[k].op \in Makers \cup {"submit"}
    BY <1>1 DEF HandlerOK, OpOK
  <2>2. co[k].hash \in Hashes
    BY <1>1, <2>1 DEF HandlerOK, HashOK, Makers
  <2>3. /\ db.blobs[co[k].held[col]].known /\ co[k].held[col] \in {Runner, co[k].hash}
    BY <1>1 DEF HandlerOK, RefOK
  <2>4. /\ co[k].op = "submit" => db.blobs[co[k].hash].known
        /\ ~db.blobs[co[k].hash].old
    BY <1>1, <2>2 DEF HandlerOK, HashOK, NeedsRow
  <2>5. co[k].task \in Tasks /\ db.tasks[co[k].task].phase \in AtWork
    BY <1>1, <2>1 DEF HandlerOK, TaskOK
  <2> QED BY <2>1, <2>2, <2>3, <2>4, <2>5
<1>3. db.blobs[Runner].refs > 0
  <2>1. /\ db.blobs[Runner].known /\ db.blobs[Runner].pin /\ db.blobs[Runner] \in Blob
        /\ CountOK(db.blobs[Runner], Counted(db, co, Runner))
        /\ Counted(db, co, Runner) \in SUBSET (Tasks \X Columns)
    BY <1>1, Shape, CountedFinite DEF IInv, StoreInv, CountInv
  <2> QED BY <2>1, CountedKnown
<1> QED BY <1>1, <1>2, <1>3

\* The references of an existing task are taken, one column after the other.
LEMMA TakeStep ==
    ASSUME IInv, TInv', NEW k \in Handlers, TakeReference(k)
    PROVE  IInv'
<1>1. co[k].pc = "ref"
  BY DEF TakeReference
<1>2. PICK col \in co[k].cols :
        /\ IF co[k].op = "submit" /\ ~db.blobs[co[k].hash].known
           THEN db' = disk /\ Resume(k, Idle)
           ELSE /\ SetBlob(co[k].held[col], Referenced(db.blobs[co[k].held[col]]))
                /\ Resume(k, Done(co[k], col, "commit", "ref"))
        /\ UNCHANGED <<disk, file, told, uploads, submits, crashes>>
  BY DEF TakeReference, Done
<1> DEFINE c == co[k]
           h == c.held[col]
           b == db.blobs[h]
           d == Done(c, col, "commit", "ref")
           p == <<c.task, col>>
<1>3. /\ c \in Coroutine /\ HandlerOK(k) /\ col \in Columns
      /\ c.op \in Makers \cup {"submit"} /\ c.hash \in Hashes
      /\ h \in Hashes /\ b.known /\ (b.refs > 0 \/ ~b.old)
      /\ c.op = "submit" => db.blobs[c.hash].known
      /\ c.task \in Tasks /\ db.tasks[c.task].phase \in AtWork
  BY <1>1, AtReference
<1>4. /\ SetBlob(h, Referenced(b)) /\ Resume(k, d)
      /\ file' = file /\ told' = told /\ submits' = submits
  BY <1>2, <1>3
<1>5. /\ d \in Coroutine /\ d.pc = (IF c.cols = {col} THEN "commit" ELSE "ref")
      /\ d.op = c.op /\ d.hash = c.hash /\ d.task = c.task /\ d.held = c.held
      /\ d.cols = c.cols \ {col}
  <2>1. "commit" \in PCs /\ "ref" \in PCs
    BY DEF PCs
  <2> QED BY <1>3, <2>1, DoneOK
<1> HIDE DEF d
<1>6. /\ b \in Blob /\ Referenced(b) \in Blob /\ Referenced(b).known
      /\ Referenced(b).known = b.known /\ Referenced(b).pin = b.pin /\ Referenced(b).old = b.old
  <2>1. b \in Blob
    BY <1>3, Shape DEF IInv
  <2> QED BY <1>3, <2>1, BlobOK DEF Referenced, Blob
<1>7. /\ co'[k] = d /\ db'.tasks = db.tasks
      /\ \A g \in Hashes : db'.blobs[g] = IF g = h THEN Referenced(b) ELSE db.blobs[g]
  <2>1. TypeOK /\ k \in Coros /\ db \in Table
    BY Shape DEF IInv, TInv
  <2>2. co'[k] = d
    BY <1>4, <1>5, <2>1, MoveOK
  <2> HIDE DEF h, b
  <2>3. /\ db'.tasks = db.tasks
        /\ \A g \in Hashes : db'.blobs[g] = IF g = h THEN Referenced(b) ELSE db.blobs[g]
    BY <1>4, <1>6, <2>1, SetBlobOK
  <2> QED BY <2>2, <2>3
<1>8. HandlerOK(k)'
  <2>0. \A g \in Hashes : /\ db'.blobs[g].known = db.blobs[g].known
                          /\ db'.blobs[g].old = db.blobs[g].old
    BY <1>3, <1>6, <1>7
  <2>1. OpOK(k)'
    BY <1>3, <1>5, <1>7 DEF OpOK, Storing
  <2>2. HashOK(k)'
    <3>1. NeedsRow(k)' => NeedsRow(k)
      BY <1>1, <1>5, <1>7 DEF NeedsRow
    <3>2. co'[k].hash = c.hash /\ co'[k].op = c.op /\ co'[k].pc # "insert"
      BY <1>5, <1>7
    <3> QED BY <1>3, <2>0, <3>1, <3>2 DEF HashOK, HandlerOK
  <2>3. TaskOK(k)'
    BY <1>1, <1>3, <1>4, <1>5, <1>7 DEF TaskOK, HandlerOK
  <2>4. RefOK(k)'
    <3>1. \A e \in c.cols : c.held[e] \in Hashes /\ db.blobs[c.held[e]].known
      BY <1>1, AtReference
    <3> QED BY <1>1, <1>3, <1>5, <1>7, <2>0, <3>1 DEF RefOK, HandlerOK
  <2> QED BY <2>1, <2>2, <2>3, <2>4 DEF HandlerOK
<1>9. /\ (\A j \in Handlers : HandlerOK(j)') /\ MaintOK' /\ GcOK' /\ Apart' /\ StoreInv'
      /\ \A j \in Coros \ {k} : co'[j] = co[j]
  <2>1. /\ db.blobs[h].known /\ (db.blobs[h].refs > 0 \/ ~db.blobs[h].old)
        /\ Referenced(b).old => db.blobs[h].old
        /\ db.blobs[h].known /\ db.blobs[h].pin => Referenced(b).pin
    BY <1>3, <1>6
  <2>2. /\ d.op \in Makers => co[k].op \in Makers /\ d.task = co[k].task
        /\ d.op = "submit" => co[k].op = "submit" /\ d.task = co[k].task
    BY <1>5
  <2>3. h \in Hashes /\ Referenced(b) \in Blob /\ Referenced(b).known
    BY <1>3, <1>6
  <2> HIDE DEF h, b
  <2> QED BY <1>4, <1>5, <1>8, <2>1, <2>2, <2>3, RowStep
<1>10. CountInv'
  <2>0. co'[Maint] = co[Maint] /\ (\A j \in Handlers \ {k} : co'[j] = co[j])
        /\ References(db, h) \subseteq Tasks \X Columns /\ p \in Tasks \X Columns
    BY <1>3, <1>9, Shape DEF IInv, References
  <2>1. \A g \in Hashes : References(db', g) = References(db, g)
    BY <1>7 DEF References, Exists
  <2>2. ASSUME NEW q \in Tasks \X Columns, NEW g, Pends(c, q, g)
        PROVE  Pends(d, q, g) \/ (q = p /\ g = h)
    BY <1>1, <1>5, <2>2 DEF Pends
  <2>3. ASSUME NEW q \in Tasks \X Columns, NEW g, Pends(d, q, g)
        PROVE  Pends(c, q, g) /\ q # p
    BY <1>1, <1>5, <2>3 DEF Pends
  <2>4. ASSUME NEW g \in Hashes
        PROVE  /\ g # h => Counted(db', co', g) = Counted(db, co, g)
               /\ Counted(db', co', h) \subseteq Counted(db, co, h) \cup {p}
               /\ Counted(db, co, h) \subseteq Counted(db', co', h)
    <3>1. \A q \in Tasks \X Columns : \A j \in Handlers :
             /\ Pends(co'[j], q, g) => Pends(co[j], q, g)
             /\ Pends(co'[j], q, h) => Pends(co[j], q, h)
             /\ g # h /\ Pends(co[j], q, g) => Pends(co'[j], q, g)
             /\ q # p /\ Pends(co[j], q, h) => Pends(co'[j], q, h)
      BY <1>7, <2>0, <2>2, <2>3
    <3>2. g # h => Counted(db', co', g) = Counted(db, co, g)
      BY <2>0, <2>1, <3>1 DEF Counted, References
    <3>3. Counted(db', co', h) \subseteq Counted(db, co, h) \cup {p}
      BY <1>3, <2>0, <2>1, <3>1 DEF Counted, References
    <3>4. Counted(db, co, h) \subseteq Counted(db', co', h)
      BY <1>3, <2>0, <2>1, <3>1 DEF Counted, References
    <3> QED BY <3>2, <3>3, <3>4
  <2>5. p \notin Counted(db, co, h)
    <3>1. Pends(co[k], p, h)
      BY <1>1 DEF Pends
    <3> QED BY <3>1 DEF Counted
  <2>6. Once => p \in Counted(db', co', h)
    <3> SUFFICES ASSUME Once PROVE p \in Counted(db', co', h)
      OBVIOUS
    <3>1. p \in References(db', h)
      <4>1. db.tasks[c.task].hash[col] = h
        BY <1>1, <1>3 DEF HandlerOK, RefOK
      <4>2. p \in References(db, h)
        BY <1>3, <4>1 DEF References, Exists, AtWork
      <4> QED BY <1>3, <2>1, <4>2
    <3>2. ~Undone(co'[Maint], p, h)
      <4>1. co[Maint].pc \in {"release", "delete"} => db.tasks[co[Maint].task].phase = "expired"
        BY DEF IInv, MaintOK
      <4> QED BY <1>3, <2>0, <4>1 DEF Undone, AtWork
    <3>3. ASSUME NEW j \in Handlers PROVE ~Pends(co'[j], p, h)
      <4>1. CASE j = k
        BY <1>5, <1>7, <4>1 DEF Pends
      <4>2. CASE j # k
        <5> SUFFICES ASSUME Pends(co[j], p, h) PROVE FALSE
          BY <2>0, <4>2
        <5>1. co[j].pc = "ref" /\ co[j].task = c.task /\ col \in co[j].cols /\ HandlerOK(j)
          BY DEF Pends, IInv
        <5>2. co[j].op = "submit" <=> col = "output"
          BY <5>1 DEF HandlerOK, OpOK, RefOK
        <5>3. c.op = "submit" <=> col = "output"
          BY <1>1, <1>3 DEF HandlerOK, OpOK, RefOK
        <5>4. co[j].op \in Makers \cup {"submit"}
          BY <5>1 DEF HandlerOK, OpOK
        <5>5. Alone(j, k)
          BY <4>2 DEF IInv, Apart
        <5> QED BY <1>3, <5>1, <5>2, <5>3, <5>4, <5>5 DEF Alone
      <4> QED BY <4>1, <4>2
    <3> QED BY <3>1, <3>2, <3>3 DEF Counted
  <2>7. ASSUME NEW g \in Hashes PROVE CountOK(db'.blobs[g], Counted(db', co', g))
    <3>1. CASE g = h
      <4>1. CountOK(b, Counted(db, co, h))
        BY <1>3 DEF IInv, CountInv
      <4>2. /\ Counted(db, co, h) \in SUBSET (Tasks \X Columns)
            /\ Counted(db', co', h) \in SUBSET (Tasks \X Columns)
        BY CountedFinite
      <4>3. Counted(db', co', h) \subseteq Counted(db, co, h) \cup {p}
        BY <2>4, <3>1
      <4>4. Once => p \notin Counted(db, co, h) /\ Counted(db', co', h) = Counted(db, co, h) \cup {p}
        BY <2>4, <2>5, <2>6, <3>1
      <4>5. CountOK(Referenced(b), Counted(db', co', h))
        <5> HIDE DEF p, b
        <5> QED BY <1>3, <1>6, <4>1, <4>2, <4>3, <4>4, CountTaken
      <4> QED BY <1>7, <3>1, <4>5
    <3>2. CASE g # h
      BY <1>7, <2>4, <3>2 DEF IInv, CountInv
    <3> QED BY <3>1, <3>2
  <2> QED BY <2>7 DEF CountInv
<1> QED BY <1>9, <1>10 DEF IInv

\* A handler's step that writes the row of a task: all but the counts.
LEMMA TaskStep ==
    ASSUME IInv, TInv', NEW k \in Handlers, NEW c \in Coroutine, Resume(k, c),
           NEW t \in Tasks, NEW r \in TaskRow, SetTask(t, r),
           r.phase \in AtWork, db.tasks[t].phase # "expired",
           file' = file, told' = told, HandlerOK(k)', Apart',
           \A u \in Tasks : submits[u] > 0 => submits'[u] > 0,
           submits'[t] = 0 => r.hash["output"] \in {db.tasks[t].hash["output"], None},
           \A j \in Handlers \ {k} : co[j].task = t =>
              /\ co[j].op \in Makers =>
                    \A col \in {"executable", "input"} : r.hash[col] = db.tasks[t].hash[col]
              /\ co[j].op = "submit" /\ Once => r.hash["output"] = db.tasks[t].hash["output"]
    PROVE  /\ (\A j \in Handlers : HandlerOK(j)') /\ MaintOK' /\ GcOK' /\ Apart' /\ StoreInv'
           /\ db'.blobs = db.blobs /\ co'[k] = c /\ \A j \in Coros \ {k} : co'[j] = co[j]
           /\ \A u \in Tasks : db'.tasks[u] = IF u = t THEN r ELSE db.tasks[u]
<1>0. TypeOK /\ k \in Coros /\ Maint # k /\ Gc # k /\ Maint \in Coros /\ Gc \in Coros
      /\ Handlers \subseteq Coros /\ db \in Table
  BY Shape DEF IInv, TInv, Handlers
<1>1. co'[k] = c /\ \A j \in Coros \ {k} : co'[j] = co[j]
  BY <1>0, MoveOK
<1>2. /\ db'.blobs = db.blobs
      /\ \A u \in Tasks : db'.tasks[u] = IF u = t THEN r ELSE db.tasks[u]
  BY <1>0, SetTaskOK
<1>3. (\A j \in Handlers : HandlerOK(j)') /\ MaintOK' /\ GcOK'
  <2>1. db'.blobs[Runner].known
    BY <1>2 DEF IInv, StoreInv
  <2>2. \A g \in Hashes : HashKept(g)
    BY <1>2 DEF HashKept
  <2>3. ASSUME NEW j \in Handlers \ {k}, co[j].op \in Makers \cup {"submit", "finish"}
        PROVE  TaskKept(j)
    <3>1. co[j].task \in Tasks
      BY <2>3 DEF IInv, HandlerOK, TaskOK
    <3>2. CASE co[j].task = t
      BY <1>2, <3>1, <3>2 DEF TaskKept
    <3>3. CASE co[j].task # t
      BY <1>2, <3>1, <3>3 DEF TaskKept
    <3> QED BY <3>2, <3>3
  <2>4. \A u \in Tasks : db.tasks[u].phase = "expired" => db'.tasks[u] = db.tasks[u]
    BY <1>2
  <2> QED BY <1>1, <1>2, <2>1, <2>2, <2>3, <2>4, HandlerMoves
<1>4. StoreInv'
  <2>1. \A u \in Tasks : submits'[u] = 0 =>
           submits[u] = 0 /\ db'.tasks[u].hash["output"] \in {db.tasks[u].hash["output"], None}
    <3> SUFFICES ASSUME NEW u \in Tasks, submits'[u] = 0
                 PROVE  submits[u] = 0 /\ db'.tasks[u].hash["output"] \in {db.tasks[u].hash["output"], None}
      OBVIOUS
    <3>1. submits[u] = 0
      BY Shape DEF IInv
    <3> QED BY <1>2, <3>1
  <2> QED BY <1>0, <1>1, <1>2, <2>1, StoreKept DEF IInv
<1> QED BY <1>1, <1>2, <1>3, <1>4

\* Nothing is counted of it yet: a handler writes columns of a row, which are then
\* pending, and no others are counted.
LEMMA PendingCount ==
    ASSUME IInv, TInv', NEW k \in Handlers, \A j \in Coros \ {k} : co'[j] = co[j],
           db'.blobs = db.blobs,
           \A h \in Hashes : \A p \in Tasks \X Columns :
              /\ p \in References(db', h) /\ ~Pends(co'[k], p, h) =>
                    p \in References(db, h) /\ ~Pends(co[k], p, h)
              /\ Once /\ p \in References(db, h) /\ ~Pends(co[k], p, h) =>
                    p \in References(db', h) /\ ~Pends(co'[k], p, h)
    PROVE  CountInv'
<1>1. Maint \in Coros \ {k} /\ Handlers \subseteq Coros
  BY Shape DEF IInv, Handlers
<1> SUFFICES ASSUME NEW h \in Hashes PROVE CountOK(db'.blobs[h], Counted(db', co', h))
  BY DEF CountInv
<1>2. \A g : References(db, g) \subseteq Tasks \X Columns /\ References(db', g) \subseteq Tasks \X Columns
  BY DEF References
<1>3. Counted(db', co', h) \in SUBSET Counted(db, co, h)
  BY <1>1, <1>2 DEF Counted
<1>4. Once => Counted(db', co', h) = Counted(db, co, h)
  BY <1>1, <1>2, <1>3 DEF Counted
<1>5. /\ db'.blobs[h] = db.blobs[h] /\ db.blobs[h] \in Blob
      /\ CountOK(db.blobs[h], Counted(db, co, h))
      /\ Counted(db, co, h) \in SUBSET (Tasks \X Columns)
  BY Shape, CountedFinite DEF IInv, CountInv
<1> QED BY <1>3, <1>4, <1>5, CountSame

\* A task is created.
LEMMA CreateStep ==
    ASSUME IInv, TInv', NEW k \in Coros, NEW t \in Tasks, NEW h \in Hashes, ~db.blobs[h].old,
           NEW op \in {"create", "transcribe"}, NEW input \in {h, None},
           CreateRow(k, t, op, h, input),
           op = "create" => db.blobs[h].known /\ input = h, op = "transcribe" => input = None
    PROVE  IInv'
<1> DEFINE held == [Nothing EXCEPT !["executable"] = Runner, !["input"] = input]
           cols == {col \in Columns : held[col] # None}
           c == Made(op, t, h, held, cols)
           r == [phase |-> "live", hash |-> held]
<1>1. /\ Resume(k, c) /\ SetTask(t, r) /\ k \in Handlers /\ co[k].pc = "idle"
      /\ db.tasks[t].phase = "absent" /\ \A j \in Coros : co[j].task # t
      /\ file' = file /\ told' = told /\ submits' = submits
  BY DEF CreateRow, Made, Free, Handlers
<1>2. /\ held \in Holding /\ cols \in SUBSET Columns
      /\ held["executable"] = Runner /\ held["input"] = input /\ held["output"] = None
      /\ cols = {"executable"} \cup (IF input = None THEN {} ELSE {"input"})
      /\ Runner \in Hashes /\ Runner # None /\ h # None
  BY DEF Nothing, Holding, Columns
<1> HIDE DEF held, cols
<1>3. /\ c \in Coroutine /\ c.pc = "ref" /\ c.op = op /\ c.hash = h /\ c.task = t
      /\ c.cols = cols /\ c.held = held
  <2>1. op \in Ops
    BY DEF Ops
  <2> QED BY <1>2, <2>1, MadeOK
<1>4. r \in TaskRow /\ r.phase = "live" /\ r.hash = held
  BY <1>2 DEF TaskRow
<1> HIDE DEF c, r
<1>5. TypeOK /\ k \in Coros /\ Handlers \subseteq Coros /\ db \in Table
  BY Shape DEF IInv, TInv
<1>6. co'[k] = c /\ \A j \in Coros \ {k} : co'[j] = co[j]
  BY <1>1, <1>3, <1>5, MoveOK
<1>7. db'.blobs = db.blobs /\ \A u \in Tasks : db'.tasks[u] = IF u = t THEN r ELSE db.tasks[u]
  BY <1>1, <1>4, <1>5, SetTaskOK
<1>8. HandlerOK(k)'
  <2>1. OpOK(k)'
    BY <1>3, <1>6 DEF OpOK, Makers, Storing
  <2>2. HashOK(k)'
    BY <1>3, <1>6, <1>7 DEF HashOK, NeedsRow
  <2>3. TaskOK(k)'
    BY <1>2, <1>3, <1>4, <1>6, <1>7 DEF TaskOK, Makers, AtWork
  <2>4. RefOK(k)'
    <3>1. db.blobs[Runner].known
      BY DEF IInv, StoreInv
    <3>2. ASSUME NEW col \in cols
          PROVE  /\ held[col] = IF col = "executable" THEN Runner ELSE h
                 /\ db'.blobs[held[col]].known /\ db'.tasks[t].hash[col] = held[col]
      BY <1>2, <1>4, <1>7, <3>1, <3>2
    <3>3. cols \subseteq {"executable", "input"} /\ op # "submit"
      BY <1>2
    <3> QED BY <1>3, <1>6, <3>2, <3>3 DEF RefOK
  <2> QED BY <2>1, <2>2, <2>3, <2>4 DEF HandlerOK
<1>9. Apart'
  <2> SUFFICES ASSUME NEW i \in Handlers, NEW j \in Handlers \ {i} PROVE Alone(i, j)'
    BY DEF Apart
  <2>1. CASE i # k /\ j # k
    BY <1>5, <1>6, <2>1 DEF IInv, Apart, Alone
  <2>2. CASE i = k \/ j = k
    BY <1>1, <1>3, <1>5, <1>6, <2>2 DEF Alone
  <2> QED BY <2>1, <2>2
<1>10. /\ (\A j \in Handlers : HandlerOK(j)') /\ MaintOK' /\ GcOK' /\ Apart' /\ StoreInv'
  <2>1. r.phase \in AtWork /\ db.tasks[t].phase # "expired" /\ r.hash["output"] = None
    BY <1>1, <1>2, <1>4 DEF AtWork
  <2>2. \A u \in Tasks : submits[u] > 0 => submits'[u] > 0
    BY <1>1
  <2> QED BY <1>1, <1>3, <1>4, <1>5, <1>8, <1>9, <2>1, <2>2, TaskStep
<1>11. CountInv'
  <2>1. ASSUME NEW g \in Hashes, NEW p \in Tasks \X Columns
        PROVE  /\ p \in References(db', g) /\ ~Pends(co'[k], p, g) =>
                     p \in References(db, g) /\ ~Pends(co[k], p, g)
               /\ Once /\ p \in References(db, g) /\ ~Pends(co[k], p, g) =>
                     p \in References(db', g) /\ ~Pends(co'[k], p, g)
    <3>1. ~Pends(co[k], p, g)
      BY <1>1 DEF Pends
    <3>2. CASE p[1] # t
      <4>1. ~Pends(co'[k], p, g)
        BY <1>3, <1>6, <3>2 DEF Pends
      <4>2. p \in References(db', g) <=> p \in References(db, g)
        BY <1>7, <3>2 DEF References, Exists
      <4> QED BY <3>1, <4>1, <4>2
    <3>3. CASE p[1] = t
      <4>1. p \notin References(db, g)
        BY <1>1, <3>3 DEF References, Exists
      <4>2. p \in References(db', g) => p[2] \in Columns /\ held[p[2]] = g
        BY <1>4, <1>7, <3>3 DEF References
      <4>3. p \in References(db', g) => Pends(co'[k], p, g)
        <5>1. p \in References(db', g) => p[2] \in cols
          BY <4>2 DEF cols
        <5> QED BY <1>3, <1>6, <3>3, <4>2, <5>1 DEF Pends
      <4> QED BY <4>1, <4>3
    <3> QED BY <3>2, <3>3
  <2> QED BY <1>1, <1>6, <1>7, <2>1, PendingCount
<1> QED BY <1>10, <1>11 DEF IInv

\* set_queued writes the input of a task.
LEMMA SetInputStep ==
    ASSUME IInv, TInv', NEW k \in Handlers, SetInput(k)
    PROVE  IInv'
<1> DEFINE t == co[k].task
           h == co[k].hash
           d == Input(co[k])
           r == [db.tasks[t] EXCEPT !.hash["input"] = h]
<1>1. /\ Resume(k, d) /\ SetTask(t, r) /\ co[k].pc = "set_input"
      /\ file' = file /\ told' = told /\ submits' = submits
  BY DEF SetInput, Input
<1>2. co[k] \in Coroutine /\ HandlerOK(k) /\ co[k].op = "prepare"
  BY <1>1, Shape DEF IInv, HandlerOK, OpOK
<1>3. /\ h \in Hashes /\ h # None /\ db.blobs[h].known /\ ~db.blobs[h].old
      /\ t \in Tasks /\ db.tasks[t].phase \in AtWork /\ db.tasks[t].hash["input"] = None
  <2>1. h \in Hashes
    BY <1>2 DEF HandlerOK, HashOK
  <2> QED BY <1>1, <1>2, <2>1 DEF HandlerOK, HashOK, NeedsRow, TaskOK, Makers
<1>4. /\ d \in Coroutine /\ d.pc = "ref" /\ d.op = "prepare" /\ d.hash = h /\ d.task = t
      /\ d.cols = {"input"} /\ d.held["input"] = h
  <2>1. /\ d \in Coroutine /\ d.pc = "ref" /\ d.op = "prepare" /\ d.hash = h /\ d.task = t
        /\ d.cols = {"input"} /\ d.held = [Nothing EXCEPT !["input"] = h]
    BY <1>2, InputOK
  <2> QED BY <2>1 DEF Nothing, Columns
<1>5. /\ r \in TaskRow /\ r.phase = db.tasks[t].phase /\ r.hash["input"] = h
      /\ \A col \in Columns \ {"input"} : r.hash[col] = db.tasks[t].hash[col]
  BY <1>3, Shape DEF IInv, TaskRow, Holding, Columns
<1> HIDE DEF d, r
<1>6. TypeOK /\ k \in Coros /\ Handlers \subseteq Coros /\ db \in Table
  BY Shape DEF IInv, TInv
<1>7. co'[k] = d /\ \A j \in Coros \ {k} : co'[j] = co[j]
  BY <1>1, <1>4, <1>6, MoveOK
<1>8. db'.blobs = db.blobs /\ \A u \in Tasks : db'.tasks[u] = IF u = t THEN r ELSE db.tasks[u]
  <2> HIDE DEF t
  <2> QED BY <1>1, <1>5, <1>6, SetTaskOK
<1>9. HandlerOK(k)'
  <2>1. OpOK(k)'
    BY <1>4, <1>7 DEF OpOK, Makers, Storing
  <2>2. HashOK(k)'
    BY <1>3, <1>4, <1>7, <1>8 DEF HashOK, NeedsRow
  <2>3. TaskOK(k)'
    BY <1>3, <1>4, <1>5, <1>7, <1>8 DEF TaskOK, Makers
  <2>4. RefOK(k)'
    BY <1>3, <1>4, <1>5, <1>7, <1>8 DEF RefOK
  <2> QED BY <2>1, <2>2, <2>3, <2>4 DEF HandlerOK
<1>10. Apart'
  <2>1. d.op \in Makers => co[k].op \in Makers /\ d.task = co[k].task
    BY <1>2, <1>4
  <2> QED BY <1>4, <1>6, <1>7, <2>1, StaysApart DEF IInv
<1>11. (\A j \in Handlers : HandlerOK(j)') /\ MaintOK' /\ GcOK' /\ Apart' /\ StoreInv'
  <2>1. r.phase \in AtWork /\ db.tasks[t].phase # "expired"
        /\ r.hash["output"] \in {db.tasks[t].hash["output"], None}
    BY <1>3, <1>5 DEF AtWork, Columns
  <2>2. ASSUME NEW j \in Handlers \ {k}, co[j].task = t
        PROVE  /\ co[j].op \notin Makers
               /\ co[j].op = "submit" /\ Once => r.hash["output"] = db.tasks[t].hash["output"]
    <3>1. Alone(j, k)
      BY DEF IInv, Apart
    <3> QED BY <1>2, <1>5, <2>2, <3>1 DEF Alone, Makers, Columns
  <2>3. \A u \in Tasks : submits[u] > 0 => submits'[u] > 0
    BY <1>1
  <2> HIDE DEF t
  <2> QED BY <1>1, <1>3, <1>4, <1>5, <1>9, <1>10, <2>1, <2>2, <2>3, TaskStep
<1>12. CountInv'
  <2>1. ASSUME NEW g \in Hashes, NEW p \in Tasks \X Columns
        PROVE  /\ p \in References(db', g) /\ ~Pends(co'[k], p, g) =>
                     p \in References(db, g) /\ ~Pends(co[k], p, g)
               /\ Once /\ p \in References(db, g) /\ ~Pends(co[k], p, g) =>
                     p \in References(db', g) /\ ~Pends(co'[k], p, g)
    <3>1. ~Pends(co[k], p, g) /\ p[1] \in Tasks /\ p[2] \in Columns
      BY <1>1 DEF Pends
    <3>2. CASE ~(p[1] = t /\ p[2] = "input")
      <4>1. ~Pends(co'[k], p, g)
        BY <1>4, <1>7, <3>2 DEF Pends
      <4>2. p \in References(db', g) <=> p \in References(db, g)
        <5>1. db'.tasks[p[1]].hash[p[2]] = db.tasks[p[1]].hash[p[2]]
          BY <1>5, <1>8, <3>1, <3>2
        <5>2. db'.tasks[p[1]].phase = db.tasks[p[1]].phase
          BY <1>5, <1>8, <3>1
        <5> QED BY <5>1, <5>2 DEF References, Exists
      <4> QED BY <3>1, <4>1, <4>2
    <3>3. CASE p[1] = t /\ p[2] = "input"
      <4>1. p \notin References(db, g)
        BY <1>3, <3>3 DEF References
      <4>2. p \in References(db', g) => Pends(co'[k], p, g)
        BY <1>3, <1>4, <1>5, <1>7, <1>8, <3>3 DEF References, Pends
      <4> QED BY <3>1, <4>1, <4>2
    <3> QED BY <3>2, <3>3
  <2> QED BY <1>6, <1>7, <1>8, <2>1, PendingCount
<1> QED BY <1>11, <1>12 DEF IInv

\* A result is submitted.
LEMMA SubmitStep ==
    ASSUME Calm, IInv, TInv', NEW k \in Coros, NEW t \in Tasks, NEW h \in Hashes, Submit(k, t, h)
    PROVE  IInv'
<1> DEFINE held == [Nothing EXCEPT !["output"] = h]
           d == Made("submit", t, h, held, {"output"})
           r == [db.tasks[t] EXCEPT !.hash["output"] = h]
<1>1. /\ Resume(k, d) /\ SetTask(t, r) /\ k \in Handlers /\ co[k].pc = "idle"
      /\ file' = file /\ told' = told /\ submits' = [submits EXCEPT ![t] = @ + 1]
      /\ submits[t] < MaxSubmits /\ db.tasks[t].phase \in AtWork
      /\ h \in told /\ ~db.blobs[h].old
  BY DEF Submit, Made, Free, Handlers, AtWork, Named, Timely, Calm
<1>2. held \in Holding /\ held["output"] = h /\ {"output"} \in SUBSET Columns
      /\ "submit" \in Ops /\ h # None
  BY DEF Nothing, Holding, Columns, Ops
<1> HIDE DEF held
<1>3. db.blobs[h].known
  BY <1>1 DEF IInv, StoreInv
<1>4. /\ d \in Coroutine /\ d.pc = "ref" /\ d.op = "submit" /\ d.hash = h /\ d.task = t
      /\ d.cols = {"output"} /\ d.held["output"] = h
  BY <1>2, MadeOK
<1>5. /\ r \in TaskRow /\ r.phase = db.tasks[t].phase /\ r.hash["output"] = h
      /\ \A col \in Columns \ {"output"} : r.hash[col] = db.tasks[t].hash[col]
  BY Shape DEF IInv, TaskRow, Holding, Columns
<1> HIDE DEF d, r
<1>6. TypeOK /\ k \in Coros /\ Handlers \subseteq Coros /\ db \in Table
  BY Shape DEF IInv, TInv
<1>7. co'[k] = d /\ \A j \in Coros \ {k} : co'[j] = co[j]
  BY <1>1, <1>4, <1>6, MoveOK
<1>8. db'.blobs = db.blobs /\ \A u \in Tasks : db'.tasks[u] = IF u = t THEN r ELSE db.tasks[u]
  BY <1>1, <1>5, <1>6, SetTaskOK
<1>9. /\ \A u \in Tasks : submits[u] > 0 => submits'[u] > 0
      /\ submits'[t] > 0
      /\ Once => submits[t] = 0
  <2>1. \A u \in Tasks : submits[u] \in 0..MaxSubmits
    BY <1>6 DEF TypeOK
  <2>2. submits \in [Tasks -> 0..MaxSubmits]
    BY <1>6 DEF TypeOK
  <2>3. submits'[t] = submits[t] + 1
    BY <1>1, <2>2
  <2>4. ASSUME NEW u \in Tasks, submits[u] > 0 PROVE submits'[u] > 0
    BY <1>1, <2>1, <2>2, <2>4
  <2>5. submits'[t] > 0
    BY <2>1, <2>3
  <2>6. Once => submits[t] = 0
    BY <1>1, <2>1 DEF Once
  <2> QED BY <2>4, <2>5, <2>6
<1>10. HandlerOK(k)'
  <2>1. OpOK(k)'
    BY <1>4, <1>7 DEF OpOK, Makers, Storing
  <2>2. HashOK(k)'
    BY <1>1, <1>3, <1>4, <1>7, <1>8 DEF HashOK, NeedsRow
  <2>3. TaskOK(k)'
    BY <1>1, <1>4, <1>5, <1>7, <1>8, <1>9 DEF TaskOK, Makers
  <2>4. RefOK(k)'
    BY <1>3, <1>4, <1>5, <1>7, <1>8 DEF RefOK
  <2> QED BY <2>1, <2>2, <2>3, <2>4 DEF HandlerOK
<1>11. \A j \in Handlers : Once /\ co[j].op = "submit" => co[j].task # t
  <2>1. \A j \in Handlers : co[j].op = "submit" => submits[co[j].task] > 0
    BY DEF IInv, HandlerOK, TaskOK
  <2> QED BY <1>9, <2>1
<1>12. Apart'
  <2> SUFFICES ASSUME NEW i \in Handlers, NEW j \in Handlers \ {i} PROVE Alone(i, j)'
    BY DEF Apart
  <2>1. CASE i # k /\ j # k
    BY <1>6, <1>7, <2>1 DEF IInv, Apart, Alone
  <2>2. CASE i = k \/ j = k
    BY <1>4, <1>6, <1>7, <1>11, <2>2 DEF Alone, Makers
  <2> QED BY <2>1, <2>2
<1>13. (\A j \in Handlers : HandlerOK(j)') /\ MaintOK' /\ GcOK' /\ Apart' /\ StoreInv'
  <2>1. r.phase \in AtWork /\ db.tasks[t].phase # "expired" /\ submits'[t] # 0
    BY <1>1, <1>5, <1>9 DEF AtWork
  <2>2. ASSUME NEW j \in Handlers \ {k}, co[j].task = t
        PROVE  /\ \A col \in {"executable", "input"} : r.hash[col] = db.tasks[t].hash[col]
               /\ ~(co[j].op = "submit" /\ Once)
    BY <1>5, <1>11, <2>2 DEF Columns
  <2> QED BY <1>1, <1>4, <1>5, <1>9, <1>10, <1>12, <2>1, <2>2, TaskStep
<1>14. CountInv'
  <2>1. ASSUME NEW g \in Hashes, NEW p \in Tasks \X Columns
        PROVE  /\ p \in References(db', g) /\ ~Pends(co'[k], p, g) =>
                     p \in References(db, g) /\ ~Pends(co[k], p, g)
               /\ Once /\ p \in References(db, g) /\ ~Pends(co[k], p, g) =>
                     p \in References(db', g) /\ ~Pends(co'[k], p, g)
    <3>1. ~Pends(co[k], p, g) /\ p[1] \in Tasks /\ p[2] \in Columns
      BY <1>1 DEF Pends
    <3>2. CASE ~(p[1] = t /\ p[2] = "output")
      <4>1. ~Pends(co'[k], p, g)
        BY <1>4, <1>7, <3>2 DEF Pends
      <4>2. p \in References(db', g) <=> p \in References(db, g)
        <5>1. db'.tasks[p[1]].hash[p[2]] = db.tasks[p[1]].hash[p[2]]
          BY <1>5, <1>8, <3>1, <3>2
        <5>2. db'.tasks[p[1]].phase = db.tasks[p[1]].phase
          BY <1>5, <1>8, <3>1
        <5> QED BY <5>1, <5>2 DEF References, Exists
      <4> QED BY <3>1, <4>1, <4>2
    <3>3. CASE p[1] = t /\ p[2] = "output"
      <4>1. Once => p \notin References(db, g)
        <5>1. Once => db.tasks[t].hash["output"] = None
          BY <1>9 DEF IInv, StoreInv
        <5> QED BY <3>3, <5>1 DEF References
      <4>2. p \in References(db', g) => Pends(co'[k], p, g)
        BY <1>4, <1>5, <1>7, <1>8, <3>3 DEF References, Pends
      <4> QED BY <3>1, <4>1, <4>2
    <3> QED BY <3>2, <3>3
  <2> QED BY <1>1, <1>6, <1>7, <1>8, <2>1, PendingCount
<1> QED BY <1>13, <1>14 DEF IInv

\* A task comes to a verdict.
LEMMA FinishStep ==
    ASSUME IInv, TInv', NEW k \in Coros, NEW t \in Tasks, Finish(k, t)
    PROVE  IInv'
<1> DEFINE d == [At(Idle, "commit") EXCEPT !.op = "finish", !.task = t]
           r == [db.tasks[t] EXCEPT !.phase = "finished"]
<1>1. /\ Resume(k, d) /\ SetTask(t, r) /\ k \in Handlers /\ co[k].pc = "idle"
      /\ file' = file /\ told' = told /\ submits' = submits
      /\ db.tasks[t].phase = "live"
  BY DEF Finish, Free, Handlers
<1>2. /\ d \in Coroutine /\ d.pc = "commit" /\ d.op = "finish" /\ d.hash = None /\ d.task = t
  <2>1. /\ At(Idle, "commit") \in Coroutine /\ At(Idle, "commit").pc = "commit"
        /\ At(Idle, "commit").hash = None
    BY IdleOK, AtOK DEF PCs
  <2>2. "finish" \in Ops
    BY DEF Ops
  <2> QED BY <2>1, <2>2 DEF Coroutine
<1>3. /\ r \in TaskRow /\ r.phase = "finished" /\ r.hash = db.tasks[t].hash
  BY Shape DEF IInv, TaskRow
<1> HIDE DEF d, r
<1>4. TypeOK /\ k \in Coros /\ Handlers \subseteq Coros /\ db \in Table
  BY Shape DEF IInv, TInv
<1>5. co'[k] = d /\ \A j \in Coros \ {k} : co'[j] = co[j]
  BY <1>1, <1>2, <1>4, MoveOK
<1>6. db'.blobs = db.blobs /\ \A u \in Tasks : db'.tasks[u] = IF u = t THEN r ELSE db.tasks[u]
  BY <1>1, <1>3, <1>4, SetTaskOK
<1>7. HandlerOK(k)'
  <2>1. OpOK(k)'
    BY <1>2, <1>5 DEF OpOK, Makers, Storing
  <2>2. HashOK(k)'
    BY <1>2, <1>5 DEF HashOK, NeedsRow
  <2>3. TaskOK(k)'
    BY <1>2, <1>3, <1>5, <1>6 DEF TaskOK, Makers, AtWork
  <2>4. RefOK(k)'
    BY <1>2, <1>5 DEF RefOK
  <2> QED BY <2>1, <2>2, <2>3, <2>4 DEF HandlerOK
<1>8. Apart'
  <2>1. co'[k].op \notin Makers /\ co'[k].op # "submit"
    BY <1>2, <1>5 DEF Makers
  <2>2. k \in Handlers /\ Apart /\ \A j \in Handlers \ {k} : co'[j] = co[j]
    BY <1>1, <1>4, <1>5 DEF IInv
  <2> QED BY <2>1, <2>2, StaysApart
<1>9. (\A j \in Handlers : HandlerOK(j)') /\ MaintOK' /\ GcOK' /\ Apart' /\ StoreInv'
  <2>1. r.phase \in AtWork /\ db.tasks[t].phase # "expired"
    BY <1>1, <1>3 DEF AtWork
  <2>2. \A u \in Tasks : submits[u] > 0 => submits'[u] > 0
    BY <1>1
  <2> QED BY <1>1, <1>2, <1>3, <1>7, <1>8, <2>1, <2>2, TaskStep
<1>10. CountInv'
  <2>1. \A g : References(db', g) = References(db, g)
    <3>1. \A u \in Tasks : /\ db'.tasks[u].hash = db.tasks[u].hash
                           /\ Exists(db'.tasks, u) <=> Exists(db.tasks, u)
      BY <1>1, <1>3, <1>6 DEF Exists
    <3> QED BY <3>1 DEF References
  <2>2. \A g : \A p : ~Pends(co[k], p, g) /\ ~Pends(co'[k], p, g)
    BY <1>1, <1>2, <1>5 DEF Pends
  <2> QED BY <1>1, <1>5, <1>6, <2>1, <2>2, PendingCount
<1> QED BY <1>9, <1>10 DEF IInv

-----------------------------------------------------------------------------
(* The steps of the loops, and time.                                        *)

\* No handler moves.
LEMMA LoopMoves ==
    ASSUME IInv, \A j \in Handlers : co'[j] = co[j], db'.blobs[Runner].known,
           \A j \in Handlers : co[j].hash # None => HashKept(co[j].hash),
           \A j \in Handlers : co[j].op \in Makers \cup {"submit", "finish"} => TaskKept(j)
    PROVE  (\A j \in Handlers : HandlerOK(j)') /\ Apart'
<1>1. ASSUME NEW j \in Handlers PROVE HandlerOK(j)'
  <2>1. HandlerOK(j) /\ co'[j] = co[j] /\ co[j] \in Coroutine
    BY Shape DEF IInv
  <2> QED BY <2>1, HandlerKept
<1>2. Apart'
  <2> SUFFICES ASSUME NEW i \in Handlers, NEW j \in Handlers \ {i} PROVE Alone(i, j)'
    BY DEF Apart
  <2>1. Alone(i, j)
    BY DEF IInv, Apart
  <2> QED BY <2>1 DEF Alone
<1> QED BY <1>1, <1>2

\* The cleanup goes on to its next task, or to its commit.
LEMMA NextMaint ==
    ASSUME TInv, NEW c \in Coroutine, c.op \in {"none", "cleanup"}, c.hash = None, c.cols = {},
           co'[Maint] = NextTask(c),
           \A t \in c.todo : db.tasks[t].phase = "expired" /\ db'.tasks[t] = db.tasks[t]
    PROVE  MaintOK' /\ \A h \in Hashes : \A p \in Tasks \X Columns : ~Undone(co'[Maint], p, h)
<1>1. db \in Table /\ "cleanup_commit" \in PCs /\ c.todo \subseteq Tasks
  BY Shape DEF PCs, Coroutine
<1>2. CASE c.todo = {}
  <2> DEFINE d == At(c, "cleanup_commit")
  <2>1. co'[Maint] = d /\ d.pc = "cleanup_commit" /\ d.op = c.op /\ d.hash = None
        /\ d.cols = {} /\ d.todo = {}
    BY <1>1, <1>2, NextTaskOK, AtOK
  <2> HIDE DEF d
  <2> QED BY <2>1 DEF MaintOK, Undone
<1>3. CASE c.todo # {}
  <2> DEFINE d == NextTask(c)
  <2>1. /\ d.op = c.op /\ d.hash = None /\ d.pc = "release" /\ d.task \in c.todo
        /\ d.todo = c.todo \ {d.task} /\ d.held = db.tasks[d.task].hash
        /\ d.cols = {col \in Columns : d.held[col] # None}
    BY <1>1, <1>3, NextTaskOK
  <2> HIDE DEF d
  <2>2. co'[Maint] = d
    BY DEF d
  <2>3. MaintOK'
    BY <1>1, <2>1, <2>2 DEF MaintOK
  <2>4. ASSUME NEW h \in Hashes, NEW p \in Tasks \X Columns PROVE ~Undone(co'[Maint], p, h)
    <3>1. p[2] \in Columns /\ h # None
      OBVIOUS
    <3> QED BY <2>1, <2>2, <3>1 DEF Undone
  <2> QED BY <2>3, <2>4
<1> QED BY <1>2, <1>3

\* cleanup_expired: SELECT and commit.
LEMMA CleanupEnds ==
    ASSUME IInv, TInv', CleanupSelect \/ CleanupCommit(Maint)
    PROVE  IInv'
<1> DEFINE expired == {t \in Tasks : db.tasks[t].phase = "expired"}
           c == [Idle EXCEPT !.op = "cleanup", !.todo = expired]
<1>1. /\ db' = db /\ file' = file /\ told' = told /\ submits' = submits
      /\ co[Maint].pc \in {"idle", "cleanup_commit"}
      /\ Resume(Maint, Idle) \/ Resume(Maint, NextTask(c))
  BY DEF CleanupSelect, CleanupCommit, Commit
<1>2. /\ TypeOK /\ TInv /\ Maint \in Coros /\ Gc \in Coros \ {Maint}
      /\ Handlers \subseteq Coros \ {Maint} /\ db \in Table
  BY Shape DEF IInv, TInv, Handlers
<1>3. c \in Coroutine /\ c.op = "cleanup" /\ c.hash = None /\ c.cols = {} /\ c.todo = expired
  <2>1. expired \in SUBSET Tasks /\ "cleanup" \in Ops
    BY DEF Ops
  <2> HIDE DEF expired
  <2> QED BY <2>1, IdleOK DEF Coroutine
<1> HIDE DEF c
<1>4. NextTask(c) \in Coroutine
  BY <1>2, <1>3, NextTaskOK
<1>5. /\ MaintOK' /\ \A h \in Hashes : \A p \in Tasks \X Columns : ~Undone(co'[Maint], p, h)
      /\ \A j \in Coros \ {Maint} : co'[j] = co[j]
  <2>1. CASE Resume(Maint, Idle)
    <3>1. co'[Maint] = Idle /\ \A j \in Coros \ {Maint} : co'[j] = co[j]
      BY <1>2, <2>1, MoveOK, IdleOK
    <3> QED BY <3>1, IdleOK DEF MaintOK, Undone
  <2>2. CASE Resume(Maint, NextTask(c))
    <3>1. co'[Maint] = NextTask(c) /\ \A j \in Coros \ {Maint} : co'[j] = co[j]
      BY <1>2, <1>4, <2>2, MoveOK
    <3>2. \A t \in c.todo : db.tasks[t].phase = "expired" /\ db'.tasks[t] = db.tasks[t]
      BY <1>1, <1>3
    <3> QED BY <1>2, <1>3, <3>1, <3>2, NextMaint
  <2> QED BY <1>1, <2>1, <2>2
<1>6. (\A j \in Handlers : HandlerOK(j)') /\ Apart'
  <2>1. db'.blobs[Runner].known /\ \A j \in Handlers : HashKept(co[j].hash) /\ TaskKept(j)
    BY <1>1 DEF IInv, StoreInv, HashKept, TaskKept
  <2> QED BY <1>2, <1>5, <2>1, LoopMoves
<1>7. GcOK'
  BY <1>1, <1>2, <1>5 DEF IInv, GcOK, Collectable
<1>8. StoreInv'
  BY <1>1, <1>2, <1>5 DEF IInv, StoreInv, HasFile
<1>9. CountInv'
  <2> SUFFICES ASSUME NEW h \in Hashes PROVE CountOK(db'.blobs[h], Counted(db', co', h))
    BY DEF CountInv
  <2>1. \A p \in Tasks \X Columns : /\ Undone(co'[Maint], p, h) <=> Undone(co[Maint], p, h)
                                    /\ \A j \in Handlers : Pends(co'[j], p, h) <=> Pends(co[j], p, h)
    BY <1>1, <1>2, <1>5 DEF Undone
  <2>2. Counted(db', co', h) = Counted(db, co, h)
    BY <1>1, <2>1, CountedSame
  <2> QED BY <1>1, <2>2 DEF IInv, CountInv
<1> QED BY <1>5, <1>6, <1>7, <1>8, <1>9 DEF IInv

\* cleanup_expired gives a reference back.
LEMMA ReleaseStep ==
    ASSUME IInv, TInv', Release(Maint)
    PROVE  IInv'
<1> DEFINE c == co[Maint]
<1>1. c.pc = "release" /\ file' = file /\ told' = told /\ submits' = submits
  BY DEF Release
<1>2. PICK col \in c.cols :
        /\ SetBlob(c.held[col], Released(db.blobs[c.held[col]]))
        /\ Resume(Maint, Done(c, col, "delete", "release"))
  BY DEF Release, Done
<1> DEFINE h == c.held[col]
           b == db.blobs[h]
           d == Done(c, col, "delete", "release")
           p == <<c.task, col>>
<1>3. /\ TypeOK /\ TInv /\ Maint \in Coros /\ Gc \in Coros \ {Maint} /\ c \in Coroutine
      /\ Handlers \subseteq Coros \ {Maint} /\ db \in Table /\ col \in Columns
  BY Shape DEF IInv, TInv, Handlers, Coroutine
<1>4. /\ c.task \in Tasks /\ db.tasks[c.task].phase = "expired" /\ c.held = db.tasks[c.task].hash
      /\ c.task \notin c.todo /\ c.op \in {"none", "cleanup"} /\ c.hash = None
      /\ \A e \in c.cols : c.held[e] # None
      /\ \A t \in c.todo : db.tasks[t].phase = "expired"
  BY <1>1 DEF IInv, MaintOK
<1>5. h \in Hashes /\ b \in Blob
  <2>1. h \in Hashes
    BY <1>3, <1>4 DEF Coroutine, Holding
  <2> QED BY <2>1, Shape DEF IInv
<1>6. /\ d \in Coroutine /\ d.pc = (IF c.cols = {col} THEN "delete" ELSE "release")
      /\ d.op = c.op /\ d.hash = c.hash /\ d.task = c.task /\ d.held = c.held
      /\ d.cols = c.cols \ {col} /\ d.todo = c.todo
  <2>1. "delete" \in PCs /\ "release" \in PCs
    BY DEF PCs
  <2> QED BY <1>3, <2>1, DoneOK
<1> HIDE DEF d
<1>7. co'[Maint] = d /\ \A j \in Coros \ {Maint} : co'[j] = co[j]
  BY <1>2, <1>3, <1>6, MoveOK DEF d
<1>8. /\ Released(b) \in Blob /\ Released(b).known = b.known /\ Released(b).old = b.old
      /\ Released(b).pin = b.pin
      /\ b.refs = 0 => Released(b) = b
  BY <1>5, BlobOK DEF Released, Blob
<1>9. /\ db'.tasks = db.tasks
      /\ \A g \in Hashes : db'.blobs[g] = IF g = h THEN Released(b) ELSE db.blobs[g]
  <2>1. SetBlob(h, Released(b))
    BY <1>2
  <2> HIDE DEF h, b
  <2> QED BY <1>3, <1>8, <2>1, SetBlobOK
<1>10. (\A j \in Handlers : HandlerOK(j)') /\ Apart'
  <2>1. \A g \in Hashes : HashKept(g) /\ db'.blobs[g].known = db.blobs[g].known
    BY <1>1, <1>8, <1>9 DEF HashKept
  <2>2. \A j \in Handlers : TaskKept(j) /\ co'[j] = co[j]
    BY <1>1, <1>3, <1>7, <1>9 DEF TaskKept
  <2>3. \A j \in Handlers : co[j].hash # None => co[j].hash \in Hashes
    BY <1>3, Shape DEF IInv, Coroutine
  <2>4. db'.blobs[Runner].known
    BY <2>1 DEF IInv, StoreInv
  <2> QED BY <2>1, <2>2, <2>3, <2>4, LoopMoves
<1>11. MaintOK'
  <2>1. d.pc \in {"release", "delete"} /\ (d.pc = "delete" => d.cols = {})
    BY <1>6
  <2> QED BY <1>4, <1>6, <1>7, <1>9, <2>1 DEF MaintOK
<1>12. GcOK'
  <2>1. \A g \in Hashes : db.blobs[g].known /\ db.blobs[g].old /\ db.blobs[g].refs = 0 =>
           db'.blobs[g] = db.blobs[g]
    BY <1>8, <1>9
  <2>2. co'[Gc] = co[Gc] /\ co[Gc] \in Coroutine /\ GcOK
    BY <1>3, <1>7, Shape DEF IInv
  <2> QED BY <2>1, <2>2, GcKept
<1>13. StoreInv'
  <2>1. \A g \in Hashes : /\ db'.blobs[g].known = db.blobs[g].known
                          /\ db'.blobs[g].old = db.blobs[g].old /\ db'.blobs[g].pin = db.blobs[g].pin
    BY <1>8, <1>9
  <2>2. co'[Gc] = co[Gc] /\ told \subseteq Hashes
    BY <1>3, <1>7, Shape
  <2> QED BY <1>1, <1>9, <2>1, <2>2 DEF IInv, StoreInv, HasFile
<1>14. CountInv'
  <2>0. \A g : References(db', g) = References(db, g) /\ References(db, g) \subseteq Tasks \X Columns
    BY <1>9 DEF References, Exists
  <2>1. p \in Tasks \X Columns /\ p \in Counted(db, co, h)
    <3>1. p \in References(db, h)
      BY <1>3, <1>4 DEF References, Exists
    <3>2. ~Undone(co[Maint], p, h)
      BY DEF Undone
    <3>3. ASSUME NEW j \in Handlers PROVE ~Pends(co[j], p, h)
      <4>1. co[j].pc = "ref" => db.tasks[co[j].task].phase \in AtWork
        BY DEF IInv, HandlerOK, OpOK, TaskOK
      <4> QED BY <1>4, <4>1 DEF Pends, AtWork
    <3> QED BY <1>3, <1>4, <3>1, <3>2, <3>3 DEF Counted
  <2>2. \A q \in Tasks \X Columns : \A g : \A j \in Handlers : Pends(co'[j], q, g) <=> Pends(co[j], q, g)
    BY <1>3, <1>7
  <2>3. ASSUME NEW q \in Tasks \X Columns, NEW g
        PROVE  Undone(co'[Maint], q, g) <=> Undone(co[Maint], q, g) \/ (q = p /\ g = h)
    BY <1>1, <1>3, <1>6, <1>7 DEF Undone
  <2>4. ASSUME NEW g \in Hashes
        PROVE  Counted(db', co', g) = IF g = h THEN Counted(db, co, h) \ {p} ELSE Counted(db, co, g)
    <3>1. CASE g = h
      BY <2>0, <2>2, <2>3, <3>1 DEF Counted
    <3>2. CASE g # h
      BY <2>0, <2>2, <2>3, <3>2 DEF Counted
    <3> QED BY <3>1, <3>2
  <2>5. ASSUME NEW g \in Hashes PROVE CountOK(db'.blobs[g], Counted(db', co', g))
    <3>1. CASE g = h
      <4>1. CountOK(b, Counted(db, co, h)) /\ Counted(db, co, h) \in SUBSET (Tasks \X Columns)
        BY <1>5, CountedFinite DEF IInv, CountInv
      <4>2. CountOK(Released(b), Counted(db, co, h) \ {p})
        <5> HIDE DEF p, b
        <5> QED BY <1>5, <2>1, <4>1, CountReleased
      <4> QED BY <1>9, <2>4, <3>1, <4>2
    <3>2. CASE g # h
      BY <1>9, <2>4, <3>2 DEF IInv, CountInv
    <3> QED BY <3>1, <3>2
  <2> QED BY <2>5 DEF CountInv
<1> QED BY <1>10, <1>11, <1>12, <1>13, <1>14 DEF IInv

\* cleanup_expired deletes the row whose references it has given back.
LEMMA DeleteStep ==
    ASSUME IInv, TInv', DeleteTask(Maint)
    PROVE  IInv'
<1> DEFINE c == co[Maint]
           t == c.task
           r == [phase |-> "gone", hash |-> Nothing]
<1>1. /\ c.pc = "delete" /\ file' = file /\ told' = told /\ submits' = submits
      /\ SetTask(t, r) /\ Resume(Maint, NextTask(c))
  BY DEF DeleteTask
<1>2. /\ TypeOK /\ TInv /\ Maint \in Coros /\ Gc \in Coros \ {Maint} /\ c \in Coroutine
      /\ Handlers \subseteq Coros \ {Maint} /\ db \in Table
  BY Shape DEF IInv, TInv, Handlers
<1>3. /\ t \in Tasks /\ db.tasks[t].phase = "expired" /\ c.held = db.tasks[t].hash
      /\ t \notin c.todo /\ c.op \in {"none", "cleanup"} /\ c.hash = None /\ c.cols = {}
      /\ \A u \in c.todo : db.tasks[u].phase = "expired"
  BY <1>1 DEF IInv, MaintOK
<1>4. r \in TaskRow /\ r.phase = "gone" /\ r.hash["output"] = None
  BY DEF TaskRow, Nothing, Holding, Columns
<1> HIDE DEF r
<1>5. db'.blobs = db.blobs /\ \A u \in Tasks : db'.tasks[u] = IF u = t THEN r ELSE db.tasks[u]
  BY <1>1, <1>2, <1>4, SetTaskOK
<1>6. NextTask(c) \in Coroutine
  BY <1>2, NextTaskOK
<1>7. co'[Maint] = NextTask(c) /\ \A j \in Coros \ {Maint} : co'[j] = co[j]
  BY <1>1, <1>2, <1>6, MoveOK
<1>8. MaintOK' /\ \A h \in Hashes : \A p \in Tasks \X Columns : ~Undone(co'[Maint], p, h)
  <2>1. \A u \in c.todo : db.tasks[u].phase = "expired" /\ db'.tasks[u] = db.tasks[u]
    BY <1>2, <1>3, <1>5 DEF Coroutine
  <2> QED BY <1>2, <1>3, <1>7, <2>1, NextMaint
<1>9. (\A j \in Handlers : HandlerOK(j)') /\ Apart'
  <2>1. db'.blobs[Runner].known /\ \A j \in Handlers : HashKept(co[j].hash)
    BY <1>1, <1>5 DEF IInv, StoreInv, HashKept
  <2>2. ASSUME NEW j \in Handlers, co[j].op \in Makers \cup {"submit", "finish"} PROVE TaskKept(j)
    <3>1. co[j].task \in Tasks /\ db.tasks[co[j].task].phase \in AtWork
      BY <2>2 DEF IInv, HandlerOK, TaskOK
    <3>2. db'.tasks[co[j].task] = db.tasks[co[j].task]
      BY <1>3, <1>5, <3>1 DEF AtWork
    <3> QED BY <1>1, <3>2 DEF TaskKept
  <2> QED BY <1>2, <1>7, <2>1, <2>2, LoopMoves
<1>10. GcOK'
  BY <1>2, <1>5, <1>7 DEF IInv, GcOK, Collectable
<1>11. StoreInv'
  BY <1>1, <1>2, <1>4, <1>5, <1>7 DEF IInv, StoreInv, HasFile
<1>12. CountInv'
  <2> SUFFICES ASSUME NEW h \in Hashes PROVE CountOK(db'.blobs[h], Counted(db', co', h))
    BY DEF CountInv
  <2>1. ASSUME NEW p \in Tasks \X Columns
        PROVE  /\ p \in References(db', h) <=> p \in References(db, h) /\ p[1] # t
               /\ p \in References(db, h) => (Undone(c, p, h) <=> p[1] = t)
    <3>1. p \in References(db', h) <=> p \in References(db, h) /\ p[1] # t
      BY <1>3, <1>4, <1>5 DEF References, Exists
    <3>2. p \in References(db, h) => (Undone(c, p, h) <=> p[1] = t)
      BY <1>1, <1>3 DEF References, Undone
    <3> QED BY <3>1, <3>2
  <2>2. References(db, h) \subseteq Tasks \X Columns /\ References(db', h) \subseteq Tasks \X Columns
    BY DEF References
  <2>3. \A p \in Tasks \X Columns : /\ p \in References(db', h) <=> p \in References(db, h) /\ ~Undone(c, p, h)
                                    /\ ~Undone(co'[Maint], p, h)
    BY <1>8, <2>1
  <2>4. \A p \in Tasks \X Columns : \A j \in Handlers : Pends(co'[j], p, h) <=> Pends(co[j], p, h)
    BY <1>2, <1>7
  <2>5. Counted(db', co', h) = Counted(db, co, h)
    BY <2>2, <2>3, <2>4 DEF Counted
  <2> QED BY <1>5, <2>5 DEF IInv, CountInv
<1> QED BY <1>8, <1>9, <1>10, <1>11, <1>12 DEF IInv

\* What could be collected is neither counted nor pinned, nor held by a handler.
LEMMA CollectableOK ==
    ASSUME IInv, NEW pinned, NEW h \in Collectable(pinned)
    PROVE  /\ h \in Hashes /\ db.blobs[h].known /\ db.blobs[h].refs = 0 /\ db.blobs[h].old
           /\ Counted(db, co, h) = {} /\ ~db.blobs[h].pin /\ h # Runner
           /\ \A j \in Handlers : co[j].hash # h
<1>1. h \in Hashes /\ db.blobs[h].known /\ db.blobs[h].refs = 0 /\ db.blobs[h].old
  BY DEF Collectable
<1>2. Counted(db, co, h) = {} /\ ~db.blobs[h].pin
  <2>1. /\ db.blobs[h] \in Blob /\ CountOK(db.blobs[h], Counted(db, co, h))
        /\ Counted(db, co, h) \in SUBSET (Tasks \X Columns)
    BY <1>1, Shape, CountedFinite DEF IInv, CountInv
  <2> QED BY <1>1, <2>1, CountedKnown
<1>3. h # Runner
  BY <1>2 DEF IInv, StoreInv
<1>4. \A j \in Handlers : co[j].hash # h
  BY <1>1 DEF IInv, HandlerOK, HashOK
<1> QED BY <1>1, <1>2, <1>3, <1>4

\* The collector moves: all but what it has to do with files, rows and itself.
LEMMA GcMoves ==
    ASSUME IInv, TInv', \A j \in Coros \ {Gc} : co'[j] = co[j], db'.tasks = db.tasks,
           submits' = submits,
           \A h \in Hashes : \/ db'.blobs[h] = db.blobs[h]
                             \/ db'.blobs[h] = NoBlob /\ \E pinned \in BOOLEAN : h \in Collectable(pinned),
           \A j \in Handlers : co[j].hash \in file => co[j].hash \in file'
    PROVE  (\A j \in Handlers : HandlerOK(j)') /\ Apart' /\ MaintOK' /\ CountInv'
<1>1. /\ TypeOK /\ TInv /\ Maint \in Coros \ {Gc} /\ Gc \in Coros /\ co[Maint] \in Coroutine
      /\ Handlers \subseteq Coros \ {Gc} /\ \A j \in Handlers : co[j] \in Coroutine
  BY Shape DEF IInv, TInv, Handlers
<1>2. (\A j \in Handlers : HandlerOK(j)') /\ Apart'
  <2>1. db'.blobs[Runner].known
    BY CollectableOK DEF IInv, StoreInv
  <2>2. ASSUME NEW j \in Handlers, co[j].hash # None PROVE HashKept(co[j].hash)
    <3>1. co[j].hash \in Hashes
      BY <1>1, <2>2 DEF Coroutine
    <3>2. db'.blobs[co[j].hash] = db.blobs[co[j].hash]
      BY <3>1, CollectableOK
    <3> QED BY <3>2 DEF HashKept
  <2>3. \A j \in Handlers : TaskKept(j) /\ co'[j] = co[j]
    BY <1>1 DEF TaskKept
  <2> QED BY <2>1, <2>2, <2>3, LoopMoves
<1>3. MaintOK'
  BY <1>1, MaintKept DEF IInv
<1>4. CountInv'
  <2> SUFFICES ASSUME NEW h \in Hashes PROVE CountOK(db'.blobs[h], Counted(db', co', h))
    BY DEF CountInv
  <2>1. Counted(db', co', h) = Counted(db, co, h)
    BY <1>1, CountedSame
  <2>2. CASE db'.blobs[h] = db.blobs[h]
    BY <2>1, <2>2 DEF IInv, CountInv
  <2>3. CASE db'.blobs[h] = NoBlob /\ \E pinned \in BOOLEAN : h \in Collectable(pinned)
    <3>1. Counted(db, co, h) = {}
      BY <2>3, CollectableOK
    <3>2. Counted(db', co', h) = {}
      BY <2>1, <3>1
    <3> QED BY <2>3, <3>2, CountNothing
  <2> QED BY <2>2, <2>3
<1> QED BY <1>2, <1>3, <1>4

\* The garbage collection.
LEMMA CollectStep ==
    ASSUME IInv, TInv', Collect
    PROVE  IInv'
<1> DEFINE c == co[Gc]
<1>1. /\ TypeOK /\ TInv /\ Gc \in Coros /\ c \in Coroutine /\ db \in Table /\ GcOK /\ StoreInv
      /\ told \subseteq Hashes /\ file \subseteq Hashes /\ c.pinned \in BOOLEAN
  BY Shape DEF IInv, TInv, Coroutine
<1>2. ASSUME NEW pinned \in BOOLEAN, Doom(pinned), c.pc # "gc_delete",
             db' = db, file' = file, told' = told, submits' = submits
      PROVE  IInv'
  <2>1. Resume(Gc, Doomed(pinned))
    BY <1>2 DEF Doom, Doomed
  <2> DEFINE d == Doomed(pinned)
  <2>2. /\ d \in Coroutine /\ d.pc = "gc_unlink" /\ d.op = "gc" /\ d.hash = None
        /\ d.task = None /\ d.doomed = Collectable(pinned) /\ d.pinned = pinned
    BY DoomOK
  <2> HIDE DEF d
  <2>3. co'[Gc] = d /\ \A j \in Coros \ {Gc} : co'[j] = co[j]
    BY <1>1, <2>1, <2>2, MoveOK DEF d
  <2>4. (\A j \in Handlers : HandlerOK(j)') /\ Apart' /\ MaintOK' /\ CountInv'
    BY <1>2, <2>3, GcMoves
  <2>5. GcOK'
    BY <1>2, <2>2, <2>3 DEF GcOK, Collectable
  <2>6. StoreInv'
    BY <1>1, <1>2, <2>2, <2>3 DEF StoreInv, HasFile
  <2> QED BY <2>4, <2>5, <2>6 DEF IInv
<1>3. CASE GcStart
  <2>1. TRUE \in BOOLEAN
    OBVIOUS
  <2> QED BY <1>2, <1>3, <2>1 DEF GcStart
<1>4. CASE GcSelect
  <2>1. FALSE \in BOOLEAN
    OBVIOUS
  <2> QED BY <1>2, <1>4, <2>1 DEF GcSelect
<1>5. \A pc \in {"gc_delete", "gc_select", "gc_commit"} :
         /\ At(c, pc) \in Coroutine /\ At(c, pc).pc = pc /\ At(c, pc).op = c.op
         /\ At(c, pc).hash = c.hash /\ At(c, pc).task = c.task
         /\ At(c, pc).doomed = c.doomed /\ At(c, pc).pinned = c.pinned
  BY <1>1, AtOK DEF PCs
<1>6. CASE GcUnlink
  <2> DEFINE d == At(c, "gc_delete")
  <2>1. /\ c.pc = "gc_unlink" /\ file' = file \ c.doomed /\ told' = told \ c.doomed
        /\ Resume(Gc, d) /\ db' = db /\ submits' = submits
    BY <1>6 DEF GcUnlink
  <2>2. /\ d \in Coroutine /\ d.pc = "gc_delete" /\ d.op = c.op /\ d.hash = c.hash
        /\ d.task = c.task /\ d.doomed = c.doomed /\ d.pinned = c.pinned
    BY <1>5
  <2> HIDE DEF d
  <2>3. co'[Gc] = d /\ \A j \in Coros \ {Gc} : co'[j] = co[j]
    BY <1>1, <2>1, <2>2, MoveOK
  <2>4. c.doomed \subseteq Collectable(c.pinned)
    BY <1>1, <2>1 DEF GcOK
  <2>5. (\A j \in Handlers : HandlerOK(j)') /\ Apart' /\ MaintOK' /\ CountInv'
    <3>1. \A j \in Handlers : co[j].hash \in file => co[j].hash \in file'
      BY <2>1, <2>4, CollectableOK
    <3> QED BY <2>1, <2>3, <3>1, GcMoves
  <2>6. GcOK'
    BY <1>1, <2>1, <2>2, <2>3, <2>4 DEF GcOK, Collectable
  <2>7. StoreInv'
    <3>1. \A h \in Hashes : db.blobs[h].known => h \in file
      BY <1>1, <2>1 DEF StoreInv, HasFile
    <3> QED BY <1>1, <2>1, <2>2, <2>3, <3>1 DEF StoreInv, HasFile
  <2> QED BY <2>5, <2>6, <2>7 DEF IInv
<1>7. CASE GcDelete
  <2> DEFINE gone == Collectable(c.pinned)
             rows == [h \in Hashes |-> IF h \in gone THEN NoBlob ELSE db.blobs[h]]
  <2>1. /\ c.pc = "gc_delete" /\ file' = file /\ told' = told \ gone
        /\ db' = [db EXCEPT !.blobs = rows] /\ submits' = submits
    BY <1>7 DEF GcDelete
  <2>2. PICK pc \in {"gc_select", "gc_commit"} : Resume(Gc, At(c, pc))
    BY <1>7 DEF GcDelete
  <2> DEFINE d == At(c, pc)
  <2>3. /\ d \in Coroutine /\ d.pc = pc /\ d.op = c.op /\ d.hash = c.hash
        /\ d.task = c.task
    BY <1>5
  <2> HIDE DEF d
  <2>4. co'[Gc] = d /\ \A j \in Coros \ {Gc} : co'[j] = co[j]
    BY <1>1, <2>2, <2>3, MoveOK DEF d
  <2>5. db'.tasks = db.tasks /\ db'.blobs = rows
    <3> HIDE DEF rows
    <3> QED BY <1>1, <2>1 DEF Table
  <2>6. \A h \in Hashes : db'.blobs[h] = IF h \in gone THEN NoBlob ELSE db.blobs[h]
    BY <2>5
  <2> HIDE DEF rows
  <2>7. (\A j \in Handlers : HandlerOK(j)') /\ Apart' /\ MaintOK' /\ CountInv'
    BY <1>1, <2>1, <2>4, <2>5, <2>6, GcMoves
  <2>8. GcOK'
    BY <1>1, <2>3, <2>4 DEF GcOK
  <2>9. StoreInv'
    <3>1. c.doomed \subseteq gone
      BY <1>1, <2>1 DEF GcOK
    <3>2. Runner \notin gone
      BY CollectableOK DEF IInv
    <3>3. ~NoBlob.known /\ ~NoBlob.old
      BY DEF NoBlob
    <3>4. \A h \in Hashes : db'.blobs[h].known => h \notin gone /\ db.blobs[h].known
      BY <2>6, <3>3
    <3>5. \A h \in Hashes : db'.blobs[h].known => h \in file
      BY <1>1, <3>1, <3>4 DEF StoreInv, HasFile
    <3>6. \A h \in Hashes : db'.blobs[h].old => db'.blobs[h].known
      BY <1>1, <2>6, <3>3 DEF StoreInv
    <3>7. \A h \in told' : db'.blobs[h].known
      BY <1>1, <2>1, <2>6 DEF StoreInv
    <3> QED BY <1>1, <2>1, <2>5, <2>6, <3>2, <3>5, <3>6, <3>7 DEF StoreInv, HasFile
  <2> QED BY <2>7, <2>8, <2>9 DEF IInv
<1>8. CASE GcCommit
  <2>1. /\ c.pc = "gc_commit" /\ file' = file /\ told' = told /\ db' = db /\ submits' = submits
        /\ Resume(Gc, Idle)
    BY <1>8 DEF GcCommit, Commit
  <2>2. co'[Gc] = Idle /\ \A j \in Coros \ {Gc} : co'[j] = co[j]
    BY <1>1, <2>1, IdleOK, MoveOK
  <2>3. (\A j \in Handlers : HandlerOK(j)') /\ Apart' /\ MaintOK' /\ CountInv'
    BY <2>1, <2>2, GcMoves
  <2>4. GcOK'
    BY <2>2, IdleOK DEF GcOK
  <2>5. StoreInv'
    BY <1>1, <2>1, <2>2 DEF StoreInv, HasFile
  <2> QED BY <2>3, <2>4, <2>5 DEF IInv
<1> QED BY <1>3, <1>4, <1>6, <1>7, <1>8 DEF Collect

\* The retention period of a task ends.
LEMMA ExpireStep ==
    ASSUME IInv, TInv', NEW t \in Tasks, Expire(t)
    PROVE  IInv'
<1> DEFINE r == [db.tasks[t] EXCEPT !.phase = "expired"]
<1>1. /\ db.tasks[t].phase = "finished" /\ (\A j \in Coros : co[j].task # t) /\ SetTask(t, r)
      /\ file' = file /\ co' = co /\ told' = told /\ submits' = submits
  BY DEF Expire
<1>2. /\ TInv /\ Handlers \subseteq Coros /\ db \in Table /\ Maint \in Coros /\ Gc \in Coros
      /\ \A j \in Coros : co[j] \in Coroutine
  BY Shape DEF IInv
<1>3. r \in TaskRow /\ r.phase = "expired" /\ r.hash = db.tasks[t].hash
  BY Shape DEF IInv, TaskRow
<1> HIDE DEF r
<1>4. db'.blobs = db.blobs /\ \A u \in Tasks : db'.tasks[u] = IF u = t THEN r ELSE db.tasks[u]
  BY <1>1, <1>2, <1>3, SetTaskOK
<1>5. (\A j \in Handlers : HandlerOK(j)') /\ Apart'
  <2>1. db'.blobs[Runner].known /\ \A j \in Handlers : HashKept(co[j].hash)
    BY <1>1, <1>4 DEF IInv, StoreInv, HashKept
  <2>2. ASSUME NEW j \in Handlers, co[j].op \in Makers \cup {"submit", "finish"} PROVE TaskKept(j)
    <3>1. co[j].task \in Tasks
      BY <2>2 DEF IInv, HandlerOK, TaskOK
    <3>2. db'.tasks[co[j].task] = db.tasks[co[j].task]
      BY <1>1, <1>2, <1>4, <3>1
    <3> QED BY <1>1, <3>2 DEF TaskKept
  <2> QED BY <1>1, <2>1, <2>2, LoopMoves
<1>6. MaintOK'
  <2>1. \A u \in Tasks : db.tasks[u].phase = "expired" => db'.tasks[u] = db.tasks[u]
    BY <1>1, <1>4
  <2> QED BY <1>1, <1>2, <2>1, MaintKept DEF IInv
<1>7. GcOK'
  BY <1>1, <1>4 DEF IInv, GcOK, Collectable
<1>8. StoreInv'
  BY <1>1, <1>2, <1>3, <1>4 DEF IInv, StoreInv, HasFile
<1>9. CountInv'
  <2>1. \A h : References(db', h) = References(db, h)
    <3>1. \A u \in Tasks : /\ db'.tasks[u].hash = db.tasks[u].hash
                           /\ Exists(db'.tasks, u) <=> Exists(db.tasks, u)
      BY <1>1, <1>3, <1>4 DEF Exists
    <3> QED BY <3>1 DEF References
  <2>2. \A h : Counted(db', co', h) = Counted(db, co, h)
    BY <1>1, <2>1 DEF Counted
  <2> QED BY <1>4, <2>2 DEF IInv, CountInv
<1> QED BY <1>5, <1>6, <1>7, <1>8, <1>9 DEF IInv

\* A blob passes its TTL.
LEMMA AgeStep ==
    ASSUME IInv, TInv', NEW h \in Hashes, Age(h)
    PROVE  IInv'
<1> DEFINE b == [db.blobs[h] EXCEPT !.old = TRUE]
<1>1. /\ db.blobs[h].known /\ ~db.blobs[h].old /\ (\A j \in Coros : co[j].hash # h) /\ SetBlob(h, b)
      /\ file' = file /\ co' = co /\ told' = told /\ submits' = submits
  BY DEF Age
<1>2. /\ TInv /\ Handlers \subseteq Coros /\ db \in Table /\ Maint \in Coros /\ Gc \in Coros
      /\ (\A j \in Coros : co[j] \in Coroutine) /\ told \subseteq Hashes
  BY Shape DEF IInv
<1>3. /\ b \in Blob /\ b.known = db.blobs[h].known /\ b.pin = db.blobs[h].pin
      /\ b.refs = db.blobs[h].refs
  BY Shape DEF IInv, Blob
<1> HIDE DEF b
<1>4. /\ db'.tasks = db.tasks
      /\ \A g \in Hashes : db'.blobs[g] = IF g = h THEN b ELSE db.blobs[g]
  BY <1>1, <1>2, <1>3, SetBlobOK
<1>5. \A g \in Hashes : /\ db'.blobs[g].known = db.blobs[g].known
                        /\ db'.blobs[g].pin = db.blobs[g].pin /\ db'.blobs[g].refs = db.blobs[g].refs
  BY <1>3, <1>4
<1>6. (\A j \in Handlers : HandlerOK(j)') /\ Apart'
  <2>1. ASSUME NEW j \in Handlers, co[j].hash # None PROVE HashKept(co[j].hash)
    <3>1. co[j].hash \in Hashes /\ co[j].hash # h
      BY <1>1, <1>2, <2>1 DEF Coroutine
    <3> QED BY <1>1, <1>4, <3>1 DEF HashKept
  <2>2. db'.blobs[Runner].known /\ \A j \in Handlers : TaskKept(j)
    BY <1>1, <1>4, <1>5 DEF IInv, StoreInv, TaskKept
  <2> QED BY <1>1, <2>1, <2>2, LoopMoves
<1>7. MaintOK'
  BY <1>1, <1>4 DEF IInv, MaintOK
<1>8. GcOK'
  <2>1. \A g \in Hashes : db.blobs[g].known /\ db.blobs[g].old /\ db.blobs[g].refs = 0 =>
           db'.blobs[g] = db.blobs[g]
    BY <1>1, <1>4
  <2> QED BY <1>1, <1>2, <2>1, GcKept DEF IInv
<1>9. StoreInv'
  <2>1. \A g \in Hashes : db'.blobs[g].old => db'.blobs[g].known
    BY <1>1, <1>4, <1>5 DEF IInv, StoreInv
  <2> QED BY <1>1, <1>2, <1>4, <1>5, <2>1 DEF IInv, StoreInv, HasFile
<1>10. CountInv'
  <2> SUFFICES ASSUME NEW g \in Hashes PROVE CountOK(db'.blobs[g], Counted(db', co', g))
    BY DEF CountInv
  <2>1. TInv' /\ TInv /\ CountInv
    BY DEF IInv
  <2> QED BY <1>1, <1>4, <1>5, <2>1, QuietCount
<1> QED BY <1>6, <1>7, <1>8, <1>9, <1>10 DEF IInv

-----------------------------------------------------------------------------
(* The theorems.                                                            *)

\* At the start the runner is there, pinned, and nothing else is.
LEMMA InitCalm == Init => IInv
<1> SUFFICES ASSUME Init PROVE IInv
  OBVIOUS
<1> DEFINE empty == [blobs |-> [h \in Hashes |-> NoBlob], tasks |-> [t \in Tasks |-> NoTask]]
           seeded == Seeded(empty)
<1>1. TInv
  BY InitType
<1>2. /\ db = Started(empty) /\ file = {Runner} /\ co = [k \in Coros |-> Idle] /\ told = {}
      /\ submits = [t \in Tasks |-> 0]
  BY DEF Init
<1>3. empty \in Table /\ (\A h \in Hashes : empty.blobs[h] = NoBlob)
      /\ \A t \in Tasks : empty.tasks[t] = NoTask
  <2>1. NoBlob \in Blob
    BY DEF NoBlob, Blob
  <2>2. NoTask \in TaskRow
    BY DEF NoTask, TaskRow, Nothing, Holding
  <2> QED BY <2>1, <2>2 DEF Table
<1> HIDE DEF empty
<1>4. /\ db.tasks = empty.tasks /\ seeded.tasks = empty.tasks /\ seeded \in Table
      /\ \A h \in Hashes : /\ db.blobs[h] = Reconciled(seeded)[h]
                           /\ h # Runner => seeded.blobs[h] = NoBlob
      /\ seeded.blobs[Runner].known /\ seeded.blobs[Runner].pin
  BY <1>2, <1>3, StartedOK
<1> HIDE DEF seeded
<1>5. \A t \in Tasks : db.tasks[t].phase = "absent" /\ db.tasks[t].hash["output"] = None
  BY <1>3, <1>4 DEF NoTask, Nothing, Columns
<1>6. \A h : References(seeded, h) = {} /\ References(db, h) = {}
  BY <1>4, <1>5 DEF References, Exists
<1>7. Cardinality({}) = 0
  BY FS_EmptySet
<1>8. /\ db.blobs[Runner].known /\ db.blobs[Runner].pin /\ db.blobs[Runner].refs = 1
  <2>1. db.blobs[Runner] = [seeded.blobs[Runner] EXCEPT !.refs = 0 + 1]
    BY <1>4, <1>6, <1>7 DEF Reconciled, Recounted
  <2>2. seeded.blobs[Runner] \in Blob
    BY <1>4 DEF Table
  <2> QED BY <1>4, <2>1, <2>2 DEF Blob
<1>9. \A h \in Hashes \ {Runner} : db.blobs[h] = NoBlob
  <2>1. ~NoBlob.known
    BY DEF NoBlob
  <2> QED BY <1>4, <2>1 DEF Reconciled, Recounted
<1>10. \A k \in Coros : co[k] = Idle
  BY <1>2
<1>11. Handlers \subseteq Coros /\ Maint \in Coros /\ Gc \in Coros
  BY <1>1, Shape
<1>12. \A k \in Handlers : HandlerOK(k)
  BY <1>10, <1>11, IdleOK DEF HandlerOK, OpOK, HashOK, NeedsRow, TaskOK, RefOK, Makers, Storing
<1>13. MaintOK /\ GcOK
  BY <1>10, <1>11, IdleOK DEF MaintOK, GcOK
<1>14. Apart
  BY <1>10, <1>11, IdleOK DEF Apart, Alone, Makers
<1>15. StoreInv
  <2>1. ~NoBlob.known /\ ~NoBlob.old
    BY DEF NoBlob
  <2> QED BY <1>2, <1>5, <1>8, <1>9, <2>1 DEF StoreInv, HasFile
<1>16. CountInv
  <2> SUFFICES ASSUME NEW h \in Hashes PROVE CountOK(db.blobs[h], Counted(db, co, h))
    BY DEF CountInv
  <2>1. Counted(db, co, h) = {}
    BY <1>6 DEF Counted
  <2>2. CASE h = Runner
    BY <1>7, <1>8, <2>1, <2>2 DEF CountOK, PinCount
  <2>3. CASE h # Runner
    BY <1>9, <2>1, <2>3, CountNothing
  <2> QED BY <2>2, <2>3
<1> QED BY <1>1, <1>12, <1>13, <1>14, <1>15, <1>16 DEF IInv

\* Every step of a calm store keeps the invariant.
LEMMA NextCalm == Calm /\ IInv /\ [Next]_vars => IInv'
<1> SUFFICES ASSUME Calm, IInv, [Next]_vars PROVE IInv'
  OBVIOUS
<1>1. TInv' /\ TInv
  BY NextType DEF IInv
<1>2. CASE UNCHANGED vars
  <2>1. /\ db' = db /\ co' = co /\ file' = file /\ told' = told /\ submits' = submits
    BY <1>2 DEF vars
  <2>2. \A h : Counted(db', co', h) = Counted(db, co, h)
    BY <2>1
  <2>3. CountInv' /\ MaintOK' /\ GcOK' /\ StoreInv' /\ Apart'
    BY <2>1, <2>2 DEF IInv, CountInv, MaintOK, GcOK, StoreInv, HasFile, Apart, Alone, Collectable
  <2>4. \A j \in Handlers : HandlerOK(j)'
    BY <2>1 DEF IInv, HandlerOK, OpOK, HashOK, NeedsRow, TaskOK, RefOK
  <2> QED BY <1>1, <2>3, <2>4 DEF IInv
<1>3. ASSUME NEW k \in Coros, Step(k) PROVE IInv'
  <2>1. CASE k \in Handlers
    <3>1. co[k].pc \notin {"release", "delete", "cleanup_commit"}
      BY <2>1 DEF IInv, HandlerOK, OpOK, Storing
    <3> QED BY <1>1, <1>3, <2>1, <3>1, StoreSteps, InsertStep, SetGetStep, SetInputStep, TakeStep,
               CommitStep, PinStep DEF Step, Release, DeleteTask, CleanupCommit
  <2>2. CASE k = Maint
    <3>1. co[Maint].pc \in {"idle", "release", "delete", "cleanup_commit"}
      BY DEF IInv, MaintOK
    <3>2. Release(Maint) \/ DeleteTask(Maint) \/ CleanupCommit(Maint)
      BY <1>3, <2>2, <3>1 DEF Step, StoreSelect, StoreWrite, StoreInsert, StoreCommit, SetGet,
           SetInput, TakeReference, ReferenceCommit, PinUpdate
    <3> QED BY <1>1, <3>2, ReleaseStep, DeleteStep, CleanupEnds
  <2>3. CASE k = Gc
    <3>1. co[Gc].pc \in {"idle", "gc_unlink", "gc_delete", "gc_select", "gc_commit"}
      BY DEF IInv, GcOK
    <3> QED BY <1>3, <2>3, <3>1 DEF Step, StoreSelect, StoreWrite, StoreInsert, StoreCommit, SetGet,
           SetInput, TakeReference, ReferenceCommit, PinUpdate, Release, DeleteTask, CleanupCommit
  <2> QED BY <2>1, <2>2, <2>3 DEF Handlers
<1>4. ASSUME NEW k \in Coros, Request(k) PROVE IInv'
  <2>1. PICK h \in Hashes : \/ Upload(k, h) \/ Pin(k, h)
                            \/ \E t \in Tasks : Create(k, t, h) \/ Transcribe(k, t, h) \/ Submit(k, t, h)
    BY <1>4 DEF Request
  <2>2. CASE Upload(k, h) \/ Pin(k, h)
    BY <1>1, <2>2, BeginStep
  <2>3. ASSUME NEW t \in Tasks, Create(k, t, h) PROVE IInv'
    <3>1. /\ ~db.blobs[h].old /\ db.blobs[h].known /\ CreateRow(k, t, "create", h, h)
      BY <2>3 DEF Create, Named, Timely, Calm, IInv, StoreInv
    <3> QED BY <1>1, <3>1, CreateStep
  <2>4. ASSUME NEW t \in Tasks, Transcribe(k, t, h) PROVE IInv'
    <3>1. /\ ~db.blobs[h].old /\ CreateRow(k, t, "transcribe", h, None)
      BY <2>4 DEF Transcribe, Timely, Calm
    <3> QED BY <1>1, <3>1, CreateStep
  <2>5. ASSUME NEW t \in Tasks, Submit(k, t, h) PROVE IInv'
    BY <1>1, <2>5, SubmitStep
  <2> QED BY <2>1, <2>2, <2>3, <2>4, <2>5
<1>5. ASSUME NEW k \in Coros, NEW t \in Tasks, Finish(k, t) PROVE IInv'
  BY <1>1, <1>5, FinishStep
<1>6. ~Restart
  BY <1>1 DEF Restart, Calm, TInv, TypeOK
<1>7. CASE CleanupSelect
  BY <1>1, <1>7, CleanupEnds
<1>8. CASE Collect
  BY <1>1, <1>8, CollectStep
<1>9. ASSUME NEW t \in Tasks, Expire(t) PROVE IInv'
  BY <1>1, <1>9, ExpireStep
<1>10. ASSUME NEW h \in Hashes, Age(h) PROVE IInv'
  BY <1>1, <1>10, AgeStep
<1> QED BY <1>2, <1>3, <1>4, <1>5, <1>6, <1>7, <1>8, <1>9, <1>10 DEF Next

\* The inductive invariant of a store that does not crash, and adopts nothing old.
THEOREM Invariance == ASSUME Calm PROVE Spec => []IInv
<1>1. IInv /\ [Next]_vars => IInv'
  BY NextCalm
<1> QED BY <1>1, InitCalm, PTL DEF Spec

\* What has a row and is not about to be deleted has a file.
LEMMA RowHasFile ==
    ASSUME IInv, NEW h \in Hashes, db.blobs[h].known,
           db.blobs[h].refs > 0 \/ ~db.blobs[h].old
    PROVE  h \in file
<1>1. h \in file \/ (co[Gc].pc = "gc_delete" /\ h \in co[Gc].doomed)
  BY DEF IInv, StoreInv, HasFile
<1>2. ASSUME co[Gc].pc = "gc_delete", h \in co[Gc].doomed PROVE FALSE
  <2>1. h \in Collectable(co[Gc].pinned)
    BY <1>2 DEF IInv, GcOK
  <2>2. db.blobs[h].refs = 0 /\ db.blobs[h].old
    BY <2>1, CollectableOK
  <2> QED BY <2>2
<1> QED BY <1>1, <1>2

\* The invariant says that what is needed is there.
LEMMA NeededHasFile ==
    ASSUME IInv, NEW h \in Hashes, Needed(h)
    PROVE  h \in file
<1>1. /\ db.blobs[h] \in Blob /\ CountOK(db.blobs[h], Counted(db, co, h))
      /\ Counted(db, co, h) \in SUBSET (Tasks \X Columns)
  BY Shape, CountedFinite DEF IInv, CountInv
<1>2. CASE Pinned(db, h)
  <2>1. db.blobs[h].known /\ db.blobs[h].refs > 0
    BY <1>1, <1>2, CountedKnown DEF Pinned
  <2> QED BY <2>1, RowHasFile
<1>3. ASSUME NEW p \in References(db, h), db.tasks[p[1]].phase # "expired" PROVE h \in file
  <2>1. CASE p \in Counted(db, co, h)
    <3>1. db.blobs[h].known /\ db.blobs[h].refs > 0
      BY <1>1, <2>1, CountedKnown
    <3> QED BY <3>1, RowHasFile
  <2>2. CASE p \notin Counted(db, co, h)
    <3>1. ~Undone(co[Maint], p, h)
      BY <1>3 DEF Undone, IInv, MaintOK
    <3>2. PICK k \in Handlers : Pends(co[k], p, h)
      BY <2>2, <3>1 DEF Counted
    <3>3. co[k].pc = "ref" /\ p[2] \in co[k].cols /\ co[k].held[p[2]] = h
      BY <3>2 DEF Pends
    <3>4. db.blobs[h].known /\ (db.blobs[h].refs > 0 \/ ~db.blobs[h].old)
      BY <3>3, AtReference
    <3> QED BY <3>4, RowHasFile
  <2> QED BY <2>1, <2>2
<1> QED BY <1>2, <1>3 DEF Needed

\* What a task within its retention period names, or a pin keeps, has its file,
\* whatever is stored, created, submitted, cleaned up and collected meanwhile.
THEOREM FilesAreKept == ASSUME Calm PROVE Spec => []BlobsKept
<1>1. IInv => BlobsKept
  BY NeededHasFile DEF BlobsKept
<1> QED BY <1>1, Invariance, PTL

\* The invariant says that the counts are exact when nobody is at work.
LEMMA RestIsExact ==
    ASSUME Once, IInv, \A k \in Coros : co[k].pc = "idle"
    PROVE  db.blobs = Reconciled(db)
<1>1. db.blobs \in [Hashes -> Blob] /\ Handlers \subseteq Coros /\ Maint \in Coros
  BY Shape DEF IInv
<1>2. ASSUME NEW h \in Hashes PROVE db.blobs[h] = Reconciled(db)[h]
  <2>1. Counted(db, co, h) = References(db, h)
    BY <1>1 DEF Counted, Pends, Undone
  <2>2. CASE db.blobs[h].known
    <3>1. db.blobs[h].refs = Cardinality(References(db, h)) + PinCount(db.blobs[h])
      BY <2>1, <2>2 DEF IInv, CountInv, CountOK
    <3>2. db.blobs[h] = [db.blobs[h] EXCEPT !.refs = db.blobs[h].refs]
      BY <1>1 DEF Blob
    <3> QED BY <2>2, <3>1, <3>2 DEF Reconciled, Recounted, PinCount
  <2>3. CASE ~db.blobs[h].known
    BY <2>3 DEF Reconciled, Recounted
  <2> QED BY <2>2, <2>3
<1> QED BY <1>1, <1>2 DEF Reconciled

\* Whenever no handler is between its statements every count is the number of the
\* references that exist, plus one for a pin, if results are accepted once.
THEOREM CountsAreExact == ASSUME Calm, Once PROVE Spec => []RefsExact
<1>1. IInv => RefsExact
  BY RestIsExact DEF RefsExact
<1> QED BY <1>1, Invariance, PTL
=============================================================================
