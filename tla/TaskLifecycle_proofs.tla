------------------------ MODULE TaskLifecycle_proofs ------------------------
(***************************************************************************)
(* Proofs that the task lifecycle keeps its types, its token discipline and *)
(* the promise of TaskLedger, for any number of tasks and of coroutines.    *)
(***************************************************************************)
EXTENDS TaskProperties, TLAPS, WellFoundedInduction

-----------------------------------------------------------------------------
(* The inductive invariant.                                                 *)

\* What a coroutine must satisfy for its next database operation to be sound.
CoOK(c) ==
    /\ c \in Coroutine
    /\ c.op = "submit" => c.tok \in Tokens
    /\ c.pc \in {"assign", "delete"} => c.todo # {}
    /\ c.pc = "update" => c.seen \in Stored /\ c.want \in ValidTransitions[c.seen]

RowSound(r) ==
    /\ r.state \in {"pending", "downloading", "queued"} => r.token = NoToken
    /\ r.state = "assigned" => r.token # NoToken

\* The parts of TokenDiscipline, for one table.
TableSound(table, last) ==
    /\ \A t \in Tasks : RowSound(table[t]) /\ table[t].token <= last
    /\ \A t, u \in Tasks : table[t].token = table[u].token
                              => t = u \/ table[t].token = NoToken

Unborn(table, born) == \A t \in Tasks : t > born => table[t].state = "absent"

Tables ==
    /\ TableSound(db, issued) /\ TableSound(disk, issued)
    /\ Unborn(db, made) /\ Unborn(disk, made)
    /\ \A t \in Tasks : Ledger!Advance(disk[t].state, db[t].state)

IInv == TypeOK /\ (\A k \in Coros : CoOK(co[k])) /\ Tables

\* What every UPDATE but assign()'s does to a row it does not create.
Evolves(r, q) ==
    /\ q \in Row
    /\ q.token \in {r.token, NoToken}
    /\ RowSound(r) => RowSound(q)
    /\ Ledger!Advance(r.state, q.state)
    /\ r.state = "absent" => q.state = "absent"

-----------------------------------------------------------------------------
(* Minima, and the coroutines the code builds.                              *)

\* The oldest of a non-empty set of tasks is one of them.
LEMMA MinInSet ==
    ASSUME NEW S \in SUBSET Nat, S # {}
    PROVE  Min(S) \in S
<1> DEFINE Less == {ss \in Nat \X Nat : ss[1] < ss[2]}
<1>1. IsWellFoundedOn(Less, Nat)
  BY NatLessThanWellFounded DEF OpToRel
<1>2. \E x \in S : \A y \in S : ~ (<<y, x>> \in Less)
  <2> HIDE DEF Less
  <2> QED BY <1>1, WFMin
<1>3. \A x, y \in S : <<y, x>> \in Less \/ x =< y
  OBVIOUS
<1>4. \E x \in S : \A y \in S : x =< y
  <2> HIDE DEF Less
  <2> QED BY <1>2, <1>3
<1> QED
  BY <1>4 DEF Min

\* Tasks and tokens are natural numbers.
LEMMA Numbers == /\ NumTasks \in Nat /\ MaxToken \in Nat
                 /\ Tasks \in SUBSET Nat /\ Tokens \in SUBSET Nat
BY LifecycleAssumption DEF Tasks, Tokens

\* A coroutine that does nothing is sound.
LEMMA IdleOK == CoOK(Idle)
BY DEF CoOK, Idle, Coroutine, PCs, Ops, Wanted, RowState, NoToken

\* A call of transition() is sound for any coroutine.
LEMMA AskOK ==
    ASSUME NEW c, CoOK(c), NEW w \in Wanted
    PROVE  CoOK(Ask(c, w))
BY DEF CoOK, Ask, Coroutine, PCs

\* Going on to a program counter that carries no obligation is sound.
LEMMA AtOK ==
    ASSUME NEW c, CoOK(c),
           NEW pc \in PCs \ {"assign", "delete", "update"}
    PROVE  CoOK(At(c, pc))
BY DEF CoOK, At, Coroutine

\* A handler starts sound.
LEMMA StartOK ==
    ASSUME NEW op \in Ops \ {"submit"}, NEW t \in Nat
    PROVE  CoOK(Start(op, t))
BY IdleOK DEF CoOK, Start, Idle, Coroutine

\* A worker's request carries a token.
LEMMA TokenOK ==
    ASSUME NEW c, CoOK(c), NEW tok \in Tokens
    PROVE  CoOK([c EXCEPT !.tok = tok])
BY Numbers DEF CoOK, Coroutine

\* The loop of pull is sound at every row.
LEMMA AssignLoopOK ==
    ASSUME NEW c, CoOK(c), NEW todo \in SUBSET Tasks, todo # {}
    PROVE  CoOK([At(c, "assign") EXCEPT !.todo = todo])
BY DEF CoOK, At, Coroutine, PCs

\* The loop of requeue_stale is sound at every row.
LEMMA StaleLoopOK ==
    ASSUME NEW todo \in SUBSET Tasks
    PROVE  CoOK(StaleLoop(todo))
<1>1. CASE todo = {}
  BY <1>1, IdleOK DEF StaleLoop
<1>2. CASE todo # {}
  <2>1. Min(todo) \in todo /\ Min(todo) \in Nat
    BY <1>2, MinInSet, Numbers
  <2> DEFINE c == [Start("stale", Min(todo)) EXCEPT !.todo = todo \ {Min(todo)}]
  <2>2. CoOK(Start("stale", Min(todo)))
    BY <2>1, StartOK DEF Ops
  <2>3. CoOK(c)
    BY <2>2 DEF CoOK, Start, Idle, Coroutine
  <2>4. CoOK(Ask(c, "timeout"))
    BY <2>3, AskOK DEF Wanted
  <2> QED
    BY <1>2, <2>4 DEF StaleLoop
<1> QED
  BY <1>1, <1>2

\* A coroutine whose transition has returned is sound.
LEMMA ReturnedOK ==
    ASSUME NEW c, CoOK(c), NEW ok \in BOOLEAN
    PROVE  CoOK(Returned(c, ok))
<1>1. c.pc # "update" => CoOK(Reset(c))
  BY DEF CoOK, Reset, Coroutine, RowState
<1>2. CoOK([Reset(c) EXCEPT !.pc = "idle"])
  BY DEF CoOK, Reset, Coroutine, RowState, PCs
<1>3. CoOK(At(Reset(c), "fetch")) /\ CoOK(At(Reset(c), "touch"))
  BY DEF CoOK, Reset, Coroutine, RowState, PCs, At
<1>4. CoOK(Ask(Reset(c), "downloading"))
  BY DEF CoOK, Reset, Coroutine, RowState, PCs, Ask, Wanted
<1>5. CoOK(StaleLoop(c.todo))
  BY StaleLoopOK DEF CoOK, Coroutine
<1> QED
  BY <1>3, <1>4, <1>5, IdleOK DEF Returned

\* The SELECT of transition() leaves its coroutine sound.
LEMMA SelectedOK ==
    ASSUME NEW c, CoOK(c)
    PROVE  CoOK(Selected(c))
<1>1. CASE Permits(db[c.task], c.want, PassedToken(c))
  <2>1. db[c.task].state \in Stored /\ c.want \in ValidTransitions[db[c.task].state]
    BY <1>1 DEF Permits, Exists
  <2> DEFINE retry == c.want = "timeout" /\ CanRetry(db[c.task])
  <2>2. retry \in BOOLEAN
    OBVIOUS
  <2> HIDE DEF retry
  <2>3. CoOK([c EXCEPT !.pc = "update", !.seen = db[c.task].state, !.retry = retry])
    BY <2>1, <2>2 DEF CoOK, Coroutine, PCs, RowState
  <2> QED
    BY <1>1, <2>3 DEF Selected, retry
<1>2. CASE ~Permits(db[c.task], c.want, PassedToken(c))
  BY <1>2, ReturnedOK DEF Selected
<1> QED
  BY <1>1, <1>2

-----------------------------------------------------------------------------
(* What each UPDATE does to one row.                                        *)

\* The moves between states that the UPDATEs make all advance.
LEMMA Advances ==
    ASSUME NEW s \in RowState
    PROVE  /\ Ledger!Advance(s, s) /\ Ledger!Advance(s, "gone")
           /\ s \notin Terminal \cup {"gone"} =>
                \A v \in Terminal : Ledger!Advance(s, v)
           /\ s \in {"absent", "pending", "downloading"} =>
                \A v \in {"pending", "downloading", "queued"} : Ledger!Advance(s, v)
           /\ s \in {"queued", "assigned"} =>
                \A v \in {"queued", "assigned"} : Ledger!Advance(s, v)
BY DEF Ledger!Advance, Ledger!Stage, Ledger!Verdict, RowState, Stored, Terminal

\* No sequence of advances is ever undone.
LEMMA AdvanceTransitive ==
    ASSUME NEW a \in RowState, NEW b \in RowState, NEW c \in RowState,
           Ledger!Advance(a, b), Ledger!Advance(b, c)
    PROVE  Ledger!Advance(a, c)
BY DEF Ledger!Advance, Ledger!Stage, Ledger!Verdict, RowState, Stored, Terminal

\* An UPDATE that leaves state and token alone.
LEMMA TouchEvolves ==
    ASSUME NEW r \in Row, NEW q \in Row, q.state = r.state, q.token = r.token
    PROVE  Evolves(r, q)
BY Advances DEF Evolves, Row, RowSound

\* A row that is left alone has evolved.
LEMMA SameEvolves == \A r \in Row : Evolves(r, r)
BY TouchEvolves

\* UPDATEs of the hashes and of the timestamps.
LEMMA FieldsEvolve ==
    ASSUME NEW r \in Row
    PROVE  /\ Evolves(r, [r EXCEPT !.input = TRUE, !.iso = FALSE])
           /\ Evolves(r, Signalled(r))
           /\ \A tok \in Nat : Evolves(r, [r EXCEPT !.out = tok, !.iso = FALSE])
<1>1. LET q == [r EXCEPT !.input = TRUE, !.iso = FALSE] IN
      q \in Row /\ q.state = r.state /\ q.token = r.token
  BY DEF Row
<1>2. Signalled(r) \in Row /\ Signalled(r).state = r.state /\ Signalled(r).token = r.token
  BY DEF Row, Signalled
<1>3. \A tok \in Nat : LET q == [r EXCEPT !.out = tok, !.iso = FALSE] IN
                       q \in Row /\ q.state = r.state /\ q.token = r.token
  BY DEF Row
<1> QED
  BY <1>1, <1>2, <1>3, TouchEvolves

\* A move changes the state and keeps the token.
LEMMA MovedRow ==
    ASSUME NEW r \in Row, NEW s \in RowState
    PROVE  Moved(r, s) \in Row /\ Moved(r, s).state = s /\ Moved(r, s).token = r.token
BY DEF Moved, Row

\* Counting a retry and clearing the token leave the rest of the row.
LEMMA RetriedRow ==
    ASSUME NEW q \in Row
    PROVE  LET p == [q EXCEPT !.retries = @ + 1, !.token = NoToken] IN
           p \in Row /\ p.state = q.state /\ p.token = NoToken
<1>1. q.retries + 1 \in Nat /\ NoToken \in Nat
  BY DEF Row, NoToken
<1>2. \A n, m \in Nat :
        LET p == [q EXCEPT !.retries = n, !.token = m] IN
        p \in Row /\ p.state = q.state /\ p.token = m
  BY DEF Row
<1> QED
  BY <1>1, <1>2

\* The UPDATE of transition(), whatever can_retry was read.
LEMMA TransitionedEvolves ==
    ASSUME NEW r \in Row, r.state \in Stored,
           NEW want \in ValidTransitions[r.state], want # "assigned",
           NEW retry \in BOOLEAN
    PROVE  Evolves(r, Transitioned(r, want, retry))
<1>1. CASE want = "timeout" /\ retry
  <2>1. r.state = "assigned"
    BY <1>1 DEF ValidTransitions, Stored, Terminal
  <2>2. Ledger!Advance(r.state, "queued")
    BY <2>1, Advances DEF Row
  <2>3. /\ Requeued(r) \in Row
        /\ Requeued(r).state = "queued" /\ Requeued(r).token = NoToken
    BY MovedRow, RetriedRow DEF Requeued, RowState, Stored
  <2> QED
    BY <1>1, <2>1, <2>2, <2>3 DEF Transitioned, Evolves, RowSound
<1>2. CASE want = "timeout" /\ ~retry
  <2>1. r.state = "assigned"
    BY <1>2 DEF ValidTransitions, Stored, Terminal
  <2>2. Ledger!Advance(r.state, "failed")
    BY <2>1, Advances DEF Row, Terminal
  <2>3. "failed" \in RowState
    BY DEF RowState, Stored, Terminal
  <2> QED
    BY <1>2, <2>1, <2>2, <2>3, MovedRow DEF Transitioned, Evolves, RowSound
<1>3. CASE want # "timeout"
  <2>1. /\ want \in Stored /\ want # "assigned"
        /\ want \in Terminal \/
             (want \in {"pending", "downloading", "queued"}
              /\ r.state \in {"pending", "downloading"})
        /\ r.state \notin Terminal
    BY <1>3 DEF ValidTransitions, Stored, Terminal
  <2>2. Ledger!Advance(r.state, want)
    BY <2>1, Advances DEF Row, Stored
  <2>3. want \in RowState /\ want \notin {"absent", "assigned"}
    BY <2>1 DEF RowState, Stored, Terminal
  <2>4. r.state \in {"pending", "downloading"} \/ want \in Terminal
    BY <2>1
  <2> QED
    <3>1. Transitioned(r, want, retry) = Moved(r, want) /\ r.state # "absent"
      BY <1>3 DEF Transitioned, Stored, Terminal
    <3> DEFINE q == Moved(r, want)
    <3>2. q \in Row /\ q.state = want /\ q.token = r.token
      BY <2>3, MovedRow
    <3> HIDE DEF q
    <3>3. RowSound(r) => RowSound(q)
      BY <2>3, <2>4, <3>2 DEF RowSound, Terminal
    <3> QED
      BY <2>2, <3>1, <3>2, <3>3 DEF Evolves, q
<1> QED
  BY <1>1, <1>2, <1>3

\* The rows the bulk UPDATEs and the deletion leave.
LEMMA BulkEvolves ==
    ASSUME NEW r \in Row
    PROVE  /\ Evolves(r, JobCancelled(r))
           /\ Evolves(r, Purged(r))
           /\ r.state = "pending" => Evolves(r, Moved(r, "failed"))
           /\ Evolves(r, Deleted(r))
<1>1. r.state \in RowState /\ {"failed", "cancelled", "gone", "queued"} \subseteq RowState
  BY DEF Row, RowState, Stored, Terminal
<1>2. Evolves(r, JobCancelled(r))
  <2>1. CASE Exists(r) /\ r.state \notin Terminal
    <3>1. Ledger!Advance(r.state, "cancelled") /\ r.state # "absent"
      BY <2>1, <1>1, Advances DEF Exists, Stored, Terminal
    <3>2. /\ JobCancelled(r) \in Row
          /\ JobCancelled(r).state = "cancelled" /\ JobCancelled(r).token = r.token
      BY <2>1, <1>1 DEF JobCancelled, Moved, Row
    <3> QED
      BY <3>1, <3>2 DEF Evolves, RowSound
  <2> QED
    BY <2>1, SameEvolves DEF JobCancelled
<1>3. Evolves(r, Purged(r))
  <2>1. CASE r.state = "assigned"
    <3>1. /\ Purged(r) \in Row
          /\ Purged(r).state = "queued" /\ Purged(r).token = NoToken
      BY <2>1, <1>1 DEF Purged, Moved, Row, NoToken
    <3> QED
      BY <2>1, <3>1, <1>1, Advances DEF Evolves, RowSound
  <2> QED
    BY <2>1, SameEvolves DEF Purged
<1>4. r.state = "pending" => Evolves(r, Moved(r, "failed"))
  BY <1>1, Advances, MovedRow DEF Evolves, RowSound, Terminal
<1>5. Evolves(r, Deleted(r))
  <2>1. CASE Exists(r)
    <3>1. /\ Deleted(r) \in Row
          /\ Deleted(r).state = "gone" /\ Deleted(r).token = NoToken
      BY <1>1, <2>1 DEF Deleted, GoneRow, NewRow, Row, NoToken
    <3>2. r.state # "absent"
      BY <2>1 DEF Exists, Stored, Terminal
    <3> QED
      BY <1>1, <3>1, <3>2, Advances DEF Evolves, RowSound
  <2> QED
    BY <2>1, SameEvolves DEF Deleted
<1> QED
  BY <1>2, <1>3, <1>4, <1>5

-----------------------------------------------------------------------------
(* What a database operation does to the tables.                            *)

\* A table whose rows evolve stays sound.
LEMMA SoundEvolves ==
    ASSUME NEW f \in [Tasks -> Row], NEW g \in [Tasks -> Row],
           NEW last \in Nat, NEW born \in Nat,
           TableSound(f, last), Unborn(f, born),
           \A t \in Tasks : Evolves(f[t], g[t])
    PROVE  TableSound(g, last) /\ Unborn(g, born)
BY DEF TableSound, Unborn, Evolves, NoToken, Row, RowState, RowSound

\* An uncommitted write: the rows evolve on the connection only.
LEMMA WriteKeeps ==
    ASSUME TypeOK, Tables, disk' = disk, made' = made, issued' = issued,
           db' \in [Tasks -> Row], \A t \in Tasks : Evolves(db[t], db'[t])
    PROVE  Tables'
<1>1. TableSound(db', issued) /\ Unborn(db', made)
  BY SoundEvolves, Numbers DEF TypeOK, Tables
<1>2. \A t \in Tasks : Ledger!Advance(disk[t].state, db'[t].state)
  BY AdvanceTransitive DEF TypeOK, Tables, Evolves, Row
<1> QED
  BY <1>1, <1>2 DEF Tables, TableSound, Unborn

\* A commit, a rollback, or an operation that only reads: each table becomes
\* one of the two.
LEMMA CopyKeeps ==
    ASSUME TypeOK, Tables, made' = made, issued' = issued,
           \/ disk' = disk /\ db' = db
           \/ disk' = db /\ db' = db
           \/ disk' = disk /\ db' = disk
    PROVE  Tables' /\ db' \in [Tasks -> Row] /\ disk' \in [Tasks -> Row]
<1>1. \A r \in Row : Ledger!Advance(r.state, r.state)
  BY SameEvolves DEF Evolves
<1> QED
  BY <1>1 DEF TypeOK, Tables, TableSound, Unborn

\* An INSERT: the next task is born.
LEMMA CreateKeeps ==
    ASSUME TypeOK, Tables, NEW s \in {"pending", "queued"}, made < NumTasks,
           made' = made + 1, UpdateRow(made + 1, NewRow(s)),
           disk' = disk, issued' = issued
    PROVE  Tables' /\ db' \in [Tasks -> Row] /\ made' \in 0..NumTasks
<1>1. made \in Nat /\ made + 1 \in Tasks /\ made' \in 0..NumTasks
  BY Numbers DEF TypeOK, Tasks
<1>2. /\ NewRow(s) \in Row /\ NewRow(s).token = NoToken /\ NewRow(s).state = s
  BY DEF NewRow, Row, RowState, Stored, NoToken
<1>3. /\ db' \in [Tasks -> Row] /\ db'[made + 1] = NewRow(s)
      /\ \A t \in Tasks \ {made + 1} : db'[t] = db[t]
  BY <1>1, <1>2 DEF TypeOK, UpdateRow
<1>4. TableSound(db', issued)
  BY <1>1, <1>2, <1>3 DEF TypeOK, Tables, TableSound, RowSound, NoToken
<1>5. Unborn(db', made') /\ Unborn(disk, made')
  BY <1>1, <1>3, Numbers DEF Tables, Unborn
<1>6. \A t \in Tasks : Ledger!Advance(disk[t].state, db'[t].state)
  <2>1. disk[made + 1].state = "absent"
    BY <1>1, Numbers DEF Tables, Unborn
  <2>2. Ledger!Advance("absent", s)
    BY Advances DEF RowState
  <2> QED
    BY <1>2, <1>3, <2>1, <2>2 DEF Tables
<1> QED
  BY <1>1, <1>3, <1>4, <1>5, <1>6 DEF Tables, TableSound

\* An assignment: a queued row gets a token that no row has had.
LEMMA AssignKeeps ==
    ASSUME TypeOK, Tables, NEW t \in Tasks, db[t].state = "queued",
           issued < MaxToken, issued' = issued + 1, made' = made, disk' = disk,
           UpdateRow(t, Assigned(db[t], issued'))
    PROVE  Tables' /\ db' \in [Tasks -> Row] /\ issued' \in 0..MaxToken
<1>1. issued \in Nat /\ issued' \in Nat \ {0} /\ issued' \in 0..MaxToken
  BY Numbers DEF TypeOK
<1> DEFINE q == Assigned(db[t], issued')
<1>2. q \in Row /\ q.state = "assigned" /\ q.token = issued'
  <2>1. LET m == Moved(db[t], "assigned") IN m \in Row /\ m.state = "assigned"
    BY MovedRow DEF TypeOK, RowState, Stored
  <2>2. \A m \in Row, n \in Nat :
          LET p == [m EXCEPT !.token = n] IN
          p \in Row /\ p.state = m.state /\ p.token = n
    BY DEF Row
  <2> QED
    BY <1>1, <2>1, <2>2 DEF Assigned
<1> HIDE DEF q
<1>3. db' \in [Tasks -> Row] /\ db'[t] = q /\ \A u \in Tasks \ {t} : db'[u] = db[u]
  BY <1>2 DEF TypeOK, UpdateRow, q
<1>4. \A u \in Tasks : db[u].token \in Nat /\ disk[u].token \in Nat
  BY DEF TypeOK, Row
<1>5. TableSound(db', issued')
  BY <1>1, <1>2, <1>3, <1>4 DEF Tables, TableSound, RowSound, NoToken
<1>6. TableSound(disk, issued')
  BY <1>1, <1>4 DEF Tables, TableSound
<1>7. Unborn(db', made)
  BY <1>3 DEF Tables, Unborn
<1>8. \A u \in Tasks : Ledger!Advance(disk[u].state, db'[u].state)
  <2>1. Ledger!Advance("queued", "assigned")
    BY Advances DEF RowState, Stored
  <2>2. Ledger!Advance(disk[t].state, "assigned")
    BY <2>1, AdvanceTransitive DEF TypeOK, Tables, Row, RowState, Stored
  <2> QED
    BY <1>2, <1>3, <2>2 DEF Tables
<1> QED
  BY <1>1, <1>3, <1>5, <1>6, <1>7, <1>8 DEF Tables, TableSound, Unborn

\* Time passes for one assigned row.
LEMMA SilenceKeeps ==
    ASSUME TypeOK, Tables, NEW t \in Tasks, Silence(t)
    PROVE  /\ Tables' /\ db' \in [Tasks -> Row] /\ disk' \in [Tasks -> Row]
           /\ \A u \in Tasks : disk'[u].state = disk[u].state
<1>1. \A r \in Row, b \in BOOLEAN :
        LET p == [r EXCEPT !.silent = b] IN
        p \in Row /\ p.state = r.state /\ p.token = r.token
  BY DEF Row
<1>2. /\ db' \in [Tasks -> Row] /\ disk' \in [Tasks -> Row]
      /\ \A u \in Tasks : /\ db'[u].state = db[u].state /\ db'[u].token = db[u].token
                          /\ disk'[u].state = disk[u].state /\ disk'[u].token = disk[u].token
  BY <1>1 DEF TypeOK, Silence, UpdateRow
<1>3. made' = made /\ issued' = issued
  BY DEF Silence, ghost
<1> QED
  BY <1>2, <1>3 DEF Tables, TableSound, Unborn, RowSound

\* A restart: the committed rows are read back and the assigned ones requeued.
LEMMA RestartKeeps ==
    ASSUME TypeOK, Tables, Restart
    PROVE  /\ Tables' /\ db' \in [Tasks -> Row] /\ disk' \in [Tasks -> Row]
           /\ \A t \in Tasks : Ledger!Advance(disk[t].state, disk'[t].state)
<1>1. /\ disk' = [t \in Tasks |-> Purged(disk[t])] /\ db' = disk'
      /\ made' = made /\ issued' = issued /\ issued \in Nat /\ made \in Nat
  BY DEF Restart, TypeOK
<1>2. \A t \in Tasks : Evolves(disk[t], disk'[t])
  BY <1>1, BulkEvolves DEF TypeOK
<1>3. disk' \in [Tasks -> Row]
  BY <1>1, <1>2 DEF Evolves
<1>4. TableSound(disk', issued) /\ Unborn(disk', made)
  BY <1>1, <1>2, <1>3, SoundEvolves DEF TypeOK, Tables
<1>5. \A t \in Tasks : Ledger!Advance(disk'[t].state, db'[t].state)
  BY <1>1, <1>3, SameEvolves DEF Evolves
<1>6. \A t \in Tasks : Ledger!Advance(disk[t].state, disk'[t].state)
  BY <1>2 DEF Evolves
<1> QED
  BY <1>1, <1>3, <1>4, <1>5, <1>6 DEF Tables, TableSound, Unborn

\* One coroutine goes on; the others stay as sound as they were.
LEMMA ResumeKeeps ==
    ASSUME TypeOK, \A k \in Coros : CoOK(co[k]), NEW k \in Coros, NEW c,
           Resume(k, c), CoOK(c)
    PROVE  co' \in [Coros -> Coroutine] /\ \A j \in Coros : CoOK(co'[j])
BY DEF Resume, TypeOK, CoOK

-----------------------------------------------------------------------------
(* Every step keeps the invariant.                                          *)

\* A coroutine reads, commits or rolls back and goes on soundly.
LEMMA QuietStep ==
    ASSUME IInv, NEW k \in Coros, NEW c, CoOK(c), Resume(k, c), UNCHANGED ghost,
           UNCHANGED rows \/ Commit \/ (db' = disk /\ UNCHANGED disk)
    PROVE  IInv'
<1>1. Tables' /\ db' \in [Tasks -> Row] /\ disk' \in [Tasks -> Row]
  BY CopyKeeps DEF IInv, rows, ghost, Commit
<1>3. co' \in [Coros -> Coroutine] /\ \A j \in Coros : CoOK(co'[j])
  BY ResumeKeeps DEF IInv
<1> QED
  BY <1>1, <1>3 DEF IInv, TypeOK, ghost, CoOK

\* A coroutine writes to rows that exist and goes on soundly.
LEMMA WriteStep ==
    ASSUME IInv, NEW k \in Coros, NEW c, CoOK(c), Resume(k, c),
           UNCHANGED <<disk, ghost>>,
           db' \in [Tasks -> Row], \A t \in Tasks : Evolves(db[t], db'[t])
    PROVE  IInv'
<1>1. Tables'
  BY WriteKeeps DEF IInv, ghost
<1>3. co' \in [Coros -> Coroutine] /\ \A j \in Coros : CoOK(co'[j])
  BY ResumeKeeps DEF IInv
<1> QED
  BY <1>1, <1>3 DEF IInv, TypeOK, ghost, CoOK

\* The UPDATE of one row evolves the table when it evolves the row, if any.
LEMMA UpdateEvolves ==
    ASSUME TypeOK, NEW t, NEW r, UpdateRow(t, r), t \in Tasks => Evolves(db[t], r)
    PROVE  db' \in [Tasks -> Row] /\ \A u \in Tasks : Evolves(db[u], db'[u])
BY SameEvolves DEF TypeOK, UpdateRow, Evolves

\* An UPDATE that matches no row.
LEMMA NoUpdateEvolves ==
    ASSUME TypeOK, UNCHANGED db
    PROVE  db' \in [Tasks -> Row] /\ \A u \in Tasks : Evolves(db[u], db'[u])
BY SameEvolves DEF TypeOK

\* transition(), from its SELECT to its commit.
LEMMA TransitionKeeps ==
    ASSUME IInv, NEW k \in Coros,
           TransitionGet(k) \/ TransitionUpdate(k) \/ TransitionCommit(k)
    PROVE  IInv'
<1> DEFINE c == co[k]
<1>0. TypeOK /\ made \in Nat /\ CoOK(c)
  BY Numbers DEF IInv, TypeOK
<1>1. CASE TransitionGet(k)
  <2>1. CoOK(Selected(c))
    BY <1>0, SelectedOK
  <2> QED
    BY <1>1, <2>1, QuietStep DEF TransitionGet
<1>2. CASE TransitionUpdate(k)
  <2> DEFINE hit == db[c.task].state = c.seen
  <2>1. c.pc = "update" /\ c.seen \in Stored /\ c.want \in ValidTransitions[c.seen]
        /\ c.retry \in BOOLEAN /\ c.want # "assigned"
    BY <1>0, <1>2 DEF TransitionUpdate, CoOK, Coroutine, Wanted
  <2>2. CoOK([c EXCEPT !.pc = "commit", !.ok = hit])
    BY <1>0 DEF CoOK, Coroutine, PCs
  <2>3. CASE hit
    <3>1. c.task \in Tasks => Evolves(db[c.task], Transitioned(db[c.task], c.want, c.retry))
      BY <1>0, <2>1, <2>3, TransitionedEvolves DEF TypeOK
    <3>2. UpdateRow(c.task, Transitioned(db[c.task], c.want, c.retry))
      BY <1>2, <2>3 DEF TransitionUpdate
    <3>3. db' \in [Tasks -> Row] /\ \A u \in Tasks : Evolves(db[u], db'[u])
      BY <1>0, <3>1, <3>2, UpdateEvolves
    <3> QED
      BY <1>2, <2>2, <3>3, WriteStep DEF TransitionUpdate
  <2>4. CASE ~hit
    BY <1>0, <1>2, <2>2, <2>4, NoUpdateEvolves, WriteStep DEF TransitionUpdate
  <2> QED
    BY <2>3, <2>4
<1>3. CASE TransitionCommit(k)
  <2>1. CoOK(Returned(c, c.ok))
    BY <1>0, ReturnedOK DEF CoOK, Coroutine
  <2>2. Tables' /\ db' \in [Tasks -> Row] /\ disk' \in [Tasks -> Row]
    BY <1>3, CopyKeeps DEF IInv, TransitionCommit, Commit
  <2>4. co' \in [Coros -> Coroutine] /\ \A j \in Coros : CoOK(co'[j])
    BY <1>3, <2>1, ResumeKeeps DEF IInv, TransitionCommit
  <2>5. acked' \subseteq Tokens
    BY <1>0, <1>3 DEF TransitionCommit, TypeOK, CoOK
  <2> QED
    BY <1>3, <2>2, <2>4, <2>5 DEF IInv, TypeOK, TransitionCommit, CoOK
<1> QED
  BY <1>1, <1>2, <1>3

\* Submission and preparation.
LEMMA PrepareKeeps ==
    ASSUME IInv, NEW k \in Coros,
           \/ \E s \in {"pending", "queued"} : Create(k, s)
           \/ CreateCommit(k) \/ Fetched(k) \/ FetchFailed(k) \/ MarkFailed(k)
           \/ SetQueuedGet(k) \/ SetQueuedInput(k) \/ SetQueuedCommit(k)
    PROVE  IInv'
<1> DEFINE c == co[k]
<1>0. TypeOK /\ made \in Nat /\ CoOK(c)
  BY Numbers DEF IInv, TypeOK
<1>1. ASSUME NEW s \in {"pending", "queued"}, Create(k, s)
      PROVE  IInv'
  <2>1. /\ made < NumTasks /\ made' = made + 1 /\ UpdateRow(made + 1, NewRow(s))
        /\ disk' = disk /\ issued' = issued /\ holder' = holder /\ acked' = acked
        /\ crashes' = crashes
    BY <1>1 DEF Create
  <2>2. Tables' /\ db' \in [Tasks -> Row] /\ made' \in 0..NumTasks
    BY <1>0, <2>1, CreateKeeps DEF IInv
  <2> DEFINE w == IF s = "pending" THEN "downloading" ELSE "absent"
             d == [At(Start("create", made + 1), "create_commit") EXCEPT !.want = w]
  <2>3. CoOK(At(Start("create", made + 1), "create_commit"))
    BY <1>0, <2>1, StartOK, AtOK DEF Ops, PCs
  <2>4. CoOK(d)
    BY <2>3 DEF CoOK, Coroutine, Wanted, At, Start, Idle
  <2>5. Resume(k, d)
    BY <1>1 DEF Create
  <2>6. co' \in [Coros -> Coroutine] /\ \A j \in Coros : CoOK(co'[j])
    <3> HIDE DEF d
    <3> QED
      BY <2>4, <2>5, ResumeKeeps DEF IInv
  <2> QED
    BY <2>1, <2>2, <2>6 DEF IInv, TypeOK
<1>2. CASE CreateCommit(k)
  <2>1. CoOK(Ask(Start("prepare", c.task), "downloading"))
    <3>1. c.task \in Nat
      BY <1>0 DEF CoOK, Coroutine
    <3>2. CoOK(Start("prepare", c.task))
      BY <1>0, <3>1, StartOK DEF Ops
    <3> QED
      BY <1>0, <3>2, AskOK DEF Wanted
  <2> QED
    BY <1>0, <1>2, <2>1, IdleOK, QuietStep DEF CreateCommit
<1>3. CASE Fetched(k)
  BY <1>0, <1>3, AtOK, QuietStep DEF Fetched, PCs
<1>4. CASE FetchFailed(k)
  <2>1. CoOK([c EXCEPT !.tries = c.tries + 1])
    <3>1. c.tries + 1 \in Nat
      BY <1>0 DEF CoOK, Coroutine
    <3>2. \A n \in Nat : CoOK([c EXCEPT !.tries = n])
      BY <1>0 DEF CoOK, Coroutine
    <3> QED
      BY <3>1, <3>2
  <2>2. CoOK(Ask([c EXCEPT !.tries = c.tries + 1], "pending"))
    BY <1>0, <2>1, AskOK DEF Wanted
  <2>3. CoOK(At(c, "mf_commit"))
    BY <1>0, AtOK DEF PCs
  <2> QED
    BY <1>4, <2>2, <2>3, QuietStep DEF FetchFailed
<1>5. CASE MarkFailed(k)
  BY <1>0, <1>5, AskOK, QuietStep DEF MarkFailed, Wanted
<1>6. CASE SetQueuedGet(k)
  <2>1. CoOK(At(c, "sq_input"))
    BY <1>0, AtOK DEF PCs
  <2> QED
    BY <1>0, <1>6, <2>1, IdleOK, QuietStep DEF SetQueuedGet
<1>7. CASE SetQueuedInput(k)
  <2>1. CoOK(At(c, "sq_commit"))
    BY <1>0, AtOK DEF PCs
  <2>2. CASE Exists(db[c.task])
    <3> DEFINE q == [db[c.task] EXCEPT !.input = TRUE, !.iso = FALSE]
    <3>1. c.task \in Tasks => Evolves(db[c.task], q)
      BY <1>0, FieldsEvolve DEF TypeOK
    <3>2. UpdateRow(c.task, q)
      BY <1>7, <2>2 DEF SetQueuedInput
    <3>3. db' \in [Tasks -> Row] /\ \A u \in Tasks : Evolves(db[u], db'[u])
      BY <1>0, <3>1, <3>2, UpdateEvolves
    <3> QED
      BY <1>7, <2>1, <3>3, WriteStep DEF SetQueuedInput
  <2>3. CASE ~Exists(db[c.task])
    BY <1>0, <1>7, <2>1, <2>3, NoUpdateEvolves, WriteStep DEF SetQueuedInput
  <2> QED
    BY <2>2, <2>3
<1>8. CASE SetQueuedCommit(k)
  BY <1>0, <1>8, AskOK, QuietStep DEF SetQueuedCommit, Wanted
<1> QED
  BY <1>1, <1>2, <1>3, <1>4, <1>5, <1>6, <1>7, <1>8

\* Pull and assignment.
LEMMA PullKeeps ==
    ASSUME IInv, NEW k \in Coros,
           \/ \E caps \in Capabilities : Pull(k, caps)
           \/ AssignUpdate(k) \/ AssignCommit(k)
    PROVE  IInv'
<1> DEFINE c == co[k]
           P(todo) == [At(Start("pull", 0), "assign") EXCEPT !.todo = todo]
<1>0. TypeOK /\ made \in Nat /\ CoOK(c)
  BY Numbers DEF IInv, TypeOK
<1>1. \A todo \in SUBSET Tasks : todo # {} => CoOK(P(todo))
  <2>1. CoOK(Start("pull", 0))
    BY <1>0, StartOK DEF Ops
  <2> QED
    BY <1>0, <2>1, AssignLoopOK
<1>2. ASSUME NEW caps \in Capabilities, Pull(k, caps)
      PROVE  IInv'
  <2>1. CoOK(P(Listed(QueueLimit) \cap caps))
    BY <1>1, <1>2 DEF Pull, Listed
  <2> QED
    BY <1>2, <2>1, QuietStep DEF Pull
<1>3. CASE AssignUpdate(k)
  <2> DEFINE t == Min(c.todo)
  <2>1. t \in Tasks /\ t \in Nat
    BY <1>0, <1>3, MinInSet, Numbers DEF AssignUpdate, CoOK, Coroutine
  <2> HIDE DEF t
  <2>2. CASE db[t].state = "queued"
    <3>1. /\ issued < MaxToken /\ issued' = issued + 1 /\ UpdateRow(t, Assigned(db[t], issued'))
          /\ disk' = disk /\ made' = made /\ holder' = holder /\ acked' = acked
          /\ crashes' = crashes
          /\ Resume(k, [At(c, "assign_commit") EXCEPT
                          !.task = t, !.tok = issued', !.ok = TRUE, !.todo = c.todo \ {t}])
      BY <1>3, <2>2 DEF AssignUpdate, t, At
    <3>2. Tables' /\ db' \in [Tasks -> Row] /\ issued' \in 0..MaxToken
      BY <1>0, <2>1, <2>2, <3>1, AssignKeeps DEF IInv
    <3>3. issued' \in Nat /\ issued' \in Tokens
      BY <1>0, <3>1, Numbers DEF TypeOK, Tokens
    <3> DEFINE d == [At(c, "assign_commit") EXCEPT
                       !.task = t, !.tok = issued', !.ok = TRUE, !.todo = c.todo \ {t}]
    <3>4. CoOK(d)
      BY <1>0, <2>1, <3>3 DEF CoOK, At, Coroutine, PCs
    <3> HIDE DEF d
    <3>5. co' \in [Coros -> Coroutine] /\ \A j \in Coros : CoOK(co'[j])
      <4>1. Resume(k, d) /\ CoOK(d)
        BY <3>1, <3>4 DEF d
      <4> QED
        BY <4>1, ResumeKeeps DEF IInv
    <3> QED
      BY <3>1, <3>2, <3>5 DEF IInv, TypeOK
  <2>3. CASE db[t].state # "queued"
    <3> DEFINE d == [At(c, "assign_commit") EXCEPT
                       !.task = t, !.ok = FALSE, !.todo = c.todo \ {t}]
    <3>1. CoOK(d)
      BY <1>0, <2>1 DEF CoOK, At, Coroutine, PCs
    <3>2. Resume(k, d) /\ UNCHANGED rows /\ UNCHANGED ghost
      BY <1>3, <2>3 DEF AssignUpdate, t, At, rows, ghost
    <3> HIDE DEF d
    <3> QED
      BY <3>1, <3>2, QuietStep
  <2> QED
    BY <2>2, <2>3
<1>4. CASE AssignCommit(k)
  <2>1. PICK d : Resume(k, d) /\ CoOK(d)
    <3>1. CASE c.ok
      BY <1>0, <1>4, <3>1, IdleOK DEF AssignCommit
    <3>2. CASE ~c.ok /\ c.todo = {}
      BY <1>0, <1>4, <3>2, IdleOK DEF AssignCommit
    <3>3. CASE ~c.ok /\ c.todo # {}
      <4>1. CoOK(P(c.todo))
        BY <1>0, <1>1, <3>3 DEF CoOK, Coroutine
      <4> QED
        BY <1>4, <3>3, <4>1 DEF AssignCommit
    <3> QED
      BY <3>1, <3>2, <3>3
  <2>2. Tables' /\ db' \in [Tasks -> Row] /\ disk' \in [Tasks -> Row]
    BY <1>0, <1>4, CopyKeeps DEF IInv, AssignCommit, Commit
  <2>4. co' \in [Coros -> Coroutine] /\ \A j \in Coros : CoOK(co'[j])
    BY <2>1, ResumeKeeps DEF IInv
  <2>5. holder' \in [Tokens -> Run]
    <3>1. [task |-> c.task, phase |-> "running"] \in Run
      BY <1>0 DEF CoOK, Coroutine, Run
    <3> QED
      BY <1>0, <1>4, <3>1 DEF AssignCommit, TypeOK
  <2> QED
    BY <1>4, <2>2, <2>4, <2>5 DEF IInv, TypeOK, AssignCommit, CoOK
<1> QED
  BY <1>2, <1>3, <1>4

\* The signals and the results of workers.
LEMMA SubmitKeeps ==
    ASSUME IInv, NEW k \in Coros,
           \/ SubmitOutput(k) \/ SubmitRef(k) \/ SubmitRollback(k) \/ SubmitCommit(k)
           \/ SignalUpdate(k) \/ SignalCommit(k)
    PROVE  IInv'
<1> DEFINE c == co[k]
<1>0. TypeOK /\ made \in Nat /\ CoOK(c)
  BY Numbers DEF IInv, TypeOK
<1>1. CASE SubmitOutput(k)
  <2>1. CoOK(At(c, "ref"))
    BY <1>0, AtOK DEF PCs
  <2>2. CASE Exists(db[c.task])
    <3> DEFINE q == [db[c.task] EXCEPT !.out = c.tok, !.iso = FALSE]
    <3>1. c.task \in Tasks => Evolves(db[c.task], q)
      BY <1>0, FieldsEvolve DEF TypeOK, CoOK, Coroutine
    <3>2. UpdateRow(c.task, q)
      BY <1>1, <2>2 DEF SubmitOutput
    <3>3. db' \in [Tasks -> Row] /\ \A u \in Tasks : Evolves(db[u], db'[u])
      BY <1>0, <3>1, <3>2, UpdateEvolves
    <3> QED
      BY <1>1, <2>1, <3>3, WriteStep DEF SubmitOutput
  <2>3. CASE ~Exists(db[c.task])
    BY <1>0, <1>1, <2>1, <2>3, NoUpdateEvolves, WriteStep DEF SubmitOutput
  <2> QED
    BY <2>2, <2>3
<1>2. CASE SubmitRef(k)
  <2>1. CoOK(At(c, "rollback")) /\ CoOK(At(c, "out_commit"))
    BY <1>0, AtOK DEF PCs
  <2> QED
    BY <1>2, <2>1, QuietStep DEF SubmitRef
<1>3. CASE SubmitRollback(k)
  <2>1. CoOK(At(c, "touch"))
    BY <1>0, AtOK DEF PCs
  <2> QED
    BY <1>3, <2>1, QuietStep DEF SubmitRollback
<1>4. CASE SubmitCommit(k)
  BY <1>0, <1>4, AskOK, QuietStep DEF SubmitCommit, Wanted
<1>5. CASE SignalUpdate(k)
  <2>1. CoOK(At(c, "touch_commit"))
    BY <1>0, AtOK DEF PCs
  <2>2. CASE Exists(db[c.task])
    <3>1. c.task \in Tasks => Evolves(db[c.task], Signalled(db[c.task]))
      BY <1>0, FieldsEvolve DEF TypeOK
    <3>2. UpdateRow(c.task, Signalled(db[c.task]))
      BY <1>5, <2>2 DEF SignalUpdate
    <3>3. db' \in [Tasks -> Row] /\ \A u \in Tasks : Evolves(db[u], db'[u])
      BY <1>0, <3>1, <3>2, UpdateEvolves
    <3> QED
      BY <1>5, <2>1, <3>3, WriteStep DEF SignalUpdate
  <2>3. CASE ~Exists(db[c.task])
    BY <1>0, <1>5, <2>1, <2>3, NoUpdateEvolves, WriteStep DEF SignalUpdate
  <2> QED
    BY <2>2, <2>3
<1>6. CASE SignalCommit(k)
  BY <1>0, <1>6, IdleOK, QuietStep DEF SignalCommit
<1> QED
  BY <1>1, <1>2, <1>3, <1>4, <1>5, <1>6

\* The maintenance loop and the cancellation of a job.
LEMMA CleanupKeeps ==
    ASSUME IInv, NEW k \in Coros,
           \/ CleanupDelete(k) \/ CleanupExpire(k) \/ CleanupCommit(k)
           \/ CancelJob(k) \/ CancelJobCommit(k)
    PROVE  IInv'
<1> DEFINE c == co[k]
<1>0. TypeOK /\ made \in Nat /\ CoOK(c)
  BY Numbers DEF IInv, TypeOK
<1>1. CASE CleanupDelete(k)
  <2> DEFINE t == Min(c.todo)
             d == [c EXCEPT !.todo = c.todo \ {t},
                            !.pc = IF c.todo = {t} THEN "expire" ELSE "delete"]
  <2>1. c.pc = "delete" /\ c.todo \in SUBSET Tasks /\ c.todo # {}
    BY <1>0, <1>1 DEF CleanupDelete, CoOK, Coroutine
  <2>2. t \in c.todo
    BY <2>1, MinInSet, Numbers
  <2> HIDE DEF t
  <2>3. CoOK(d)
    <3>1. CASE c.todo = {t}
      BY <1>0, <2>1, <3>1 DEF CoOK, Coroutine, PCs
    <3>2. CASE c.todo # {t}
      <4>1. c.todo \ {t} # {}
        BY <2>1, <3>2
      <4> QED
        BY <1>0, <2>1, <3>2, <4>1 DEF CoOK, Coroutine, PCs
    <3> QED
      BY <3>1, <3>2
  <2> HIDE DEF d
  <2>4. Resume(k, d) /\ UpdateRow(t, Deleted(db[t]))
    BY <1>1 DEF CleanupDelete, d, t
  <2>5. Evolves(db[t], Deleted(db[t]))
    BY <1>0, <2>1, <2>2, BulkEvolves DEF TypeOK
  <2>6. db' \in [Tasks -> Row] /\ \A u \in Tasks : Evolves(db[u], db'[u])
    BY <1>0, <2>4, <2>5, UpdateEvolves
  <2> QED
    BY <1>1, <2>3, <2>4, <2>6, WriteStep DEF CleanupDelete
<1>2. CASE CleanupExpire(k)
  <2>1. CoOK(At(c, "cleanup_commit"))
    BY <1>0, AtOK DEF PCs
  <2>2. PICK old \in SUBSET {t \in Tasks : db[t].state = "pending"} :
          db' = [t \in Tasks |-> IF t \in old THEN Moved(db[t], "failed") ELSE db[t]]
    BY <1>2 DEF CleanupExpire
  <2>3. \A t \in Tasks : Evolves(db[t], db'[t])
    BY <1>0, <2>2, SameEvolves, BulkEvolves DEF TypeOK
  <2>4. db' \in [Tasks -> Row]
    BY <2>2, <2>3 DEF Evolves
  <2> QED
    BY <1>2, <2>1, <2>3, <2>4, WriteStep DEF CleanupExpire
<1>3. CASE CleanupCommit(k)
  BY <1>0, <1>3, IdleOK, QuietStep DEF CleanupCommit
<1>4. CASE CancelJob(k)
  <2>1. CoOK(At(Start("job", 0), "job_commit"))
    BY <1>0, StartOK, AtOK DEF Ops, PCs
  <2>2. \A t \in Tasks : Evolves(db[t], db'[t])
    BY <1>0, <1>4, SameEvolves, BulkEvolves DEF TypeOK, CancelJob
  <2>3. db' \in [Tasks -> Row]
    BY <1>4, <2>2 DEF Evolves, CancelJob
  <2> QED
    BY <1>4, <2>1, <2>2, <2>3, WriteStep DEF CancelJob
<1>5. CASE CancelJobCommit(k)
  BY <1>0, <1>5, IdleOK, QuietStep DEF CancelJobCommit
<1> QED
  BY <1>1, <1>2, <1>3, <1>4, <1>5

\* The handlers that only start: a heartbeat, a result, an error report, a
\* cancellation, the two sweeps of the maintenance loop.
LEMMA RequestKeeps ==
    ASSUME IInv,
           \/ \E k \in Coros, tok \in Tokens :
                Heartbeat(k, tok) \/ SubmitCheck(k, tok) \/ ErrorReport(k, tok)
           \/ \E k \in Coros, t \in Tasks : Cancel(k, t)
           \/ StaleSelect
           \/ \E old \in SUBSET Tasks : CleanupSelect(old)
    PROVE  IInv'
<1>0. TypeOK /\ \A tok \in Tokens : holder[tok].task \in Nat /\ tok \in Nat
  BY Numbers DEF IInv, TypeOK, Run
<1>1. ASSUME NEW k \in Coros, NEW tok \in Tokens, Heartbeat(k, tok)
      PROVE  IInv'
  <2> DEFINE t == holder[tok].task
             d == [At(Start("beat", t), "beat_update") EXCEPT !.tok = tok]
  <2>1. CASE db[t].state = "assigned" /\ db[t].token = tok
    <3>1. CoOK(At(Start("beat", t), "beat_update"))
      BY <1>0, StartOK, AtOK DEF Ops, PCs
    <3>2. CoOK(d)
      BY <1>0, <3>1 DEF CoOK, Coroutine, At, Start, Idle
    <3> HIDE DEF d
    <3>3. Resume(k, d) /\ UNCHANGED rows /\ UNCHANGED ghost
      BY <1>1, <2>1 DEF Heartbeat, d, ghost
    <3> QED
      BY <3>2, <3>3, QuietStep
  <2>2. CASE ~(db[t].state = "assigned" /\ db[t].token = tok)
    <3>1. holder' \in [Tokens -> Run]
      BY <1>0, <1>1, <2>2 DEF Heartbeat, TypeOK, Run
    <3>2. UNCHANGED <<db, disk, co, made, issued, acked, crashes>>
      BY <1>1, <2>2 DEF Heartbeat, rows
    <3> QED
      BY <3>1, <3>2 DEF IInv, TypeOK, Tables, TableSound, Unborn, CoOK
  <2> QED
    BY <2>1, <2>2
<1>2. ASSUME NEW k \in Coros, NEW tok \in Tokens, SubmitCheck(k, tok)
      PROVE  IInv'
  <2> DEFINE t == holder[tok].task
             D(pc) == [At(Start("submit", t), pc) EXCEPT !.tok = tok]
  <2>1. \A pc \in {"output", "touch"} : CoOK(D(pc))
    BY <1>0, IdleOK DEF CoOK, Coroutine, At, Start, Idle, Ops, PCs
  <2>2. \E pc \in {"output", "touch"} : Resume(k, D(pc))
    BY <1>2 DEF SubmitCheck
  <2> QED
    BY <1>2, <2>1, <2>2, QuietStep DEF SubmitCheck
<1>3. ASSUME NEW k \in Coros, NEW tok \in Tokens, ErrorReport(k, tok)
      PROVE  IInv'
  <2>1. CoOK([Start("error", holder[tok].task) EXCEPT !.tok = tok])
    <3>1. CoOK(Start("error", holder[tok].task))
      BY <1>0, StartOK DEF Ops
    <3> QED
      BY <3>1, TokenOK
  <2>2. CoOK(Ask([Start("error", holder[tok].task) EXCEPT !.tok = tok], "timeout"))
    BY <2>1, AskOK DEF Wanted
  <2> QED
    BY <1>3, <2>2, QuietStep DEF ErrorReport
<1>4. ASSUME NEW k \in Coros, NEW t \in Tasks, Cancel(k, t)
      PROVE  IInv'
  <2>1. CoOK(Start("cancel", t))
    BY Numbers, StartOK DEF Ops
  <2>2. CoOK(Ask(Start("cancel", t), "cancelled"))
    BY <2>1, AskOK DEF Wanted
  <2>3. CoOK(Selected(Ask(Start("cancel", t), "cancelled")))
    BY <2>2, SelectedOK
  <2> QED
    BY <1>4, <2>3, QuietStep DEF Cancel
<1>5. CASE StaleSelect
  <2>1. CoOK(StaleLoop(StaleRows)) /\ Maint \in Coros
    BY StaleLoopOK, LifecycleAssumption DEF StaleRows
  <2> QED
    BY <1>5, <2>1, QuietStep DEF StaleSelect
<1>6. ASSUME NEW old \in SUBSET Tasks, CleanupSelect(old)
      PROVE  IInv'
  <2> DEFINE d == [At(Start("cleanup", 0), IF old = {} THEN "expire" ELSE "delete")
                   EXCEPT !.todo = old]
  <2>1. CoOK(d)
    BY IdleOK DEF CoOK, Coroutine, At, Start, Idle, Ops, PCs
  <2> HIDE DEF d
  <2>2. Resume(Maint, d) /\ UNCHANGED rows /\ UNCHANGED ghost /\ Maint \in Coros
    BY <1>6, LifecycleAssumption DEF CleanupSelect, d
  <2> QED
    BY <2>1, <2>2, QuietStep
<1> QED
  BY <1>1, <1>2, <1>3, <1>4, <1>5, <1>6

\* A run of a task on a worker goes on.
LEMMA RunKeeps ==
    ASSUME IInv, NEW tok \in Tokens, RunEnds(tok) \/ WorkerLeaves(tok)
    PROVE  IInv'
<1>1. holder' \in [Tokens -> Run]
  BY DEF IInv, TypeOK, RunEnds, WorkerLeaves, Run
<1>2. UNCHANGED <<db, disk, co, made, issued, acked, crashes>>
  BY DEF RunEnds, WorkerLeaves, rows
<1> QED
  BY <1>1, <1>2 DEF IInv, TypeOK, Tables, TableSound, Unborn, CoOK

\* Time and crashes.
LEMMA WorldKeeps ==
    ASSUME IInv, (\E t \in Tasks : Silence(t)) \/ Restart
    PROVE  IInv'
<1>1. ASSUME NEW t \in Tasks, Silence(t)
      PROVE  IInv'
  <2>1. Tables' /\ db' \in [Tasks -> Row] /\ disk' \in [Tasks -> Row]
    BY <1>1, SilenceKeeps DEF IInv
  <2> QED
    BY <1>1, <2>1 DEF IInv, TypeOK, Silence, ghost, CoOK
<1>2. CASE Restart
  <2>1. Tables' /\ db' \in [Tasks -> Row] /\ disk' \in [Tasks -> Row]
    BY <1>2, RestartKeeps DEF IInv
  <2>2. co' \in [Coros -> Coroutine] /\ \A k \in Coros : CoOK(co'[k])
    BY <1>2, IdleOK DEF Restart, CoOK
  <2>3. crashes' \in 0..MaxCrashes
    BY <1>2, LifecycleAssumption DEF IInv, TypeOK, Restart
  <2> QED
    BY <1>2, <2>1, <2>2, <2>3 DEF IInv, TypeOK, Restart
<1> QED
  BY <1>1, <1>2

\* The initial state satisfies the invariant.
LEMMA InitKeeps == Init => IInv
<1> SUFFICES ASSUME Init PROVE IInv
  OBVIOUS
<1>1. AbsentRow \in Row /\ AbsentRow.state = "absent" /\ AbsentRow.token = NoToken
  BY DEF AbsentRow, NewRow, Row, RowState, Stored, NoToken
<1>2. Ledger!Advance("absent", "absent")
  BY Advances DEF RowState
<1>3. TypeOK
  <2>1. NoRun \in Run
    BY DEF NoRun, Run
  <2> QED
    BY <1>1, <2>1, IdleOK, LifecycleAssumption DEF Init, TypeOK, CoOK
<1>4. Tables
  BY <1>1, <1>2 DEF Init, Tables, TableSound, Unborn, RowSound, NoToken
<1> QED
  BY <1>3, <1>4, IdleOK DEF Init, IInv

\* Every step keeps it.
LEMMA NextKeeps == IInv /\ [Next]_vars => IInv'
<1> SUFFICES ASSUME IInv, [Next]_vars PROVE IInv'
  OBVIOUS
<1>1. ASSUME NEW k \in Coros, Step(k)
      PROVE  IInv'
  BY <1>1, TransitionKeeps, PrepareKeeps, PullKeeps, SubmitKeeps, CleanupKeeps DEF Step
<1>2. ASSUME NEW k \in Coros, Client(k)
      PROVE  IInv'
  BY <1>2, PrepareKeeps, RequestKeeps, CleanupKeeps DEF Client
<1>3. ASSUME NEW k \in Coros, Worker(k)
      PROVE  IInv'
  BY <1>3, PullKeeps, RequestKeeps DEF Worker
<1>4. CASE UNCHANGED vars
  BY <1>4 DEF vars, IInv, TypeOK, Tables, TableSound, Unborn, CoOK
<1> QED
  BY <1>1, <1>2, <1>3, <1>4, RunKeeps, WorldKeeps, RequestKeeps DEF Next

-----------------------------------------------------------------------------
(* The theorems.                                                            *)

\* The inductive invariant holds throughout.
THEOREM Invariance == Spec => []IInv
BY InitKeeps, NextKeeps, PTL DEF Spec

\* Every table, coroutine and worker run stays within its type, whatever the
\* number of coroutines that share the connection.
THEOREM TypeCorrect == Spec => []TypeOK
<1>1. IInv => TypeOK
  BY DEF IInv
<1> QED
  BY <1>1, Invariance, PTL

\* current_assignment_token is set exactly while a row is assigned, and no two
\* rows ever carry the same one, on the connection or on disk.
THEOREM TokenSafety == Spec => []TokenDiscipline
<1>1. IInv => TokenDiscipline
  BY DEF IInv, Tables, TableSound, RowSound, TokenDiscipline
<1> QED
  BY <1>1, Invariance, PTL

\* What one step does to the durable table.
LEMMA DiskStep ==
    ASSUME IInv, IInv', [Next]_vars
    PROVE  [Ledger!Next]_[t \in Tasks |-> disk[t].state]
<1>1. \/ disk' = disk \/ disk' = db
      \/ (\E t \in Tasks : Silence(t)) \/ Restart
  <2>1. ASSUME NEW k \in Coros, Step(k)
        PROVE  disk' \in {disk, db}
    BY <2>1 DEF Step, Commit, rows, TransitionGet, TransitionUpdate, TransitionCommit,
       CreateCommit, Fetched, FetchFailed, MarkFailed, SetQueuedGet, SetQueuedInput,
       SetQueuedCommit, AssignUpdate, AssignCommit, SubmitOutput, SubmitRef,
       SubmitRollback, SubmitCommit, SignalUpdate, SignalCommit, CleanupDelete,
       CleanupExpire, CleanupCommit, CancelJobCommit
  <2>2. ASSUME NEW k \in Coros, Client(k) \/ Worker(k)
        PROVE  disk' = disk
    BY <2>2 DEF Client, Worker, rows, Create, Cancel, CancelJob, Pull, Heartbeat,
       SubmitCheck, ErrorReport
  <2>3. ASSUME \/ \E tok \in Tokens : RunEnds(tok) \/ WorkerLeaves(tok)
               \/ StaleSelect
               \/ \E old \in SUBSET Tasks : CleanupSelect(old)
               \/ UNCHANGED vars
        PROVE  disk' = disk
    BY <2>3 DEF rows, vars, RunEnds, WorkerLeaves, StaleSelect, CleanupSelect
  <2> QED
    BY <2>1, <2>2, <2>3 DEF Next
<1>2. \A t \in Tasks : disk[t].state \in RowState /\ disk'[t].state \in RowState
  BY DEF IInv, TypeOK, Row
<1>3. \A t \in Tasks : Ledger!Advance(disk[t].state, disk'[t].state)
  <2>1. CASE disk' = disk
    BY <1>2, <2>1, Advances
  <2>2. CASE disk' = db
    BY <2>2 DEF IInv, Tables
  <2>3. CASE \E t \in Tasks : Silence(t)
    BY <1>2, <2>3, SilenceKeeps, Advances DEF IInv
  <2>4. CASE Restart
    BY <2>4, RestartKeeps DEF IInv
  <2> QED
    BY <1>1, <2>1, <2>2, <2>3, <2>4
<1>4. RowState = Ledger!Status
  BY DEF RowState, Stored, Terminal, Ledger!Status, Ledger!Verdict
<1>5. [t \in Tasks |-> disk'[t].state] \in [Tasks -> Ledger!Status]
  BY <1>2, <1>4
<1> QED
  BY <1>3, <1>5 DEF Ledger!Next

\* The coordinator's committed task table implements the ledger: a task never
\* goes back across a stage and never changes its verdict, through any
\* interleaving, shared commit, rollback or restart.
THEOREM LedgerRefinement == Spec => LedgerSpec
<1>1. Init => Ledger!Init
  BY DEF Init, Ledger!Init, AbsentRow, NewRow
<1> QED
  BY <1>1, Invariance, DiskStep, PTL DEF Spec, LedgerSpec, Ledger!Spec

=============================================================================
