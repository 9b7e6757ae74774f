--------------------------- MODULE TaskAcks_proofs ---------------------------
(***************************************************************************)
(* What is answered to workers stays true: an accepted result is durable,   *)
(* at most one run of a task is told that it was accepted, a completed task *)
(* has a result of its own and a queued one its input, as long as no submit *)
(* rolls the shared connection back (every output was uploaded before).     *)
(* The retries of a task are bounded although can_retry may be out of date  *)
(* when it is used, and every execution but the first is paid for by a      *)
(* counted retry or by a restart.                                           *)
(***************************************************************************)
EXTENDS TaskLifecycle_proofs, FiniteSetTheorems

-----------------------------------------------------------------------------
(* The inductive invariant.  The tables and the holders are parameters, so  *)
(* that one definition speaks of a state and of its successor.              *)

\* Nothing but deletion follows.
Over(r) == r.state \in {"completed", "gone"}

Winner(c)   == c.op = "submit" /\ c.pc = "commit" /\ c.ok
Granting(c) == c.pc = "assign_commit" /\ c.ok

RunsIn(h, t) == {tok \in Tokens : h[tok].task = t}

\* The row has a result of its task, or its input, until it is deleted.
HasResult(h, t, r) == r.state = "gone" \/ (r.state # "absent" /\ r.out \in RunsIn(h, t))
HasInput(r)        == r.state = "gone" \/ (r.state # "absent" /\ r.input)

Shape(c) ==
    /\ c.pc # "rollback"
    /\ c.pc \in {"output", "ref", "out_commit"} \/ c.want = "completed" => c.op = "submit"
    /\ c.pc \in {"fetch", "sq_get", "sq_input", "sq_commit", "mf_commit"}
         \/ c.want = "queued" => c.op = "prepare"
    /\ c.pc = "create_commit" => c.op = "create"
    /\ c.pc \in {"assign", "assign_commit"} => c.op = "pull"
    /\ c.op \in {"create", "prepare", "submit"} => c.task \in Tasks
    /\ c.op = "submit" /\ c.pc \in {"get", "update", "commit"} => c.want = "completed"

\* What a coroutine may count on at its program counter.
CoFits(c, table, h, last) ==
    /\ Shape(c)
    /\ c.op = "submit" => h[c.tok].task = c.task
    /\ Winner(c) => Over(table[c.task])
    /\ c.op = "submit" /\ c.pc \in {"ref", "out_commit", "get", "update"} =>
        HasResult(h, c.task, table[c.task])
    /\ c.pc = "sq_input" => table[c.task].state # "absent"
    /\ c.pc = "sq_commit" \/ (c.want = "queued" /\ c.pc \in {"get", "update"}) =>
        HasInput(table[c.task])
    /\ Granting(c) => /\ c.tok \in Tokens /\ c.tok <= last /\ h[c.tok].task = 0
                      /\ c.task \in Tasks /\ table[c.task].state # "absent"

RowFits(h, t, r) ==
    /\ r.state = "completed" => r.out \in RunsIn(h, t)
    /\ r.state \in {"queued", "assigned"} => r.input

TableFits(h, table) == \A t \in Tasks : RowFits(h, t, table[t])

\* A run was handed a token that was issued for a task that is durably there.
HolderFits(h, table, last) ==
    \A tok \in Tokens :
        /\ h[tok].task = 0 => h[tok].phase = "none"
        /\ h[tok].task # 0 =>
            tok <= last /\ h[tok].task \in Tasks /\ table[h[tok].task].state # "absent"

AckFits(told, h, table) ==
    \A tok \in told : h[tok].task # 0 /\ Over(table[h[tok].task])

\* One winner at most for each task, one coroutine at most to grant a token.
Alone(cs, told, h) ==
    /\ \A k, l \in Coros : Winner(cs[k]) /\ Winner(cs[l]) /\ cs[k].task = cs[l].task => k = l
    /\ \A k \in Coros, tok \in told : Winner(cs[k]) => h[tok].task # cs[k].task
    /\ \A tok, other \in told : h[tok].task = h[other].task => tok = other
    /\ \A k, l \in Coros : Granting(cs[k]) /\ Granting(cs[l]) /\ cs[k].tok = cs[l].tok => k = l

AInv ==
    /\ \A k \in Coros : CoFits(co[k], db, holder, issued)
    /\ TableFits(holder, db) /\ TableFits(holder, disk)
    /\ HolderFits(holder, disk, issued)
    /\ AckFits(acked, holder, disk)
    /\ Alone(co, acked, holder)

-----------------------------------------------------------------------------
(* What an UPDATE keeps of a row.                                           *)

Follows(h, t, r, q) ==
    /\ Over(r) => Over(q)
    /\ r.state # "absent" => q.state # "absent"
    /\ HasResult(h, t, r) => HasResult(h, t, q)
    /\ HasInput(r) => HasInput(q)

\* A row that advances in the ledger does not come back from its end.
LEMMA AdvanceKeeps ==
    ASSUME NEW r \in Row, NEW q \in Row, Ledger!Advance(r.state, q.state)
    PROVE  /\ Over(r) => Over(q)
           /\ r.state # "absent" => q.state # "absent"
           /\ r.state = "gone" => q.state = "gone"
<1>1. r.state \in RowState /\ q.state \in RowState
  BY DEF Row
<1> QED
  BY <1>1 DEF Ledger!Advance, Ledger!Stage, Ledger!Verdict, Over, RowState, Stored, Terminal

\* An UPDATE that leaves the hashes alone.
LEMMA KeptFollows ==
    ASSUME NEW h, NEW t, NEW r \in Row, NEW q \in Row, Ledger!Advance(r.state, q.state),
           q.state = "gone" \/ (q.out = r.out /\ q.input = r.input)
    PROVE  Follows(h, t, r, q)
BY AdvanceKeeps DEF Follows, HasResult, HasInput, Over

\* A row that is left alone.
LEMMA SameFollows == \A h, t, r : Follows(h, t, r, r)
BY DEF Follows

\* The rows of the uncommitted table follow those of the committed one.
LEMMA Ahead ==
    ASSUME IInv, NEW t \in Tasks
    PROVE  /\ db[t] \in Row /\ disk[t] \in Row
           /\ Over(disk[t]) => Over(db[t])
           /\ disk[t].state # "absent" => db[t].state # "absent"
BY AdvanceKeeps DEF IInv, TypeOK, Tables

-----------------------------------------------------------------------------
(* What a step leaves to the other coroutines.                              *)

\* A token that was handed out stays with its task.
Grows(h, g) == \A tok \in Tokens : h[tok].task # 0 => g[tok].task = h[tok].task

\* A result of a task stays one.
LEMMA RunsGrow ==
    ASSUME NEW h, NEW g, Grows(h, g), NEW t \in Tasks
    PROVE  RunsIn(h, t) \subseteq RunsIn(g, t)
BY Numbers DEF Grows, RunsIn, Tasks

\* A coroutine that waits loses nothing of what it counts on.
LEMMA CoStays ==
    ASSUME NEW c, NEW f, NEW g, NEW h, NEW i, NEW m \in Nat, NEW n \in Nat, m <= n,
           CoOK(c), CoFits(c, f, h, m), Grows(h, i),
           \A t \in Tasks : Follows(h, t, f[t], g[t]),
           Granting(c) => i[c.tok].task = 0
    PROVE  CoFits(c, g, i, n)
<1>1. \A t \in Tasks : RunsIn(h, t) \subseteq RunsIn(i, t)
  BY RunsGrow
<1>2. Shape(c) /\ (c.op \in {"create", "prepare", "submit"} => c.task \in Tasks)
  BY DEF CoFits, Shape
<1>3. c.op = "submit" => i[c.tok].task = c.task
  <2> SUFFICES ASSUME c.op = "submit" PROVE i[c.tok].task = c.task
    OBVIOUS
  <2>1. c.tok \in Tokens /\ h[c.tok].task = c.task /\ c.task # 0
    BY <1>2, Numbers DEF CoOK, CoFits, Tasks
  <2> QED BY <2>1 DEF Grows
<1>4. Winner(c) => Over(g[c.task])
  BY <1>2 DEF CoFits, Winner, Follows
<1>5. c.op = "submit" /\ c.pc \in {"ref", "out_commit", "get", "update"} =>
        HasResult(i, c.task, g[c.task])
  BY <1>1, <1>2 DEF CoFits, Follows, HasResult
<1>6. c.pc = "sq_input" => g[c.task].state # "absent"
  BY <1>2 DEF CoFits, Shape, Follows
<1>7. c.pc = "sq_commit" \/ (c.want = "queued" /\ c.pc \in {"get", "update"}) =>
        HasInput(g[c.task])
  BY <1>2 DEF CoFits, Shape, Follows
<1>8. Granting(c) => /\ c.tok \in Tokens /\ c.tok <= n /\ i[c.tok].task = 0
                     /\ c.task \in Tasks /\ g[c.task].state # "absent"
  BY Numbers DEF CoFits, Follows, Tokens
<1> QED
  BY <1>2, <1>3, <1>4, <1>5, <1>6, <1>7, <1>8 DEF CoFits

\* A row keeps its result when more tokens are handed out.
LEMMA RowStays ==
    ASSUME NEW h, NEW g, Grows(h, g), NEW table, TableFits(h, table)
    PROVE  TableFits(g, table)
BY RunsGrow DEF TableFits, RowFits

\* The disk is left alone or takes a commit.
LEMMA DiskFits ==
    ASSUME IInv, AInv, disk' \in {disk, db}
    PROVE  /\ HolderFits(holder, disk', issued)
           /\ AckFits(acked, holder, disk')
           /\ TableFits(holder, disk')
<1>1. \A tok \in Tokens : holder[tok].task # 0 => holder[tok].task \in Tasks
  BY DEF AInv, HolderFits
<1>2. acked \subseteq Tokens
  BY DEF IInv, TypeOK
<1>3. HolderFits(holder, disk', issued)
  BY Ahead DEF AInv, HolderFits
<1>4. AckFits(acked, holder, disk')
  BY <1>1, <1>2, Ahead DEF AInv, AckFits
<1> QED
  BY <1>3, <1>4 DEF AInv

\* A coroutine goes on, and the others may stay.
LEMMA AloneStep ==
    ASSUME IInv, IInv', AInv, NEW k \in Coros, NEW d, Resume(k, d),
           UNCHANGED <<holder, acked>>, issued <= issued',
           CoFits(d, db', holder, issued'), Alone(co', acked, holder),
           \A t \in Tasks : Follows(holder, t, db[t], db'[t]),
           TableFits(holder, db'), disk' \in {disk, db}
    PROVE  AInv'
<1>1. \A l \in Coros : co'[l] = IF l = k THEN d ELSE co[l]
  BY DEF IInv, TypeOK, Resume
<1>2. issued \in Nat /\ issued' \in Nat /\ Grows(holder, holder)
  BY Numbers DEF IInv, TypeOK, Grows
<1>3. ASSUME NEW l \in Coros, l # k
      PROVE  CoFits(co[l], db', holder, issued')
  <2>1. CoOK(co[l]) /\ CoFits(co[l], db, holder, issued)
    BY DEF IInv, AInv
  <2>2. Granting(co[l]) => holder[co[l].tok].task = 0
    BY <2>1 DEF CoFits
  <2> QED BY <1>2, <2>1, <2>2, CoStays
<1>4. \A l \in Coros : CoFits(co'[l], db', holder', issued')
  BY <1>1, <1>3
<1>5. HolderFits(holder, disk', issued')
  BY <1>2, DiskFits, Numbers DEF HolderFits
<1> QED
  BY <1>4, <1>5, DiskFits DEF AInv

\* A coroutine goes on, to where it neither wins nor grants.
LEMMA CoroutineStep ==
    ASSUME IInv, IInv', AInv, NEW k \in Coros, NEW d, Resume(k, d),
           UNCHANGED <<holder, issued, acked>>,
           CoFits(d, db', holder, issued), ~Winner(d), ~Granting(d),
           \A t \in Tasks : Follows(holder, t, db[t], db'[t]),
           TableFits(holder, db'), disk' \in {disk, db}
    PROVE  AInv'
<1>1. \A l \in Coros : Winner(co'[l]) \/ Granting(co'[l]) => l # k /\ co'[l] = co[l]
  BY DEF IInv, TypeOK, Resume
<1>2. Alone(co', acked, holder)
  BY <1>1 DEF AInv, Alone
<1>3. issued <= issued' /\ CoFits(d, db', holder, issued')
  BY Numbers DEF IInv, TypeOK
<1> QED
  BY <1>2, <1>3, AloneStep

\* A coroutine that only reads or commits.
LEMMA ReadStep ==
    ASSUME IInv, IInv', AInv, NEW k \in Coros, NEW d, Resume(k, d),
           UNCHANGED <<holder, issued, acked>>, UNCHANGED rows \/ Commit,
           CoFits(d, db, holder, issued), ~Winner(d), ~Granting(d)
    PROVE  AInv'
<1>1. db' = db /\ disk' \in {disk, db}
  BY DEF rows, Commit
<1>2. TableFits(holder, db')
  BY <1>1 DEF AInv
<1>3. CoFits(d, db', holder, issued)
  BY <1>1
<1>4. \A t \in Tasks : Follows(holder, t, db[t], db'[t])
  BY <1>1, SameFollows
<1> QED BY <1>1, <1>2, <1>3, <1>4, CoroutineStep

\* A coroutine with nothing to count on.
LEMMA PlainFits ==
    ASSUME NEW d, Shape(d), d.op # "submit", d.want # "queued",
           d.pc \notin {"sq_input", "sq_commit", "assign_commit"},
           NEW table, NEW h, NEW last
    PROVE  CoFits(d, table, h, last) /\ ~Winner(d) /\ ~Granting(d)
BY DEF CoFits, Winner, Granting

\* A coroutine that does nothing.
LEMMA IdleFits ==
    ASSUME NEW table, NEW h, NEW last
    PROVE  CoFits(Idle, table, h, last) /\ ~Winner(Idle) /\ ~Granting(Idle)
BY PlainFits DEF Idle, Shape

-----------------------------------------------------------------------------
(* transition().                                                            *)

\* The loop of requeue_stale.
LEMMA StaleLoopFits ==
    ASSUME NEW todo, NEW table, NEW h, NEW last
    PROVE  LET d == StaleLoop(todo) IN CoFits(d, table, h, last) /\ ~Winner(d) /\ ~Granting(d)
<1>1. CASE todo = {}
  BY <1>1, IdleFits DEF StaleLoop
<1>2. CASE todo # {}
  BY <1>2, PlainFits DEF StaleLoop, Ask, Start, Idle, Shape
<1> QED BY <1>1, <1>2

\* A coroutine whose transition has returned.
LEMMA ReturnedFits ==
    ASSUME NEW c \in Coroutine, NEW f, NEW table, NEW h, NEW last, CoFits(c, f, h, last),
           NEW ok \in BOOLEAN
    PROVE  LET d == Returned(c, ok) IN CoFits(d, table, h, last) /\ ~Winner(d) /\ ~Granting(d)
<1> DEFINE Fine(d) == CoFits(d, table, h, last) /\ ~Winner(d) /\ ~Granting(d)
<1>1. c.op = "prepare" => Fine(At(Reset(c), "fetch")) \/ c.want # "downloading"
  <2> SUFFICES ASSUME c.op = "prepare", c.want = "downloading"
               PROVE  Fine(At(Reset(c), "fetch"))
    OBVIOUS
  <2> DEFINE d == At(Reset(c), "fetch")
  <2>1. d.op = "prepare" /\ d.want = "downloading" /\ d.pc = "fetch" /\ d.task = c.task
    BY DEF At, Reset, Coroutine
  <2> HIDE DEF d
  <2>2. Shape(d)
    BY <2>1 DEF Shape, CoFits
  <2>3. Fine(d)
    BY <2>1, <2>2, PlainFits
  <2> QED BY <2>3 DEF d
<1>2. c.op = "prepare" => Fine(Ask(Reset(c), "downloading"))
  <2> SUFFICES ASSUME c.op = "prepare" PROVE Fine(Ask(Reset(c), "downloading"))
    OBVIOUS
  <2> DEFINE d == Ask(Reset(c), "downloading")
  <2>1. d.op = "prepare" /\ d.want = "downloading" /\ d.pc = "get" /\ d.task = c.task
    BY DEF Ask, Reset, Coroutine
  <2> HIDE DEF d
  <2>2. Shape(d)
    BY <2>1 DEF Shape, CoFits
  <2>3. Fine(d)
    BY <2>1, <2>2, PlainFits
  <2> QED BY <2>3 DEF d
<1>3. c.op = "submit" => Fine(At(Reset(c), "touch"))
  <2> SUFFICES ASSUME c.op = "submit" PROVE Fine(At(Reset(c), "touch"))
    OBVIOUS
  <2> DEFINE d == At(Reset(c), "touch")
  <2>1. d.op = "submit" /\ d.want = c.want /\ d.pc = "touch" /\ d.task = c.task /\ d.tok = c.tok
    BY DEF At, Reset, Coroutine
  <2> HIDE DEF d
  <2>2. Fine(d)
    BY <2>1 DEF Shape, CoFits, Winner, Granting
  <2> QED BY <2>2 DEF d
<1>4. Fine(StaleLoop(c.todo)) /\ Fine(Idle)
  BY StaleLoopFits, IdleFits
<1> HIDE DEF Fine
<1>5. Fine(Returned(c, ok))
  BY <1>1, <1>2, <1>3, <1>4 DEF Returned
<1> QED BY <1>5 DEF Fine

\* The SELECT of transition().
LEMMA SelectedFits ==
    ASSUME NEW c \in Coroutine, c.pc = "get", NEW h, NEW last, CoFits(c, db, h, last)
    PROVE  LET d == Selected(c) IN CoFits(d, db, h, last) /\ ~Winner(d) /\ ~Granting(d)
<1>1. CASE Permits(db[c.task], c.want, PassedToken(c))
  <2> DEFINE retry == c.want = "timeout" /\ CanRetry(db[c.task])
             d == [c EXCEPT !.pc = "update", !.seen = db[c.task].state, !.retry = retry]
  <2>1. /\ d.pc = "update" /\ d.op = c.op /\ d.want = c.want /\ d.task = c.task
        /\ d.tok = c.tok
    BY DEF Coroutine
  <2>2. Selected(c) = d
    BY <1>1 DEF Selected
  <2> HIDE DEF d
  <2> QED BY <2>1, <2>2 DEF CoFits, Shape, Winner, Granting
<1>2. CASE ~Permits(db[c.task], c.want, PassedToken(c))
  BY <1>2, ReturnedFits DEF Selected
<1> QED BY <1>1, <1>2

\* The UPDATE of transition() makes a row completed, or queued, only if the row
\* has what it takes.
LEMMA TransitionedFits ==
    ASSUME NEW h, NEW t \in Tasks, NEW r \in Row, r.state \in Stored, RowFits(h, t, r),
           NEW want \in ValidTransitions[r.state], want # "assigned",
           NEW retry \in BOOLEAN,
           want = "completed" => HasResult(h, t, r),
           want = "queued" => HasInput(r)
    PROVE  LET q == Transitioned(r, want, retry) IN Follows(h, t, r, q) /\ RowFits(h, t, q)
<1> DEFINE q == Transitioned(r, want, retry)
<1>1. Evolves(r, q)
  BY TransitionedEvolves
<1>2. r.state # "gone"
  BY DEF Stored, Terminal
<1>3. q.out = r.out /\ q.input = r.input
  BY DEF Transitioned, Moved, Requeued, Row
<1>4. CASE want = "timeout"
  <2>1. r.state = "assigned"
    BY <1>4 DEF ValidTransitions, Stored, Terminal
  <2>2. q.state \in {"queued", "failed"}
    BY <1>4 DEF Transitioned, Moved, Requeued, Row
  <2> QED
    BY <1>1, <1>3, <2>1, <2>2, KeptFollows DEF RowFits, Evolves
<1>5. CASE want # "timeout"
  <2>1. q.state = want
    BY <1>5 DEF Transitioned, Moved, Row
  <2> QED
    BY <1>1, <1>2, <1>3, <2>1, KeptFollows DEF RowFits, Evolves, HasResult, HasInput
<1> QED BY <1>4, <1>5

\* The UPDATE of one row.
LEMMA UpdateFits ==
    ASSUME IInv, AInv, NEW t, NEW r, UpdateRow(t, r),
           t \in Tasks => Follows(holder, t, db[t], r) /\ RowFits(holder, t, r)
    PROVE  /\ \A u \in Tasks : Follows(holder, u, db[u], db'[u])
           /\ TableFits(holder, db')
BY SameFollows DEF IInv, TypeOK, AInv, UpdateRow, TableFits

\* transition(), from its SELECT to its commit.
LEMMA TransitionFits ==
    ASSUME IInv, IInv', AInv, NEW k \in Coros,
           TransitionGet(k) \/ TransitionUpdate(k) \/ TransitionCommit(k)
    PROVE  AInv'
<1> DEFINE c == co[k]
<1>0. /\ TypeOK /\ CoOK(c) /\ c \in Coroutine /\ CoFits(c, db, holder, issued)
      /\ issued \in Nat
  BY Numbers DEF IInv, AInv, TypeOK, CoOK
<1>1. CASE TransitionGet(k)
  BY <1>0, <1>1, SelectedFits, ReadStep DEF TransitionGet, ghost
<1>2. CASE TransitionUpdate(k)
  <2> DEFINE hit == db[c.task].state = c.seen
             d == [c EXCEPT !.pc = "commit", !.ok = hit]
  <2>1. /\ c.pc = "update" /\ c.seen \in Stored /\ c.want \in ValidTransitions[c.seen]
        /\ c.retry \in BOOLEAN /\ c.want # "assigned"
    BY <1>0, <1>2 DEF TransitionUpdate, CoOK, Coroutine, Wanted
  <2>2. Resume(k, d) /\ UNCHANGED <<disk, holder, issued, acked>>
    BY <1>2 DEF TransitionUpdate, ghost
  <2>3. /\ d.pc = "commit" /\ d.op = c.op /\ d.want = c.want /\ d.task = c.task
        /\ d.tok = c.tok /\ d.ok = hit
    BY <1>0 DEF Coroutine
  <2> DEFINE q == Transitioned(db[c.task], c.want, c.retry)
  <2>4. ASSUME hit, c.task \in Tasks
        PROVE  Follows(holder, c.task, db[c.task], q) /\ RowFits(holder, c.task, q)
    <3>1. c.want = "completed" => HasResult(holder, c.task, db[c.task])
      BY <1>0, <2>1 DEF CoFits, Shape
    <3>2. c.want = "queued" => HasInput(db[c.task])
      BY <1>0, <2>1 DEF CoFits
    <3>3. RowFits(holder, c.task, db[c.task]) /\ db[c.task] \in Row
      BY <1>0, <2>4 DEF AInv, TableFits, TypeOK
    <3> QED
      BY <2>1, <2>4, <3>1, <3>2, <3>3, TransitionedFits
  <2>5. /\ \A u \in Tasks : Follows(holder, u, db[u], db'[u])
        /\ TableFits(holder, db')
    <3>1. CASE hit
      <4>1. UpdateRow(c.task, q)
        BY <1>2, <3>1 DEF TransitionUpdate
      <4> HIDE DEF q
      <4> QED BY <2>4, <3>1, <4>1, UpdateFits
    <3>2. CASE ~hit
      BY <1>2, <3>2, SameFollows DEF TransitionUpdate, AInv
    <3> QED BY <3>1, <3>2
  <2>6. CASE ~(c.op = "submit" /\ hit)
    <3>1. CoFits(d, db', holder, issued) /\ ~Winner(d) /\ ~Granting(d)
      BY <1>0, <2>1, <2>3, <2>6 DEF CoFits, Shape, Winner, Granting
    <3> HIDE DEF d
    <3> QED BY <2>2, <2>5, <3>1, CoroutineStep
  <2>7. CASE c.op = "submit" /\ hit
    <3>1. c.want = "completed" /\ c.task \in Tasks /\ db[c.task].state = "assigned"
      BY <1>0, <2>1, <2>7 DEF CoFits, Shape, ValidTransitions, Stored, Terminal
    <3>2. Over(db'[c.task])
      <4>1. UpdateRow(c.task, q) /\ q = Moved(db[c.task], "completed")
        BY <1>2, <2>7, <3>1 DEF TransitionUpdate, Transitioned
      <4>2. db[c.task] \in Row /\ "completed" \in RowState
        BY <1>0, <3>1 DEF TypeOK, RowState, Stored, Terminal
      <4> HIDE DEF q
      <4>3. q.state = "completed"
        BY <4>1, <4>2, MovedRow
      <4> QED
        BY <1>0, <3>1, <4>1, <4>3 DEF UpdateRow, TypeOK, Over
    <3>3. CoFits(d, db', holder, issued')
      BY <1>0, <2>1, <2>2, <2>3, <3>1, <3>2 DEF CoFits, Shape, Winner, Granting
    <3>4. ~Over(db[c.task]) /\ ~Over(disk[c.task])
      BY <3>1, Ahead DEF Over
    <3>5. \A l \in Coros : l # k => co'[l] = co[l] /\ ~(Winner(co[l]) /\ co[l].task = c.task)
      BY <2>2, <3>4 DEF Resume, IInv, TypeOK, AInv, CoFits
    <3>6. \A tok \in acked : holder[tok].task # c.task
      BY <3>4 DEF AInv, AckFits
    <3>7. co'[k] = d /\ ~Granting(d)
      BY <1>0, <2>2, <2>3 DEF Resume, TypeOK, Granting
    <3> HIDE DEF d
    <3>8. Alone(co', acked, holder)
      BY <2>3, <3>5, <3>6, <3>7 DEF AInv, Alone
    <3>9. issued <= issued'
      BY <1>0, <2>2
    <3> QED BY <2>2, <2>5, <3>3, <3>8, <3>9, AloneStep
  <2> QED BY <2>6, <2>7
<1>3. CASE TransitionCommit(k)
  <2> DEFINE d == Returned(c, c.ok)
  <2>1. CoFits(d, db, holder, issued) /\ ~Winner(d) /\ ~Granting(d)
    BY <1>0, ReturnedFits DEF Coroutine
  <2>2. Resume(k, d) /\ Commit /\ UNCHANGED <<holder, issued>>
    BY <1>3 DEF TransitionCommit
  <2> HIDE DEF d
  <2>3. CASE ~Winner(c)
    <3>1. acked' = acked
      BY <1>3, <2>3 DEF TransitionCommit, Winner
    <3> QED BY <2>1, <2>2, <3>1, ReadStep
  <2>4. CASE Winner(c)
    <3>1. /\ acked' = acked \cup {c.tok} /\ c.tok \in Tokens
          /\ holder[c.tok].task = c.task /\ c.task \in Tasks /\ Over(db[c.task])
      BY <1>0, <1>3, <2>4 DEF TransitionCommit, Winner, CoFits, Shape, CoOK
    <3>2. disk' = db /\ db' = db
      BY <2>2 DEF Commit
    <3>3. HolderFits(holder, disk', issued) /\ AckFits(acked, holder, disk')
      BY <3>2, DiskFits
    <3>4. AckFits(acked', holder, disk')
      BY <3>1, <3>2, <3>3, Numbers DEF AckFits, Tasks
    <3>5. \A l \in Coros : co'[l] = IF l = k THEN d ELSE co[l]
      BY <1>0, <2>2 DEF Resume, TypeOK
    <3>6. \A l \in Coros : l # k /\ Winner(co[l]) => co[l].task # c.task
      BY <2>4 DEF AInv, Alone
    <3>7. \A tok \in acked : holder[tok].task # c.task
      BY <2>4 DEF AInv, Alone
    <3>8. Alone(co', acked', holder)
      BY <2>1, <3>1, <3>5, <3>6, <3>7 DEF AInv, Alone
    <3> QED
      BY <2>1, <2>2, <3>2, <3>3, <3>4, <3>5, <3>8 DEF AInv
  <2> QED BY <2>3, <2>4
<1> QED BY <1>1, <1>2, <1>3

-----------------------------------------------------------------------------
(* Preparation.                                                             *)

\* Recording the input hash of a row that is there.
LEMMA InputFits ==
    ASSUME NEW h, NEW t, NEW r \in Row, RowFits(h, t, r), Exists(r)
    PROVE  LET q == [r EXCEPT !.input = TRUE, !.iso = FALSE] IN
           Follows(h, t, r, q) /\ RowFits(h, t, q) /\ HasInput(q)
<1> DEFINE q == [r EXCEPT !.input = TRUE, !.iso = FALSE]
<1>1. q.state = r.state /\ q.out = r.out /\ q.input
  BY DEF Row
<1>2. r.state \notin {"gone", "absent"}
  BY DEF Exists, Stored, Terminal
<1> HIDE DEF q
<1>3. Follows(h, t, r, q) /\ RowFits(h, t, q) /\ HasInput(q)
  BY <1>1, <1>2 DEF Follows, RowFits, HasInput, HasResult, Over
<1> QED BY <1>3 DEF q

\* The creation of a task, and its preparation up to each transition.
LEMMA PrepareFits ==
    ASSUME IInv, IInv', AInv, NEW k \in Coros,
           \/ \E s \in {"pending", "queued"} : Create(k, s)
           \/ CreateCommit(k) \/ Fetched(k) \/ FetchFailed(k) \/ MarkFailed(k)
           \/ SetQueuedGet(k) \/ SetQueuedInput(k) \/ SetQueuedCommit(k)
    PROVE  AInv'
<1> DEFINE c == co[k]
<1>0. /\ TypeOK /\ c \in Coroutine /\ CoFits(c, db, holder, issued) /\ Shape(c)
  BY DEF IInv, AInv, TypeOK, CoFits
<1>1. ASSUME NEW s \in {"pending", "queued"}, Create(k, s)
      PROVE  AInv'
  <2> DEFINE t == made + 1
             w == IF s = "pending" THEN "downloading" ELSE "absent"
             d == [At(Start("create", t), "create_commit") EXCEPT !.want = w]
  <2>1. t \in Tasks /\ db[t].state = "absent"
    BY <1>1, Numbers DEF Create, IInv, TypeOK, Tables, Unborn, Tasks
  <2>2. Resume(k, d) /\ UpdateRow(t, NewRow(s)) /\ UNCHANGED <<disk, holder, issued, acked>>
    BY <1>1 DEF Create
  <2>3. Follows(holder, t, db[t], NewRow(s)) /\ RowFits(holder, t, NewRow(s))
    BY <2>1 DEF NewRow, Follows, RowFits, HasInput, HasResult, Over
  <2>4. /\ d.op = "create" /\ d.pc = "create_commit" /\ d.task = t
        /\ d.want \in {"downloading", "absent"}
    BY DEF At, Start, Idle
  <2> HIDE DEF d, t
  <2>5. CoFits(d, db', holder, issued) /\ ~Winner(d) /\ ~Granting(d)
    BY <2>1, <2>4, PlainFits DEF Shape
  <2>6. /\ \A u \in Tasks : Follows(holder, u, db[u], db'[u])
        /\ TableFits(holder, db')
    BY <2>2, <2>3, UpdateFits
  <2> QED BY <2>2, <2>5, <2>6, CoroutineStep
<1>2. CASE CreateCommit(k)
  <2> DEFINE d == Ask(Start("prepare", c.task), "downloading")
  <2>1. c.task \in Tasks
    BY <1>0, <1>2 DEF CreateCommit, Shape
  <2>2. d.op = "prepare" /\ d.pc = "get" /\ d.task = c.task /\ d.want = "downloading"
    BY DEF Ask, Start, Idle
  <2> HIDE DEF d
  <2>3. CoFits(d, db, holder, issued) /\ ~Winner(d) /\ ~Granting(d)
    BY <2>1, <2>2, PlainFits DEF Shape
  <2>4. Resume(k, d) \/ Resume(k, Idle)
    BY <1>2 DEF CreateCommit, d
  <2> QED BY <1>2, <2>3, <2>4, IdleFits, ReadStep DEF CreateCommit, ghost
<1>3. CASE Fetched(k)
  <2> DEFINE d == At(c, "sq_get")
  <2>1. c.op = "prepare"
    BY <1>0, <1>3 DEF Fetched, Shape
  <2>2. d.op = c.op /\ d.pc = "sq_get" /\ d.task = c.task /\ d.want = c.want
    BY <1>0 DEF At, Coroutine
  <2>3. Resume(k, d) /\ UNCHANGED rows /\ UNCHANGED <<holder, issued, acked>>
    BY <1>3 DEF Fetched, ghost
  <2> HIDE DEF d
  <2>4. CoFits(d, db, holder, issued) /\ ~Winner(d) /\ ~Granting(d)
    BY <1>0, <2>1, <2>2 DEF CoFits, Shape, Winner, Granting
  <2> QED BY <2>3, <2>4, ReadStep
<1>4. CASE FetchFailed(k)
  <2> DEFINE again == Ask([c EXCEPT !.tries = @ + 1], "pending")
             over  == At(c, "mf_commit")
  <2>1. c.op = "prepare"
    BY <1>0, <1>4 DEF FetchFailed, Shape
  <2>2. /\ again.op = c.op /\ again.pc = "get" /\ again.task = c.task /\ again.want = "pending"
        /\ over.op = c.op /\ over.pc = "mf_commit" /\ over.task = c.task /\ over.want = c.want
    BY <1>0 DEF At, Ask, Coroutine
  <2>3. /\ Resume(k, again) \/ Resume(k, over)
        /\ UNCHANGED rows /\ UNCHANGED <<holder, issued, acked>>
    BY <1>4 DEF FetchFailed, ghost
  <2> HIDE DEF again, over
  <2>4. \A d \in {again, over} : CoFits(d, db, holder, issued) /\ ~Winner(d) /\ ~Granting(d)
    BY <1>0, <2>1, <2>2 DEF CoFits, Shape, Winner, Granting
  <2> QED BY <2>3, <2>4, ReadStep
<1>5. CASE MarkFailed(k)
  <2> DEFINE d == Ask(c, "failed")
  <2>1. c.op = "prepare"
    BY <1>0, <1>5 DEF MarkFailed, Shape
  <2>2. d.op = c.op /\ d.pc = "get" /\ d.task = c.task /\ d.want = "failed"
    BY <1>0 DEF Ask, Coroutine
  <2>3. Resume(k, d) /\ Commit /\ UNCHANGED <<holder, issued, acked>>
    BY <1>5 DEF MarkFailed, ghost
  <2> HIDE DEF d
  <2>4. CoFits(d, db, holder, issued) /\ ~Winner(d) /\ ~Granting(d)
    BY <1>0, <2>1, <2>2, PlainFits DEF Shape
  <2> QED BY <2>3, <2>4, ReadStep
<1>6. CASE SetQueuedGet(k)
  <2> DEFINE d == At(c, "sq_input")
  <2>1. c.op = "prepare"
    BY <1>0, <1>6 DEF SetQueuedGet, Shape
  <2>2. d.op = c.op /\ d.pc = "sq_input" /\ d.task = c.task /\ d.want = c.want
    BY <1>0 DEF At, Coroutine
  <2>3. /\ \/ Resume(k, d) /\ db[c.task].state \in {"pending", "downloading"}
           \/ Resume(k, Idle)
        /\ UNCHANGED rows /\ UNCHANGED <<holder, issued, acked>>
    BY <1>6 DEF SetQueuedGet, ghost
  <2> HIDE DEF d
  <2>4. db[c.task].state \in {"pending", "downloading"} =>
            CoFits(d, db, holder, issued) /\ ~Winner(d) /\ ~Granting(d)
    BY <1>0, <2>1, <2>2 DEF CoFits, Shape, Winner, Granting
  <2> QED BY <2>3, <2>4, IdleFits, ReadStep
<1>7. CASE SetQueuedInput(k)
  <2> DEFINE d == At(c, "sq_commit")
             q == [db[c.task] EXCEPT !.input = TRUE, !.iso = FALSE]
  <2>1. c.op = "prepare" /\ c.task \in Tasks /\ db[c.task].state # "absent"
    BY <1>0, <1>7 DEF SetQueuedInput, Shape, CoFits
  <2>2. d.op = c.op /\ d.pc = "sq_commit" /\ d.task = c.task /\ d.want = c.want
    BY <1>0 DEF At, Coroutine
  <2>3. Resume(k, d) /\ UNCHANGED <<disk, holder, issued, acked>>
    BY <1>7 DEF SetQueuedInput, ghost
  <2>4. RowFits(holder, c.task, db[c.task]) /\ db[c.task] \in Row
    BY <1>0, <2>1 DEF AInv, TableFits, TypeOK
  <2>5. /\ \A u \in Tasks : Follows(holder, u, db[u], db'[u])
        /\ TableFits(holder, db') /\ HasInput(db'[c.task])
    <3>1. CASE Exists(db[c.task])
      <4>1. UpdateRow(c.task, q)
        BY <1>7, <3>1 DEF SetQueuedInput
      <4>2. Follows(holder, c.task, db[c.task], q) /\ RowFits(holder, c.task, q) /\ HasInput(q)
        BY <2>4, <3>1, InputFits
      <4> HIDE DEF q
      <4>3. db'[c.task] = q
        BY <1>0, <2>1, <4>1 DEF UpdateRow, TypeOK
      <4> QED BY <4>1, <4>2, <4>3, UpdateFits
    <3>2. CASE ~Exists(db[c.task])
      <4>1. db' = db /\ db[c.task].state = "gone"
        BY <1>7, <2>1, <2>4, <3>2 DEF SetQueuedInput, Exists, Row, RowState
      <4> QED BY <4>1, SameFollows DEF AInv, HasInput
    <3> QED BY <3>1, <3>2
  <2> HIDE DEF d
  <2>6. CoFits(d, db', holder, issued) /\ ~Winner(d) /\ ~Granting(d)
    BY <1>0, <2>1, <2>2, <2>5 DEF CoFits, Shape, Winner, Granting
  <2> QED BY <2>3, <2>5, <2>6, CoroutineStep
<1>8. CASE SetQueuedCommit(k)
  <2> DEFINE d == Ask(c, "queued")
  <2>1. c.op = "prepare" /\ c.pc = "sq_commit"
    BY <1>0, <1>8 DEF SetQueuedCommit, Shape
  <2>2. d.op = c.op /\ d.pc = "get" /\ d.task = c.task /\ d.want = "queued"
    BY <1>0 DEF Ask, Coroutine
  <2>3. Resume(k, d) /\ Commit /\ UNCHANGED <<holder, issued, acked>>
    BY <1>8 DEF SetQueuedCommit, ghost
  <2> HIDE DEF d
  <2>4. CoFits(d, db, holder, issued) /\ ~Winner(d) /\ ~Granting(d)
    BY <1>0, <2>1, <2>2 DEF CoFits, Shape, Winner, Granting
  <2> QED BY <2>3, <2>4, ReadStep
<1> QED
  BY <1>1, <1>2, <1>3, <1>4, <1>5, <1>6, <1>7, <1>8

-----------------------------------------------------------------------------
(* Assignment.                                                              *)

\* The loop of pull at a row.
LEMMA PullFits ==
    ASSUME NEW todo, NEW table, NEW h, NEW last
    PROVE  LET d == [At(Start("pull", 0), "assign") EXCEPT !.todo = todo] IN
           CoFits(d, table, h, last) /\ ~Winner(d) /\ ~Granting(d)
<1> DEFINE d == [At(Start("pull", 0), "assign") EXCEPT !.todo = todo]
<1>1. d.op = "pull" /\ d.pc = "assign" /\ d.want = "absent"
  BY DEF At, Start, Idle
<1> HIDE DEF d
<1>2. CoFits(d, table, h, last) /\ ~Winner(d) /\ ~Granting(d)
  BY <1>1, PlainFits DEF Shape
<1> QED BY <1>2 DEF d

\* A queued row is assigned with its input.
LEMMA AssignedFits ==
    ASSUME NEW h, NEW t, NEW r \in Row, RowFits(h, t, r), r.state = "queued", NEW tok \in Nat
    PROVE  LET q == Assigned(r, tok) IN
           Follows(h, t, r, q) /\ RowFits(h, t, q) /\ q.state = "assigned"
<1> DEFINE q == Assigned(r, tok)
<1>1. q.state = "assigned" /\ q.out = r.out /\ q.input = r.input
  BY DEF Assigned, Moved, Row
<1> HIDE DEF q
<1>2. Follows(h, t, r, q) /\ RowFits(h, t, q) /\ q.state = "assigned"
  BY <1>1 DEF Follows, RowFits, HasInput, HasResult, Over
<1> QED BY <1>2 DEF q

\* assign(): a fresh token for a row that is still queued.
LEMMA AssignFits ==
    ASSUME IInv, IInv', AInv, NEW k \in Coros, AssignUpdate(k)
    PROVE  AInv'
<1> DEFINE c == co[k]
           t == Min(c.todo)
<1>0. /\ TypeOK /\ c \in Coroutine /\ CoFits(c, db, holder, issued) /\ Shape(c)
      /\ issued \in Nat /\ issued <= issued + 1
  BY Numbers DEF IInv, AInv, TypeOK, CoFits
<1>1. t \in Tasks
  BY MinInSet, Numbers DEF IInv, AssignUpdate, CoOK, Coroutine
<1>2. c.op = "pull" /\ c.want \notin {"completed", "queued"} /\ c.pc = "assign"
  BY <1>0 DEF AssignUpdate, Shape
<1> HIDE DEF t
<1>3. UNCHANGED <<disk, holder, acked>>
  BY DEF AssignUpdate
<1>4. CASE db[t].state = "queued"
  <2> DEFINE d == [At(c, "assign_commit") EXCEPT
                     !.task = t, !.tok = issued', !.ok = TRUE, !.todo = c.todo \ {t}]
  <2>1. /\ issued < MaxToken /\ issued' = issued + 1 /\ Resume(k, d)
        /\ UpdateRow(t, Assigned(db[t], issued'))
    BY <1>4 DEF AssignUpdate, t, At
  <2>2. issued' \in Tokens /\ issued' \in Nat
    BY <1>0, <2>1, Numbers DEF Tokens
  <2>3. /\ d.op = "pull" /\ d.pc = "assign_commit" /\ d.task = t /\ d.tok = issued'
        /\ d.want = c.want
    BY <1>0, <1>2 DEF At, Coroutine
  <2>4. holder[issued'].task = 0
    BY <1>0, <2>1, <2>2 DEF AInv, HolderFits
  <2>5. /\ Follows(holder, t, db[t], Assigned(db[t], issued'))
        /\ RowFits(holder, t, Assigned(db[t], issued'))
        /\ Assigned(db[t], issued').state = "assigned"
    BY <1>0, <1>1, <1>4, <2>2, AssignedFits DEF AInv, TableFits, TypeOK
  <2>6. /\ \A u \in Tasks : Follows(holder, u, db[u], db'[u])
        /\ TableFits(holder, db')
    BY <2>1, <2>5, UpdateFits
  <2>7. db'[t].state = "assigned"
    BY <1>0, <1>1, <2>1, <2>5 DEF UpdateRow, TypeOK
  <2> HIDE DEF d
  <2>8. CoFits(d, db', holder, issued')
    BY <1>1, <1>2, <2>2, <2>3, <2>4, <2>7 DEF CoFits, Shape, Winner
  <2>9. \A l \in Coros : co'[l] = IF l = k THEN d ELSE co[l]
    BY <1>0, <2>1 DEF Resume, TypeOK
  <2>10. \A l \in Coros : Granting(co[l]) => co[l].tok # d.tok
    BY <1>0, <2>1, <2>3, Numbers DEF AInv, CoFits, Tokens
  <2>11. ~Winner(d)
    BY <2>3 DEF Winner
  <2>12. Alone(co', acked, holder)
    BY <2>9, <2>10, <2>11 DEF AInv, Alone
  <2>13. issued <= issued'
    BY <1>0, <2>1
  <2> QED BY <1>3, <2>1, <2>6, <2>8, <2>12, <2>13, AloneStep
<1>5. CASE db[t].state # "queued"
  <2> DEFINE d == [At(c, "assign_commit") EXCEPT
                     !.task = t, !.ok = FALSE, !.todo = c.todo \ {t}]
  <2>1. Resume(k, d) /\ UNCHANGED <<db, issued>>
    BY <1>5 DEF AssignUpdate, t, At
  <2>2. /\ d.op = "pull" /\ d.pc = "assign_commit" /\ d.ok = FALSE /\ d.want = c.want
    BY <1>0, <1>2 DEF At, Coroutine
  <2> HIDE DEF d
  <2>3. CoFits(d, db, holder, issued) /\ ~Winner(d) /\ ~Granting(d)
    BY <1>2, <2>2 DEF CoFits, Shape, Winner, Granting
  <2> QED BY <1>3, <2>1, <2>3, ReadStep DEF rows
<1> QED BY <1>4, <1>5

\* The commit of assign(), after which the worker has the token.
LEMMA GrantFits ==
    ASSUME IInv, IInv', AInv, NEW k \in Coros, AssignCommit(k)
    PROVE  AInv'
<1> DEFINE c == co[k]
<1>0. /\ TypeOK /\ c \in Coroutine /\ CoFits(c, db, holder, issued) /\ c.pc = "assign_commit"
      /\ issued \in Nat
  BY Numbers DEF IInv, AInv, TypeOK, AssignCommit
<1>1. Commit /\ UNCHANGED <<issued, acked>>
  BY DEF AssignCommit
<1>2. CASE ~c.ok
  <2> DEFINE d == [At(Start("pull", 0), "assign") EXCEPT !.todo = c.todo]
  <2>1. (Resume(k, Idle) \/ Resume(k, d)) /\ UNCHANGED holder
    BY <1>2 DEF AssignCommit
  <2>2. CoFits(d, db, holder, issued) /\ ~Winner(d) /\ ~Granting(d)
    BY PullFits
  <2> HIDE DEF d
  <2> QED BY <1>1, <2>1, <2>2, IdleFits, ReadStep
<1>3. CASE c.ok
  <2>1. /\ holder' = [holder EXCEPT ![c.tok] = [task |-> c.task, phase |-> "running"]]
        /\ Resume(k, Idle)
    BY <1>3 DEF AssignCommit
  <2>2. /\ Granting(c) /\ c.tok \in Tokens /\ c.tok <= issued /\ holder[c.tok].task = 0
        /\ c.task \in Tasks /\ db[c.task].state # "absent"
    BY <1>0, <1>3 DEF CoFits, Granting
  <2>3. \A tok \in Tokens : holder'[tok].task = IF tok = c.tok THEN c.task ELSE holder[tok].task
    BY <1>0, <2>1, <2>2 DEF TypeOK
  <2>4. \A tok \in Tokens : tok # c.tok => holder'[tok] = holder[tok]
    BY <1>0, <2>1, <2>2 DEF TypeOK
  <2>5. Grows(holder, holder')
    BY <2>2, <2>3 DEF Grows
  <2>6. disk' = db /\ db' = db
    BY <1>1 DEF Commit
  <2>7. TableFits(holder', db)
    BY <2>5, RowStays DEF AInv
  <2>8. \A l \in Coros : co'[l] = IF l = k THEN Idle ELSE co[l]
    BY <1>0, <2>1 DEF Resume, TypeOK
  <2>9. ASSUME NEW l \in Coros
        PROVE  CoFits(co'[l], db, holder', issued)
    <3>1. CASE l = k
      BY <2>8, <3>1, IdleFits
    <3>2. CASE l # k
      <4>1. CoOK(co[l]) /\ CoFits(co[l], db, holder, issued)
        BY DEF IInv, AInv
      <4>2. Granting(co[l]) => co[l].tok # c.tok
        BY <2>2, <3>2 DEF AInv, Alone
      <4>3. Granting(co[l]) => holder'[co[l].tok].task = 0
        BY <2>3, <4>1, <4>2 DEF CoFits
      <4>4. \A t \in Tasks : Follows(holder, t, db[t], db[t])
        BY SameFollows
      <4>5. issued <= issued
        BY <1>0
      <4>6. CoFits(co[l], db, holder', issued)
        BY <1>0, <2>5, <4>1, <4>3, <4>4, <4>5, CoStays
      <4> QED BY <2>8, <3>2, <4>6
    <3> QED BY <3>1, <3>2
  <2>10. HolderFits(holder, db, issued) /\ AckFits(acked, holder, db)
    <3>1. disk' \in {disk, db}
      BY <2>6
    <3> QED BY <2>6, <3>1, DiskFits
  <2>11. HolderFits(holder', db, issued)
    BY <2>2, <2>3, <2>4, <2>10, Numbers DEF HolderFits, Tasks
  <2>12. acked \subseteq Tokens \ {c.tok}
    BY <1>0, <2>2 DEF TypeOK, AInv, AckFits
  <2>13. AckFits(acked, holder', db)
    BY <2>4, <2>10, <2>12 DEF AckFits
  <2>14. Alone(co', acked, holder')
    <3>1. \A tok \in acked : holder'[tok] = holder[tok]
      BY <2>4, <2>12
    <3>2. \A l \in Coros : Winner(co'[l]) \/ Granting(co'[l]) => co'[l] = co[l]
      BY <2>8, IdleFits
    <3> QED BY <3>1, <3>2 DEF AInv, Alone
  <2> QED
    BY <1>1, <2>6, <2>7, <2>9, <2>11, <2>13, <2>14 DEF AInv
<1> QED BY <1>2, <1>3

-----------------------------------------------------------------------------
(* Results and signals.                                                     *)

\* Recording a result of the task.
LEMMA OutputFits ==
    ASSUME NEW h, NEW t, NEW r \in Row, RowFits(h, t, r), Exists(r),
           NEW tok \in RunsIn(h, t)
    PROVE  LET q == [r EXCEPT !.out = tok, !.iso = FALSE] IN
           Follows(h, t, r, q) /\ RowFits(h, t, q) /\ HasResult(h, t, q)
<1> DEFINE q == [r EXCEPT !.out = tok, !.iso = FALSE]
<1>1. q.state = r.state /\ q.out = tok /\ q.input = r.input
  BY DEF Row
<1>2. r.state \notin {"gone", "absent"}
  BY DEF Exists, Stored, Terminal
<1> HIDE DEF q
<1>3. Follows(h, t, r, q) /\ RowFits(h, t, q) /\ HasResult(h, t, q)
  BY <1>1, <1>2 DEF Follows, RowFits, HasInput, HasResult, Over
<1> QED BY <1>3 DEF q

\* A signal.
LEMMA SignalledFits ==
    ASSUME NEW h, NEW t, NEW r \in Row, RowFits(h, t, r)
    PROVE  Follows(h, t, r, Signalled(r)) /\ RowFits(h, t, Signalled(r))
<1>1. Signalled(r).state = r.state /\ Signalled(r).out = r.out /\ Signalled(r).input = r.input
  BY DEF Signalled, Row
<1> QED BY <1>1 DEF Follows, RowFits, HasInput, HasResult, Over

\* complete() after its check, and the signals.
LEMMA SubmitFits ==
    ASSUME Unstored = {}, IInv, IInv', AInv, NEW k \in Coros,
           \/ SubmitOutput(k) \/ SubmitRef(k) \/ SubmitRollback(k) \/ SubmitCommit(k)
           \/ SignalUpdate(k) \/ SignalCommit(k)
    PROVE  AInv'
<1> DEFINE c == co[k]
<1>0. /\ TypeOK /\ c \in Coroutine /\ CoOK(c) /\ CoFits(c, db, holder, issued) /\ Shape(c)
  BY DEF IInv, AInv, TypeOK, CoFits
<1>1. CASE SubmitOutput(k)
  <2> DEFINE d == At(c, "ref")
             q == [db[c.task] EXCEPT !.out = c.tok, !.iso = FALSE]
  <2>1. /\ c.op = "submit" /\ c.task \in Tasks /\ c.tok \in Tokens
        /\ holder[c.tok].task = c.task /\ c.want # "queued"
    BY <1>0, <1>1 DEF SubmitOutput, Shape, CoFits, CoOK
  <2>2. d.op = c.op /\ d.pc = "ref" /\ d.task = c.task /\ d.want = c.want /\ d.tok = c.tok
    BY <1>0 DEF At, Coroutine
  <2>3. Resume(k, d) /\ UNCHANGED <<disk, holder, issued, acked>>
    BY <1>1 DEF SubmitOutput, ghost
  <2>4. RowFits(holder, c.task, db[c.task]) /\ db[c.task] \in Row
    BY <1>0, <2>1 DEF AInv, TableFits, TypeOK
  <2>5. db[c.task].state # "absent"
    <3>1. c.task # 0
      BY <2>1, Numbers DEF Tasks
    <3>2. disk[c.task].state # "absent"
      BY <2>1, <3>1 DEF AInv, HolderFits
    <3> QED BY <2>1, <3>2, Ahead
  <2>6. /\ \A u \in Tasks : Follows(holder, u, db[u], db'[u])
        /\ TableFits(holder, db') /\ HasResult(holder, c.task, db'[c.task])
    <3>1. CASE Exists(db[c.task])
      <4>1. UpdateRow(c.task, q)
        BY <1>1, <3>1 DEF SubmitOutput
      <4>2. c.tok \in RunsIn(holder, c.task)
        BY <2>1 DEF RunsIn
      <4>3. /\ Follows(holder, c.task, db[c.task], q) /\ RowFits(holder, c.task, q)
            /\ HasResult(holder, c.task, q)
        BY <2>4, <3>1, <4>2, OutputFits
      <4> HIDE DEF q
      <4>4. db'[c.task] = q
        BY <1>0, <2>1, <4>1 DEF UpdateRow, TypeOK
      <4> QED BY <4>1, <4>3, <4>4, UpdateFits
    <3>2. CASE ~Exists(db[c.task])
      <4>1. db' = db /\ db[c.task].state = "gone"
        BY <1>1, <2>4, <2>5, <3>2 DEF SubmitOutput, Exists, Row, RowState
      <4> QED BY <4>1, SameFollows DEF AInv, HasResult
    <3> QED BY <3>1, <3>2
  <2> HIDE DEF d
  <2>7. CoFits(d, db', holder, issued) /\ ~Winner(d) /\ ~Granting(d)
    BY <1>0, <2>1, <2>2, <2>6 DEF CoFits, Shape, Winner, Granting
  <2> QED BY <2>3, <2>6, <2>7, CoroutineStep
<1>2. CASE SubmitRef(k)
  <2> DEFINE d == At(c, "out_commit")
  <2>1. c.op = "submit" /\ c.want # "queued" /\ c.pc = "ref"
    BY <1>0, <1>2 DEF SubmitRef, Shape
  <2>2. d.op = c.op /\ d.pc = "out_commit" /\ d.task = c.task /\ d.want = c.want /\ d.tok = c.tok
    BY <1>0 DEF At, Coroutine
  <2>3. Resume(k, d) /\ UNCHANGED rows /\ UNCHANGED <<holder, issued, acked>>
    BY <1>2 DEF SubmitRef, ghost
  <2> HIDE DEF d
  <2>4. CoFits(d, db, holder, issued) /\ ~Winner(d) /\ ~Granting(d)
    BY <1>0, <2>1, <2>2 DEF CoFits, Shape, Winner, Granting
  <2> QED BY <2>3, <2>4, ReadStep
<1>3. CASE SubmitRollback(k)
  BY <1>0, <1>3 DEF SubmitRollback, Shape
<1>4. CASE SubmitCommit(k)
  <2> DEFINE d == Ask(c, "completed")
  <2>1. c.op = "submit" /\ c.pc = "out_commit"
    BY <1>0, <1>4 DEF SubmitCommit, Shape
  <2>2. d.op = c.op /\ d.pc = "get" /\ d.task = c.task /\ d.want = "completed" /\ d.tok = c.tok
    BY <1>0 DEF Ask, Coroutine
  <2>3. Resume(k, d) /\ Commit /\ UNCHANGED <<holder, issued, acked>>
    BY <1>4 DEF SubmitCommit, ghost
  <2> HIDE DEF d
  <2>4. CoFits(d, db, holder, issued) /\ ~Winner(d) /\ ~Granting(d)
    BY <1>0, <2>1, <2>2 DEF CoFits, Shape, Winner, Granting
  <2> QED BY <2>3, <2>4, ReadStep
<1>5. CASE SignalUpdate(k)
  <2> DEFINE d == At(c, "touch_commit")
  <2>1. c.pc \in {"touch", "beat_update"}
    BY <1>5 DEF SignalUpdate
  <2>2. /\ d.op = c.op /\ d.pc = "touch_commit" /\ d.task = c.task /\ d.want = c.want
        /\ d.tok = c.tok
    BY <1>0 DEF At, Coroutine
  <2>3. Resume(k, d) /\ UNCHANGED <<disk, holder, issued, acked>>
    BY <1>5 DEF SignalUpdate, ghost
  <2>4. /\ \A u \in Tasks : Follows(holder, u, db[u], db'[u])
        /\ TableFits(holder, db')
    <3>1. CASE Exists(db[c.task])
      <4>1. UpdateRow(c.task, Signalled(db[c.task]))
        BY <1>5, <3>1 DEF SignalUpdate
      <4>2. c.task \in Tasks =>
              /\ Follows(holder, c.task, db[c.task], Signalled(db[c.task]))
              /\ RowFits(holder, c.task, Signalled(db[c.task]))
        BY <1>0, SignalledFits DEF AInv, TableFits, TypeOK
      <4> QED BY <4>1, <4>2, UpdateFits
    <3>2. CASE ~Exists(db[c.task])
      BY <1>5, <3>2, SameFollows DEF SignalUpdate, AInv
    <3> QED BY <3>1, <3>2
  <2> HIDE DEF d
  <2>5. CoFits(d, db', holder, issued) /\ ~Winner(d) /\ ~Granting(d)
    BY <1>0, <2>1, <2>2 DEF CoFits, Shape, Winner, Granting
  <2> QED BY <2>3, <2>4, <2>5, CoroutineStep
<1>6. CASE SignalCommit(k)
  BY <1>6, IdleFits, ReadStep DEF SignalCommit, ghost
<1> QED
  BY <1>1, <1>2, <1>3, <1>4, <1>5, <1>6

-----------------------------------------------------------------------------
(* Maintenance, cancellation, requests.                                     *)

\* The bulk UPDATEs and the deletion neither complete nor queue a task without
\* what it takes.
LEMMA BulkFits ==
    ASSUME NEW h, NEW t, NEW r \in Row, RowFits(h, t, r)
    PROVE  /\ Follows(h, t, r, JobCancelled(r)) /\ RowFits(h, t, JobCancelled(r))
           /\ Follows(h, t, r, Purged(r)) /\ RowFits(h, t, Purged(r))
           /\ r.state = "pending" =>
                Follows(h, t, r, Moved(r, "failed")) /\ RowFits(h, t, Moved(r, "failed"))
           /\ Follows(h, t, r, Deleted(r)) /\ RowFits(h, t, Deleted(r))
<1>1. /\ Evolves(r, JobCancelled(r)) /\ Evolves(r, Purged(r)) /\ Evolves(r, Deleted(r))
      /\ r.state = "pending" => Evolves(r, Moved(r, "failed"))
  BY BulkEvolves
<1>2. \A s \in {"cancelled", "failed", "queued"} :
        LET q == Moved(r, s) IN q.state = s /\ q.out = r.out /\ q.input = r.input
  BY DEF Moved, Row
<1>3. Follows(h, t, r, JobCancelled(r)) /\ RowFits(h, t, JobCancelled(r))
  <2>1. /\ JobCancelled(r).out = r.out /\ JobCancelled(r).input = r.input
        /\ JobCancelled(r).state \in {"cancelled", r.state}
    BY DEF JobCancelled, Moved, Row
  <2> QED BY <1>1, <2>1, KeptFollows DEF Evolves, RowFits
<1>4. Follows(h, t, r, Purged(r)) /\ RowFits(h, t, Purged(r))
  <2>1. /\ Purged(r).out = r.out /\ Purged(r).input = r.input
        /\ Purged(r).state = IF r.state = "assigned" THEN "queued" ELSE r.state
    BY DEF Purged, Moved, Row
  <2> QED BY <1>1, <2>1, KeptFollows DEF Evolves, RowFits
<1>5. r.state = "pending" =>
        Follows(h, t, r, Moved(r, "failed")) /\ RowFits(h, t, Moved(r, "failed"))
  BY <1>1, <1>2, KeptFollows DEF Evolves, RowFits
<1>6. Follows(h, t, r, Deleted(r)) /\ RowFits(h, t, Deleted(r))
  <2>1. CASE Exists(r)
    <3>1. Deleted(r).state = "gone"
      BY <2>1 DEF Deleted, GoneRow, NewRow
    <3> QED BY <1>1, <3>1, KeptFollows DEF Evolves, RowFits
  <2>2. CASE ~Exists(r)
    BY <2>2, SameFollows DEF Deleted
  <2> QED BY <2>1, <2>2
<1> QED BY <1>3, <1>4, <1>5, <1>6

\* The maintenance loop and the cancellation of a job.
LEMMA CleanupFits ==
    ASSUME IInv, IInv', AInv, NEW k \in Coros,
           \/ CleanupDelete(k) \/ CleanupExpire(k) \/ CleanupCommit(k)
           \/ CancelJob(k) \/ CancelJobCommit(k)
    PROVE  AInv'
<1> DEFINE c == co[k]
<1>0. /\ TypeOK /\ c \in Coroutine /\ CoFits(c, db, holder, issued) /\ Shape(c)
      /\ \A t \in Tasks : db[t] \in Row /\ RowFits(holder, t, db[t])
  BY DEF IInv, AInv, TypeOK, CoFits, TableFits
<1>1. CASE CleanupDelete(k)
  <2> DEFINE t == Min(c.todo)
             d == [c EXCEPT !.todo = c.todo \ {t},
                            !.pc = IF c.todo = {t} THEN "expire" ELSE "delete"]
  <2>1. /\ d.op = c.op /\ d.pc \in {"expire", "delete"} /\ d.task = c.task /\ d.want = c.want
        /\ d.tok = c.tok
    BY <1>0 DEF Coroutine
  <2>2. Resume(k, d) /\ UpdateRow(t, Deleted(db[t])) /\ UNCHANGED <<disk, holder, issued, acked>>
    BY <1>1 DEF CleanupDelete, ghost
  <2> HIDE DEF d, t
  <2>3. /\ \A u \in Tasks : Follows(holder, u, db[u], db'[u])
        /\ TableFits(holder, db')
    BY <1>0, <2>2, BulkFits, UpdateFits
  <2>4. CoFits(d, db', holder, issued) /\ ~Winner(d) /\ ~Granting(d)
    BY <1>0, <2>1 DEF CoFits, Shape, Winner, Granting
  <2> QED BY <2>2, <2>3, <2>4, CoroutineStep
<1>2. CASE CleanupExpire(k)
  <2> DEFINE d == At(c, "cleanup_commit")
  <2>1. /\ d.op = c.op /\ d.pc = "cleanup_commit" /\ d.task = c.task /\ d.want = c.want
        /\ d.tok = c.tok
    BY <1>0 DEF At, Coroutine
  <2>2. Resume(k, d) /\ UNCHANGED <<disk, holder, issued, acked>>
    BY <1>2 DEF CleanupExpire, ghost
  <2>3. PICK old \in SUBSET {t \in Tasks : db[t].state = "pending"} :
          db' = [t \in Tasks |-> IF t \in old THEN Moved(db[t], "failed") ELSE db[t]]
    BY <1>2 DEF CleanupExpire
  <2>4. \A u \in Tasks : Follows(holder, u, db[u], db'[u]) /\ RowFits(holder, u, db'[u])
    BY <1>0, <2>3, BulkFits, SameFollows
  <2> HIDE DEF d
  <2>5. CoFits(d, db', holder, issued) /\ ~Winner(d) /\ ~Granting(d)
    BY <1>0, <2>1 DEF CoFits, Shape, Winner, Granting
  <2> QED BY <2>2, <2>4, <2>5, CoroutineStep DEF TableFits
<1>3. CASE CleanupCommit(k)
  BY <1>3, IdleFits, ReadStep DEF CleanupCommit, ghost
<1>4. CASE CancelJob(k)
  <2> DEFINE d == At(Start("job", 0), "job_commit")
  <2>1. d.op = "job" /\ d.pc = "job_commit" /\ d.want = "absent"
    BY DEF At, Start, Idle
  <2>2. Resume(k, d) /\ UNCHANGED <<disk, holder, issued, acked>>
    BY <1>4 DEF CancelJob, ghost
  <2>3. \A u \in Tasks : Follows(holder, u, db[u], db'[u]) /\ RowFits(holder, u, db'[u])
    BY <1>0, <1>4, BulkFits, SameFollows DEF CancelJob
  <2> HIDE DEF d
  <2>4. CoFits(d, db', holder, issued) /\ ~Winner(d) /\ ~Granting(d)
    BY <2>1, PlainFits DEF Shape
  <2> QED BY <2>2, <2>3, <2>4, CoroutineStep DEF TableFits
<1>5. CASE CancelJobCommit(k)
  BY <1>5, IdleFits, ReadStep DEF CancelJobCommit, ghost
<1> QED
  BY <1>1, <1>2, <1>3, <1>4, <1>5

\* The requests that only start something.
LEMMA RequestFits ==
    ASSUME IInv, IInv', AInv,
           \/ \E k \in Coros, t \in Tasks : Cancel(k, t)
           \/ \E k \in Coros, caps \in Capabilities : Pull(k, caps)
           \/ \E k \in Coros, tok \in Tokens : SubmitCheck(k, tok) \/ ErrorReport(k, tok)
           \/ StaleSelect
           \/ \E old \in SUBSET Tasks : CleanupSelect(old)
    PROVE  AInv'
<1>0. Maint \in Coros
  BY LifecycleAssumption
<1>1. ASSUME NEW k \in Coros, NEW t \in Tasks, Cancel(k, t)
      PROVE  AInv'
  <2> DEFINE c == Ask(Start("cancel", t), "cancelled")
  <2>1. CoOK(c)
    BY Numbers, StartOK, AskOK DEF Ops, Wanted
  <2>2. c.op = "cancel" /\ c.pc = "get" /\ c.want = "cancelled"
    BY DEF Ask, Start, Idle
  <2>3. Resume(k, Selected(c)) /\ UNCHANGED rows /\ UNCHANGED <<holder, issued, acked>>
    BY <1>1 DEF Cancel, ghost
  <2> HIDE DEF c
  <2>4. CoFits(c, db, holder, issued)
    BY <2>2, PlainFits DEF Shape
  <2>5. c \in Coroutine
    BY <2>1 DEF CoOK
  <2> QED BY <2>2, <2>3, <2>4, <2>5, SelectedFits, ReadStep
<1>2. ASSUME NEW k \in Coros, NEW caps \in Capabilities, Pull(k, caps)
      PROVE  AInv'
  <2>1. PICK todo : Resume(k, [At(Start("pull", 0), "assign") EXCEPT !.todo = todo])
    BY <1>2 DEF Pull
  <2>2. UNCHANGED rows /\ UNCHANGED <<holder, issued, acked>>
    BY <1>2 DEF Pull, ghost
  <2> QED BY <2>1, <2>2, PullFits, ReadStep
<1>3. ASSUME NEW k \in Coros, NEW tok \in Tokens, SubmitCheck(k, tok)
      PROVE  AInv'
  <2> DEFINE t == holder[tok].task
             D(pc) == [At(Start("submit", t), pc) EXCEPT !.tok = tok]
  <2>1. PICK pc \in {"output", "touch"} : Resume(k, D(pc))
    BY <1>3 DEF SubmitCheck
  <2>2. t \in Tasks
    BY <1>3 DEF SubmitCheck, AInv, HolderFits
  <2>3. LET d == D(pc) IN
        d.op = "submit" /\ d.pc = pc /\ d.want = "absent" /\ d.task = t /\ d.tok = tok
    BY DEF At, Start, Idle
  <2> DEFINE d == D(pc)
  <2>4. Resume(k, d) /\ UNCHANGED rows /\ UNCHANGED <<holder, issued, acked>>
    BY <1>3, <2>1 DEF SubmitCheck, ghost
  <2>5. d.op = "submit" /\ d.pc = pc /\ d.want = "absent" /\ d.task = t /\ d.tok = tok
    BY <2>3
  <2> HIDE DEF d
  <2>6. CoFits(d, db, holder, issued) /\ ~Winner(d) /\ ~Granting(d)
    BY <2>2, <2>5 DEF CoFits, Shape, Winner, Granting
  <2> QED BY <2>4, <2>6, ReadStep
<1>4. ASSUME NEW k \in Coros, NEW tok \in Tokens, ErrorReport(k, tok)
      PROVE  AInv'
  <2> DEFINE d == Ask([Start("error", holder[tok].task) EXCEPT !.tok = tok], "timeout")
  <2>1. d.op = "error" /\ d.pc = "get" /\ d.want = "timeout"
    BY DEF Ask, Start, Idle
  <2>2. Resume(k, d) /\ UNCHANGED rows /\ UNCHANGED <<holder, issued, acked>>
    BY <1>4 DEF ErrorReport, ghost
  <2> HIDE DEF d
  <2>3. CoFits(d, db, holder, issued) /\ ~Winner(d) /\ ~Granting(d)
    BY <2>1, PlainFits DEF Shape
  <2> QED BY <2>2, <2>3, ReadStep
<1>5. CASE StaleSelect
  BY <1>0, <1>5, StaleLoopFits, ReadStep DEF StaleSelect, ghost
<1>6. ASSUME NEW old \in SUBSET Tasks, CleanupSelect(old)
      PROVE  AInv'
  <2> DEFINE d == [At(Start("cleanup", 0), IF old = {} THEN "expire" ELSE "delete")
                   EXCEPT !.todo = old]
  <2>1. d.op = "cleanup" /\ d.pc \in {"expire", "delete"} /\ d.want = "absent"
    BY DEF At, Start, Idle
  <2>2. Resume(Maint, d) /\ UNCHANGED rows /\ UNCHANGED <<holder, issued, acked>>
    BY <1>6 DEF CleanupSelect, ghost
  <2> HIDE DEF d
  <2>3. CoFits(d, db, holder, issued) /\ ~Winner(d) /\ ~Granting(d)
    BY <2>1, PlainFits DEF Shape
  <2> QED BY <1>0, <2>2, <2>3, ReadStep
<1> QED
  BY <1>1, <1>2, <1>3, <1>4, <1>5, <1>6

-----------------------------------------------------------------------------
(* The worker's runs, time and restarts.                                    *)

\* A run goes from one phase to the next.
LEMMA PhaseFits ==
    ASSUME IInv, AInv, NEW tok \in Tokens, NEW phase,
           holder[tok].phase # "none", holder' = [holder EXCEPT ![tok].phase = phase],
           UNCHANGED <<db, disk, co, issued, acked>>
    PROVE  AInv'
<1>1. \A o \in Tokens : /\ holder'[o].task = holder[o].task
                        /\ holder[o].task = 0 => holder'[o].phase = holder[o].phase
  BY DEF IInv, TypeOK, Run, AInv, HolderFits
<1>2. \A t : RunsIn(holder', t) = RunsIn(holder, t)
  BY <1>1 DEF RunsIn
<1>3. acked \subseteq Tokens
  BY DEF IInv, TypeOK
<1>4. Grows(holder, holder') /\ issued \in Nat /\ issued <= issued
  BY <1>1, Numbers DEF Grows, IInv, TypeOK
<1>5. ASSUME NEW k \in Coros
      PROVE  CoFits(co[k], db, holder', issued)
  <2>1. CoOK(co[k]) /\ CoFits(co[k], db, holder, issued)
    BY DEF IInv, AInv
  <2>2. Granting(co[k]) => holder'[co[k].tok].task = 0
    BY <1>1, <2>1 DEF CoFits
  <2>3. \A t \in Tasks : Follows(holder, t, db[t], db[t])
    BY SameFollows
  <2> QED BY <1>4, <2>1, <2>2, <2>3, CoStays
<1>6. TableFits(holder', db) /\ TableFits(holder', disk)
  BY <1>4, RowStays DEF AInv
<1>7. HolderFits(holder', disk, issued) /\ AckFits(acked, holder', disk)
  BY <1>1, <1>3 DEF AInv, HolderFits, AckFits
<1>8. Alone(co, acked, holder')
  BY <1>1, <1>3 DEF AInv, Alone
<1> QED BY <1>5, <1>6, <1>7, <1>8 DEF AInv

\* A heartbeat that is refused, the end of a run, a worker that leaves.
LEMMA RunFits ==
    ASSUME IInv, IInv', AInv, NEW tok \in Tokens,
           RunEnds(tok) \/ WorkerLeaves(tok) \/ \E k \in Coros : Heartbeat(k, tok)
    PROVE  AInv'
<1>1. CASE RunEnds(tok) \/ WorkerLeaves(tok)
  BY <1>1, PhaseFits DEF RunEnds, WorkerLeaves, rows
<1>2. ASSUME NEW k \in Coros, Heartbeat(k, tok)
      PROVE  AInv'
  <2> DEFINE t == holder[tok].task
             d == [At(Start("beat", t), "beat_update") EXCEPT !.tok = tok]
  <2>1. CASE db[t].state = "assigned" /\ db[t].token = tok
    <3>1. d.op = "beat" /\ d.pc = "beat_update" /\ d.want = "absent"
      BY DEF At, Start, Idle
    <3>2. Resume(k, d) /\ UNCHANGED rows /\ UNCHANGED <<holder, issued, acked>>
      BY <1>2, <2>1 DEF Heartbeat
    <3> HIDE DEF d
    <3>3. CoFits(d, db, holder, issued) /\ ~Winner(d) /\ ~Granting(d)
      BY <3>1, PlainFits DEF Shape
    <3> QED BY <3>2, <3>3, ReadStep
  <2>2. CASE ~(db[t].state = "assigned" /\ db[t].token = tok)
    <3>1. /\ holder[tok].phase # "none" /\ holder' = [holder EXCEPT ![tok].phase = "done"]
          /\ UNCHANGED <<db, disk, co, issued, acked>>
      BY <1>2, <2>2 DEF Heartbeat, rows
    <3> QED BY <3>1, PhaseFits
  <2> QED BY <2>1, <2>2
<1> QED BY <1>1, <1>2

\* Time and crashes.
LEMMA WorldFits ==
    ASSUME IInv, IInv', AInv, (\E t \in Tasks : Silence(t)) \/ Restart
    PROVE  AInv'
<1>0. issued \in Nat /\ Grows(holder, holder) /\ acked \subseteq Tokens /\ issued <= issued
  BY Numbers DEF IInv, TypeOK, Grows
<1>1. ASSUME NEW t \in Tasks, Silence(t)
      PROVE  AInv'
  <2>1. \A r \in Row, b \in BOOLEAN :
          LET q == [r EXCEPT !.silent = b] IN
          q.state = r.state /\ q.out = r.out /\ q.input = r.input
    BY DEF Row
  <2>2. \A u \in Tasks :
          /\ db'[u].state = db[u].state /\ db'[u].out = db[u].out /\ db'[u].input = db[u].input
          /\ disk'[u].state = disk[u].state /\ disk'[u].out = disk[u].out
          /\ disk'[u].input = disk[u].input
    BY <1>1, <2>1 DEF Silence, UpdateRow, IInv, TypeOK
  <2>3. UNCHANGED <<co, holder, issued, acked>>
    BY <1>1 DEF Silence, ghost
  <2>4. \A u \in Tasks : Follows(holder, u, db[u], db'[u])
    BY <2>2 DEF Follows, HasResult, HasInput, Over
  <2>5. TableFits(holder, db') /\ TableFits(holder, disk')
    BY <2>2 DEF AInv, TableFits, RowFits
  <2>6. HolderFits(holder, disk', issued) /\ AckFits(acked, holder, disk')
    <3>1. \A tok \in Tokens : holder[tok].task # 0 => holder[tok].task \in Tasks
      BY DEF AInv, HolderFits
    <3>2. HolderFits(holder, disk', issued)
      BY <2>2 DEF AInv, HolderFits
    <3>3. AckFits(acked, holder, disk')
      BY <1>0, <2>2, <3>1 DEF AInv, AckFits, Over
    <3> QED BY <3>2, <3>3
  <2>7. ASSUME NEW k \in Coros
        PROVE  CoFits(co[k], db', holder, issued)
    <3>1. CoOK(co[k]) /\ CoFits(co[k], db, holder, issued)
      BY DEF IInv, AInv
    <3>2. Granting(co[k]) => holder[co[k].tok].task = 0
      BY <3>1 DEF CoFits
    <3> QED BY <1>0, <2>4, <3>1, <3>2, CoStays
  <2> QED BY <2>3, <2>5, <2>6, <2>7 DEF AInv
<1>2. CASE Restart
  <2>1. /\ disk' = [t \in Tasks |-> Purged(disk[t])] /\ db' = disk'
        /\ co' = [k \in Coros |-> Idle] /\ UNCHANGED <<issued, holder, acked>>
    BY <1>2 DEF Restart
  <2>2. \A t \in Tasks : /\ Follows(holder, t, disk[t], disk'[t])
                         /\ RowFits(holder, t, disk'[t])
    BY <2>1, BulkFits DEF AInv, TableFits, IInv, TypeOK
  <2>3. \A tok \in Tokens : holder[tok].task # 0 => holder[tok].task \in Tasks
    BY DEF AInv, HolderFits
  <2>4. HolderFits(holder, disk', issued) /\ AckFits(acked, holder, disk')
    BY <1>0, <2>2, <2>3 DEF AInv, HolderFits, AckFits, Follows
  <2>5. \A k \in Coros : co'[k] = Idle
    BY <2>1
  <2>6. Alone(co', acked, holder)
    BY <2>5, IdleFits DEF AInv, Alone
  <2>7. \A k \in Coros : CoFits(co'[k], db', holder, issued)
    BY <2>5, IdleFits
  <2> QED BY <2>1, <2>2, <2>4, <2>6, <2>7 DEF AInv, TableFits
<1> QED BY <1>1, <1>2

-----------------------------------------------------------------------------
(* The theorems.                                                            *)

\* The first state satisfies the invariant.
LEMMA InitFits == Init => AInv
<1> SUFFICES ASSUME Init PROVE AInv
  OBVIOUS
<1>1. \A t \in Tasks : db[t].state = "absent" /\ disk[t].state = "absent"
  BY DEF Init, AbsentRow, NewRow
<1>2. \A tok \in Tokens : holder[tok].task = 0 /\ holder[tok].phase = "none"
  BY DEF Init, NoRun
<1>3. (\A k \in Coros : co[k] = Idle) /\ acked = {}
  BY DEF Init
<1>4. TableFits(holder, db) /\ TableFits(holder, disk)
  BY <1>1 DEF TableFits, RowFits
<1>5. HolderFits(holder, disk, issued)
  BY <1>2 DEF HolderFits
<1>6. AckFits(acked, holder, disk) /\ Alone(co, acked, holder)
  BY <1>3, IdleFits DEF AckFits, Alone
<1> QED BY <1>3, <1>4, <1>5, <1>6, IdleFits DEF AInv

\* Every step keeps it.
LEMMA NextFits ==
    ASSUME Unstored = {}, IInv, IInv', AInv, [Next]_vars
    PROVE  AInv'
<1>1. ASSUME NEW k \in Coros, Step(k)
      PROVE  AInv'
  BY <1>1, TransitionFits, PrepareFits, AssignFits, GrantFits, SubmitFits, CleanupFits DEF Step
<1>2. ASSUME NEW k \in Coros, Client(k)
      PROVE  AInv'
  BY <1>2, PrepareFits, RequestFits, CleanupFits DEF Client
<1>3. ASSUME NEW k \in Coros, Worker(k)
      PROVE  AInv'
  BY <1>3, RequestFits, RunFits DEF Worker
<1>4. CASE UNCHANGED vars
  BY <1>4 DEF vars, AInv
<1> QED
  BY <1>1, <1>2, <1>3, <1>4, RunFits, WorldFits, RequestFits DEF Next

\* The invariant of the answers holds throughout, if no submit rolls back.
THEOREM AckInvariance ==
    ASSUME Unstored = {}
    PROVE  Spec => [](IInv /\ AInv)
<1>1. IInv /\ AInv /\ [Next]_vars => (IInv /\ AInv)'
  BY NextKeeps, NextFits
<1> QED BY <1>1, InitKeeps, InitFits, PTL DEF Spec

\* A submit that was answered accepted is durable: its task reads completed until
\* it is deleted, through every crash, requeue, cancellation and late submit.
THEOREM AcksAreDurable ==
    ASSUME Unstored = {}
    PROVE  Spec => []AckDurable
<1>1. AInv => AckDurable
  BY DEF AInv, AckFits, Over, AckDurable
<1> QED BY <1>1, AckInvariance, PTL

\* complete() compares the token long before it moves the task, and still no two
\* runs of a task are told that their results were accepted.
THEOREM OneIsAccepted ==
    ASSUME Unstored = {}
    PROVE  Spec => []OneAccepted
<1>1. AInv => OneAccepted
  BY DEF AInv, Alone, OneAccepted
<1> QED BY <1>1, AckInvariance, PTL

\* There are no ghosts: a task that is durably completed has a result, of a run of
\* this very task.
THEOREM CompletedHaveResults ==
    ASSUME Unstored = {}
    PROVE  Spec => []CompletedHasResult
<1>1. AInv => CompletedHasResult
  BY DEF AInv, TableFits, RowFits, RunsIn, CompletedHasResult, Runs
<1> QED BY <1>1, AckInvariance, PTL

\* What a worker can pull has its input, although set_queued writes the hash and
\* moves the task in separate operations.
THEOREM QueuedHaveInputs ==
    ASSUME Unstored = {}
    PROVE  Spec => []QueuedHasInput
<1>1. AInv => QueuedHasInput
  BY DEF AInv, TableFits, RowFits, QueuedHasInput
<1> QED BY <1>1, AckInvariance, PTL

-----------------------------------------------------------------------------
(* Counts of retries and executions: the inductive invariants.              *)

Limit == MaxRetries + Cardinality(Coros) - 1

\* A row that was not inserted has nothing counted.
Blank == \A table \in {db, disk} : \A t \in Tasks :
            table[t].state = "absent" => table[t].retries = 0

\* The coroutines that have read that the task may be retried.
Pending(cs, t) == {k \in Coros : cs[k].pc = "update" /\ cs[k].retry /\ cs[k].task = t}

\* The retries counted and those that may be counted without another look.
RetriesFit(t) ==
    /\ db[t].retries + Cardinality(Pending(co, t)) <= Limit
    /\ disk[t].retries + Cardinality(Pending(co, t)) <= Limit
    /\ Exists(db[t]) => disk[t].retries <= db[t].retries

RetryInv == \A t \in Tasks : RetriesFit(t)

\* The executions a row has been charged for.
Charged(r) ==
    IF r.state \in {"absent", "pending", "downloading", "queued"}
    THEN r.retries ELSE r.retries + 1

\* The tokens handed out for a task, and those about to be.
Granted(cs, h, t) ==
    RunsIn(h, t)
        \cup {tok \in Tokens : \E k \in Coros :
                Granting(cs[k]) /\ cs[k].tok = tok /\ cs[k].task = t}

Covers(r, tokens, restarts) ==
    r.state = "gone" \/ Cardinality(tokens) <= Charged(r) + restarts

ChargeInv ==
    \A t \in Tasks : /\ Covers(db[t], Granted(co, holder, t), crashes)
                     /\ Covers(disk[t], RunsIn(holder, t), crashes)

-----------------------------------------------------------------------------
(* What a step does to the rows and to the coroutine that takes it.         *)

\* A row that is charged no less, with the retries it had; or that is deleted.
Steady(r, q) ==
    \/ q.state = "gone" /\ q.retries = 0
    \/ /\ q.retries = r.retries
       /\ Charged(r) <= Charged(q)
       /\ r.state = "gone" => q.state = "gone"
       /\ q.state = "absent" => r.state = "absent"

\* The coroutine neither learns that it may retry nor writes a token.
Plain(d) == d.pc # "update" /\ ~Granting(d)

Calm(k) ==
    /\ \E d : Resume(k, d) /\ Plain(d)
    /\ UNCHANGED <<holder, crashes>>
    /\ \/ disk' \in {disk, db} /\ \A t \in Tasks : Steady(db[t], db'[t])
       \/ co[k].pc = "rollback" /\ db' = disk /\ disk' = disk

\* What a row is charged is a number.
LEMMA ChargedNat == \A r \in Row : r.retries \in Nat /\ Charged(r) \in Nat
BY DEF Row, Charged

\* A row that is left alone.
LEMMA SameSteady == \A r \in Row : Steady(r, r)
BY ChargedNat DEF Steady

\* UPDATEs that leave the state alone.
LEMMA FieldsSteady ==
    ASSUME NEW r \in Row, NEW q, q.state = r.state, q.retries = r.retries
    PROVE  Steady(r, q)
BY DEF Steady, Charged, Row

\* A move to a state that is charged no less.
LEMMA MovedSteady ==
    ASSUME NEW r \in Row, NEW s, r.state \notin {"absent", "gone"}, s # "absent",
           s \in {"pending", "downloading", "queued"} =>
                r.state \in {"pending", "downloading", "queued"}
    PROVE  Steady(r, Moved(r, s)) /\ Moved(r, s).retries = r.retries
<1>1. Moved(r, s).state = s /\ Moved(r, s).retries = r.retries
  BY DEF Moved, Row
<1>2. r.retries \in Nat
  BY DEF Row
<1> HIDE DEF Moved
<1> QED BY <1>1, <1>2 DEF Steady, Charged

\* The UPDATE of transition(): a requeue counts one more retry, and the execution
\* it ends stays charged; every other move keeps the retries.
LEMMA TransitionedSteady ==
    ASSUME NEW r \in Row, r.state \in Stored,
           NEW want \in ValidTransitions[r.state], want # "assigned",
           NEW retry \in BOOLEAN
    PROVE  LET q == Transitioned(r, want, retry) IN
           /\ Charged(r) <= Charged(q)
           /\ q.state \notin {"absent", "gone"} /\ r.state \notin {"absent", "gone"}
           /\ q.retries = r.retries \/ (retry /\ q.retries = r.retries + 1)
<1> DEFINE q == Transitioned(r, want, retry)
<1>0. r.state \notin {"absent", "gone"} /\ r.retries \in Nat
  BY DEF Stored, Terminal, Row
<1>1. CASE want = "timeout" /\ retry
  <2>1. r.state = "assigned"
    BY <1>1 DEF ValidTransitions, Stored, Terminal
  <2>2. q.state = "queued" /\ q.retries = r.retries + 1
    BY <1>1 DEF Transitioned, Requeued, Moved, Row
  <2> HIDE DEF q
  <2>3. Charged(r) <= Charged(q)
    BY <1>0, <2>1, <2>2 DEF Charged
  <2>4. q.state \notin {"absent", "gone"}
    BY <2>2
  <2> QED BY <1>0, <1>1, <2>2, <2>3, <2>4, Zenon DEF q
<1>2. CASE want = "timeout" /\ ~retry
  <2>1. q.state = "failed" /\ q.retries = r.retries
    BY <1>2 DEF Transitioned, Moved, Row
  <2> HIDE DEF q
  <2>2. Charged(r) <= Charged(q)
    BY <1>0, <2>1 DEF Charged
  <2> QED BY <1>0, <2>1, <2>2 DEF q
<1>3. CASE want # "timeout"
  <2>1. /\ want \in {"pending", "downloading", "queued"} \cup Terminal
        /\ want \notin Terminal => r.state \in {"pending", "downloading"}
    BY <1>3 DEF ValidTransitions, Stored, Terminal
  <2>2. q.state = want /\ q.retries = r.retries
    BY <1>3 DEF Transitioned, Moved, Row
  <2> HIDE DEF q
  <2>3. Charged(r) <= Charged(q)
    BY <1>0, <2>1, <2>2 DEF Charged, Terminal
  <2> QED BY <1>0, <2>1, <2>2, <2>3 DEF q, Terminal
<1> QED BY <1>1, <1>2, <1>3

\* The deletion and the bulk UPDATEs.
LEMMA BulkSteady ==
    ASSUME NEW r \in Row
    PROVE  /\ Steady(r, Deleted(r))
           /\ Steady(r, JobCancelled(r))
           /\ r.state = "pending" => Steady(r, Moved(r, "failed"))
<1>1. Steady(r, Deleted(r))
  BY SameSteady DEF Deleted, GoneRow, NewRow, Steady
<1>2. r.state = "pending" => Steady(r, Moved(r, "failed"))
  BY MovedSteady
<1>3. Steady(r, JobCancelled(r))
  <2>1. CASE Exists(r) /\ r.state \notin Terminal
    <3>1. LET q == JobCancelled(r) IN q.state = "cancelled" /\ q.retries = r.retries
      BY <2>1 DEF JobCancelled, Moved, Row
    <3>2. r.state \notin {"absent", "gone"} /\ r.retries \in Nat
      BY <2>1 DEF Exists, Stored, Terminal, Row
    <3> QED BY <3>1, <3>2 DEF Steady, Charged
  <2> QED BY <2>1, SameSteady DEF JobCancelled
<1> QED BY <1>1, <1>2, <1>3

\* The UPDATE of one row.
LEMMA UpdateSteady ==
    ASSUME TypeOK, NEW t, NEW r, UpdateRow(t, r), t \in Tasks => Steady(db[t], r)
    PROVE  \A u \in Tasks : Steady(db[u], db'[u])
BY SameSteady DEF TypeOK, UpdateRow

\* A table that is left alone.
LEMMA NoUpdateSteady ==
    ASSUME TypeOK, UNCHANGED db
    PROVE  \A u \in Tasks : Steady(db[u], db'[u])
BY SameSteady DEF TypeOK

-----------------------------------------------------------------------------
(* Where the coroutines go.                                                 *)

\* A coroutine that does nothing, or that calls transition(), is plain.
LEMMA PlainPCs ==
    /\ Plain(Idle)
    /\ \A c \in Coroutine : \A w : Plain(Ask(c, w))
    /\ \A c \in Coroutine : \A p : p \notin {"update", "assign_commit"} => Plain(At(c, p))
BY DEF Plain, Granting, Idle, Ask, At, Coroutine

\* So is the loop of requeue_stale,
LEMMA PlainStale == \A todo : Plain(StaleLoop(todo))
BY PlainPCs DEF StaleLoop, Ask, Start, Idle, Plain, Granting

\* and a coroutine whose transition has returned.
LEMMA PlainReturned ==
    ASSUME NEW c \in Coroutine, NEW ok
    PROVE  Plain(Returned(c, ok))
<1>1. Plain(At(Reset(c), "fetch")) /\ Plain(At(Reset(c), "touch"))
  BY DEF Plain, Granting, Reset, At, Coroutine
<1>2. Plain(Ask(Reset(c), "downloading"))
  BY DEF Plain, Granting, Reset, Ask, Coroutine
<1> QED
  BY <1>1, <1>2, PlainPCs, PlainStale DEF Returned

\* The coroutines a handler starts with.
LEMMA PlainStarts ==
    /\ \A op, t, p, w : p \notin {"update", "assign_commit"} =>
           Plain([At(Start(op, t), p) EXCEPT !.want = w])
    /\ \A op, t, p, tok : p \notin {"update", "assign_commit"} =>
           Plain([At(Start(op, t), p) EXCEPT !.tok = tok])
    /\ \A op, t, p, todo : p \notin {"update", "assign_commit"} =>
           Plain([At(Start(op, t), p) EXCEPT !.todo = todo])
    /\ \A op, t, p : p \notin {"update", "assign_commit"} => Plain(At(Start(op, t), p))
    /\ \A op, t, w : Plain(Ask(Start(op, t), w))
    /\ \A op, t, tok, w : Plain(Ask([Start(op, t) EXCEPT !.tok = tok], w))
BY DEF Plain, Granting, At, Ask, Start, Idle

-----------------------------------------------------------------------------
(* The calm steps.                                                          *)

\* A coroutine reads or commits, and goes on plainly.
LEMMA CalmRead ==
    ASSUME IInv, NEW k, NEW d, Resume(k, d), Plain(d), UNCHANGED <<holder, crashes>>,
           UNCHANGED rows \/ Commit
    PROVE  Calm(k)
BY NoUpdateSteady DEF Calm, rows, Commit, IInv

\* A coroutine writes, and goes on plainly.
LEMMA CalmWrite ==
    ASSUME NEW k, NEW d, Resume(k, d), Plain(d), UNCHANGED <<disk, holder, crashes>>,
           \A t \in Tasks : Steady(db[t], db'[t])
    PROVE  Calm(k)
BY DEF Calm

\* The commit of transition(), the creation of a task and its preparation.
LEMMA PrepareCalm ==
    ASSUME IInv, Blank, NEW k \in Coros,
           \/ TransitionCommit(k)
           \/ \E s \in {"pending", "queued"} : Create(k, s)
           \/ CreateCommit(k) \/ Fetched(k) \/ FetchFailed(k) \/ MarkFailed(k)
           \/ SetQueuedGet(k) \/ SetQueuedInput(k) \/ SetQueuedCommit(k)
    PROVE  Calm(k)
<1> DEFINE c == co[k]
<1>0. TypeOK /\ c \in Coroutine
  BY DEF IInv, TypeOK
<1>1. CASE TransitionCommit(k)
  BY <1>0, <1>1, PlainReturned, CalmRead DEF TransitionCommit
<1>2. ASSUME NEW s \in {"pending", "queued"}, Create(k, s)
      PROVE  Calm(k)
  <2> DEFINE t == made + 1
             d == [At(Start("create", t), "create_commit") EXCEPT
                     !.want = IF s = "pending" THEN "downloading" ELSE "absent"]
  <2>1. t \in Tasks /\ db[t].state = "absent" /\ db[t].retries = 0
    BY <1>2, Numbers DEF Create, IInv, TypeOK, Tables, Unborn, Tasks, Blank
  <2>2. Resume(k, d) /\ UpdateRow(t, NewRow(s)) /\ UNCHANGED <<disk, holder, crashes>>
    BY <1>2 DEF Create
  <2>3. Plain(d)
    BY PlainStarts
  <2>4. Steady(db[t], NewRow(s))
    BY <2>1 DEF Steady, Charged, NewRow
  <2> HIDE DEF d, t
  <2>5. \A u \in Tasks : Steady(db[u], db'[u])
    BY <1>0, <2>2, <2>4, UpdateSteady
  <2> QED BY <2>2, <2>3, <2>5, CalmWrite
<1>3. CASE CreateCommit(k)
  <2>1. Resume(k, Ask(Start("prepare", c.task), "downloading")) \/ Resume(k, Idle)
    BY <1>3 DEF CreateCommit
  <2> QED BY <1>3, <2>1, PlainStarts, PlainPCs, CalmRead DEF CreateCommit, ghost
<1>4. CASE Fetched(k)
  BY <1>0, <1>4, PlainPCs, CalmRead DEF Fetched, ghost
<1>5. CASE FetchFailed(k)
  <2>1. [c EXCEPT !.tries = @ + 1] \in Coroutine
    BY <1>0 DEF Coroutine
  <2>2. \/ Resume(k, Ask([c EXCEPT !.tries = @ + 1], "pending"))
        \/ Resume(k, At(c, "mf_commit"))
    BY <1>5 DEF FetchFailed
  <2> QED BY <1>0, <1>5, <2>1, <2>2, PlainPCs, CalmRead DEF FetchFailed, ghost
<1>6. CASE MarkFailed(k)
  BY <1>0, <1>6, PlainPCs, CalmRead DEF MarkFailed, ghost
<1>7. CASE SetQueuedGet(k)
  <2>1. Resume(k, At(c, "sq_input")) \/ Resume(k, Idle)
    BY <1>7 DEF SetQueuedGet
  <2> QED BY <1>0, <1>7, <2>1, PlainPCs, CalmRead DEF SetQueuedGet, ghost
<1>8. CASE SetQueuedInput(k)
  <2> DEFINE q == [db[c.task] EXCEPT !.input = TRUE, !.iso = FALSE]
  <2>1. Plain(At(c, "sq_commit"))
    BY <1>0, PlainPCs
  <2>2. \A u \in Tasks : Steady(db[u], db'[u])
    <3>1. CASE Exists(db[c.task])
      <4>1. UpdateRow(c.task, q)
        BY <1>8, <3>1 DEF SetQueuedInput
      <4>2. c.task \in Tasks => Steady(db[c.task], q)
        <5>1. c.task \in Tasks => q.state = db[c.task].state /\ q.retries = db[c.task].retries
          BY <1>0 DEF TypeOK, Row
        <5> HIDE DEF q
        <5> QED BY <1>0, <5>1, FieldsSteady DEF TypeOK
      <4> HIDE DEF q
      <4> QED BY <1>0, <4>1, <4>2, UpdateSteady
    <3>2. CASE ~Exists(db[c.task])
      BY <1>0, <1>8, <3>2, NoUpdateSteady DEF SetQueuedInput
    <3> QED BY <3>1, <3>2
  <2> QED BY <1>8, <2>1, <2>2, CalmWrite DEF SetQueuedInput, ghost
<1>9. CASE SetQueuedCommit(k)
  BY <1>0, <1>9, PlainPCs, CalmRead DEF SetQueuedCommit, ghost
<1> QED
  BY <1>1, <1>2, <1>3, <1>4, <1>5, <1>6, <1>7, <1>8, <1>9

\* The results and the signals of workers.
LEMMA SubmitCalm ==
    ASSUME IInv, NEW k \in Coros,
           \/ SubmitOutput(k) \/ SubmitRef(k) \/ SubmitRollback(k) \/ SubmitCommit(k)
           \/ SignalUpdate(k) \/ SignalCommit(k)
    PROVE  Calm(k)
<1> DEFINE c == co[k]
<1>0. TypeOK /\ c \in Coroutine
  BY DEF IInv, TypeOK
<1>1. CASE SubmitOutput(k)
  <2> DEFINE q == [db[c.task] EXCEPT !.out = c.tok, !.iso = FALSE]
  <2>1. Plain(At(c, "ref"))
    BY <1>0, PlainPCs
  <2>2. \A u \in Tasks : Steady(db[u], db'[u])
    <3>1. CASE Exists(db[c.task])
      <4>1. UpdateRow(c.task, q)
        BY <1>1, <3>1 DEF SubmitOutput
      <4>2. c.task \in Tasks => Steady(db[c.task], q)
        <5>1. c.task \in Tasks => q.state = db[c.task].state /\ q.retries = db[c.task].retries
          BY <1>0 DEF TypeOK, Row
        <5> HIDE DEF q
        <5> QED BY <1>0, <5>1, FieldsSteady DEF TypeOK
      <4> HIDE DEF q
      <4> QED BY <1>0, <4>1, <4>2, UpdateSteady
    <3>2. CASE ~Exists(db[c.task])
      BY <1>0, <1>1, <3>2, NoUpdateSteady DEF SubmitOutput
    <3> QED BY <3>1, <3>2
  <2> QED BY <1>1, <2>1, <2>2, CalmWrite DEF SubmitOutput, ghost
<1>2. CASE SubmitRef(k)
  <2>1. Resume(k, At(c, "rollback")) \/ Resume(k, At(c, "out_commit"))
    BY <1>2 DEF SubmitRef
  <2> QED BY <1>0, <1>2, <2>1, PlainPCs, CalmRead DEF SubmitRef, ghost
<1>3. CASE SubmitRollback(k)
  BY <1>0, <1>3, PlainPCs DEF SubmitRollback, Calm, ghost
<1>4. CASE SubmitCommit(k)
  BY <1>0, <1>4, PlainPCs, CalmRead DEF SubmitCommit, ghost
<1>5. CASE SignalUpdate(k)
  <2>1. Plain(At(c, "touch_commit"))
    BY <1>0, PlainPCs
  <2>2. \A u \in Tasks : Steady(db[u], db'[u])
    <3>1. CASE Exists(db[c.task])
      <4>1. UpdateRow(c.task, Signalled(db[c.task]))
        BY <1>5, <3>1 DEF SignalUpdate
      <4>2. c.task \in Tasks => Steady(db[c.task], Signalled(db[c.task]))
        <5>1. \A r \in Row : Signalled(r).state = r.state /\ Signalled(r).retries = r.retries
          BY DEF Signalled, Row
        <5> QED BY <1>0, <5>1, FieldsSteady DEF TypeOK
      <4> QED BY <1>0, <4>1, <4>2, UpdateSteady
    <3>2. CASE ~Exists(db[c.task])
      BY <1>0, <1>5, <3>2, NoUpdateSteady DEF SignalUpdate
    <3> QED BY <3>1, <3>2
  <2> QED BY <1>5, <2>1, <2>2, CalmWrite DEF SignalUpdate, ghost
<1>6. CASE SignalCommit(k)
  BY <1>6, PlainPCs, CalmRead DEF SignalCommit, ghost
<1> QED BY <1>1, <1>2, <1>3, <1>4, <1>5, <1>6

\* The maintenance loop and the cancellation of a job.
LEMMA CleanupCalm ==
    ASSUME IInv, NEW k \in Coros,
           \/ CleanupDelete(k) \/ CleanupExpire(k) \/ CleanupCommit(k)
           \/ CancelJob(k) \/ CancelJobCommit(k)
    PROVE  Calm(k)
<1> DEFINE c == co[k]
<1>0. TypeOK /\ c \in Coroutine /\ \A t \in Tasks : db[t] \in Row
  BY DEF IInv, TypeOK
<1>1. CASE CleanupDelete(k)
  <2> DEFINE t == Min(c.todo)
             d == [c EXCEPT !.todo = c.todo \ {t},
                            !.pc = IF c.todo = {t} THEN "expire" ELSE "delete"]
  <2>1. d.pc \in {"expire", "delete"}
    BY <1>0 DEF Coroutine
  <2>2. Resume(k, d) /\ UpdateRow(t, Deleted(db[t])) /\ UNCHANGED <<disk, holder, crashes>>
    BY <1>1 DEF CleanupDelete, ghost
  <2> HIDE DEF d, t
  <2>3. Plain(d)
    BY <2>1 DEF Plain, Granting
  <2>4. \A u \in Tasks : Steady(db[u], db'[u])
    BY <1>0, <2>2, BulkSteady, UpdateSteady
  <2> QED BY <2>2, <2>3, <2>4, CalmWrite
<1>2. CASE CleanupExpire(k)
  <2>1. PICK old \in SUBSET {t \in Tasks : db[t].state = "pending"} :
          db' = [t \in Tasks |-> IF t \in old THEN Moved(db[t], "failed") ELSE db[t]]
    BY <1>2 DEF CleanupExpire
  <2>2. \A u \in Tasks : Steady(db[u], db'[u])
    BY <1>0, <2>1, SameSteady, BulkSteady
  <2> QED BY <1>0, <1>2, <2>2, PlainPCs, CalmWrite DEF CleanupExpire, ghost
<1>3. CASE CleanupCommit(k)
  BY <1>3, PlainPCs, CalmRead DEF CleanupCommit, ghost
<1>4. CASE CancelJob(k)
  <2>1. \A u \in Tasks : Steady(db[u], db'[u])
    BY <1>0, <1>4, SameSteady, BulkSteady DEF CancelJob
  <2> QED BY <1>4, <2>1, PlainStarts, CalmWrite DEF CancelJob, ghost
<1>5. CASE CancelJobCommit(k)
  BY <1>5, PlainPCs, CalmRead DEF CancelJobCommit, ghost
<1> QED BY <1>1, <1>2, <1>3, <1>4, <1>5

\* The requests that only start something, and a row that pull finds taken.
LEMMA RequestCalm ==
    ASSUME IInv, NEW k \in Coros,
           \/ \E caps \in Capabilities : Pull(k, caps)
           \/ \E tok \in Tokens : SubmitCheck(k, tok) \/ ErrorReport(k, tok)
           \/ k = Maint /\ StaleSelect
           \/ k = Maint /\ \E old \in SUBSET Tasks : CleanupSelect(old)
           \/ AssignUpdate(k) /\ db[Min(co[k].todo)].state # "queued"
           \/ AssignCommit(k) /\ ~co[k].ok
    PROVE  Calm(k)
<1> DEFINE c == co[k]
<1>0. TypeOK /\ c \in Coroutine
  BY DEF IInv, TypeOK
<1>1. ASSUME NEW caps \in Capabilities, Pull(k, caps)
      PROVE  Calm(k)
  BY <1>1, PlainStarts, CalmRead DEF Pull, ghost
<1>2. ASSUME NEW tok \in Tokens, SubmitCheck(k, tok)
      PROVE  Calm(k)
  <2> DEFINE D(pc) == [At(Start("submit", holder[tok].task), pc) EXCEPT !.tok = tok]
  <2>1. Resume(k, D("output")) \/ Resume(k, D("touch"))
    BY <1>2 DEF SubmitCheck
  <2>2. Plain(D("output")) /\ Plain(D("touch"))
    BY PlainStarts
  <2> HIDE DEF D
  <2> QED BY <1>2, <2>1, <2>2, CalmRead DEF SubmitCheck, ghost
<1>3. ASSUME NEW tok \in Tokens, ErrorReport(k, tok)
      PROVE  Calm(k)
  BY <1>3, PlainStarts, CalmRead DEF ErrorReport, ghost
<1>4. CASE k = Maint /\ StaleSelect
  BY <1>4, PlainStale, CalmRead DEF StaleSelect, ghost
<1>5. ASSUME k = Maint, NEW old \in SUBSET Tasks, CleanupSelect(old)
      PROVE  Calm(k)
  <2> DEFINE D(pc) == [At(Start("cleanup", 0), pc) EXCEPT !.todo = old]
  <2>1. Resume(k, D("expire")) \/ Resume(k, D("delete"))
    BY <1>5 DEF CleanupSelect
  <2>2. Plain(D("expire")) /\ Plain(D("delete"))
    BY PlainStarts
  <2> HIDE DEF D
  <2> QED BY <1>5, <2>1, <2>2, CalmRead DEF CleanupSelect, ghost
<1>6. CASE AssignUpdate(k) /\ db[Min(c.todo)].state # "queued"
  <2> DEFINE t == Min(c.todo)
             d == [At(c, "assign_commit") EXCEPT !.task = t, !.ok = FALSE, !.todo = c.todo \ {t}]
  <2>1. d.pc = "assign_commit" /\ ~d.ok
    BY <1>0 DEF At, Coroutine
  <2>2. Resume(k, d) /\ UNCHANGED rows /\ UNCHANGED <<holder, crashes>>
    BY <1>6 DEF AssignUpdate, At, rows
  <2> HIDE DEF d
  <2> QED BY <2>1, <2>2, CalmRead DEF Plain, Granting
<1>7. CASE AssignCommit(k) /\ ~c.ok
  <2> DEFINE d == [At(Start("pull", 0), "assign") EXCEPT !.todo = c.todo]
  <2>1. Resume(k, Idle) \/ Resume(k, d)
    BY <1>7 DEF AssignCommit
  <2>2. Plain(d)
    BY PlainStarts
  <2> HIDE DEF d
  <2> QED BY <1>7, <2>1, <2>2, PlainPCs, CalmRead DEF AssignCommit
<1> QED BY <1>1, <1>2, <1>3, <1>4, <1>5, <1>6, <1>7

-----------------------------------------------------------------------------
(* The kinds of steps.                                                      *)

\* A coroutine asks for a transition; it may learn that the row can be retried.
Asks(k) ==
    /\ UNCHANGED <<db, disk, holder, crashes>>
    /\ \E d : /\ Resume(k, d) /\ ~Granting(d)
              /\ d.pc = "update" /\ d.retry =>
                    Exists(db[d.task]) /\ CanRetry(db[d.task])

Assigns(k) == AssignUpdate(k) /\ db[Min(co[k].todo)].state = "queued"
Grants(k)  == AssignCommit(k) /\ co[k].ok

\* A worker's run goes from one phase to the next.
Phases ==
    /\ UNCHANGED <<db, disk, co, crashes>>
    /\ \A tok \in Tokens : holder'[tok].task = holder[tok].task

Ages ==
    /\ UNCHANGED <<co, holder, crashes>>
    /\ \A t \in Tasks : /\ db'[t].state = db[t].state /\ db'[t].retries = db[t].retries
                        /\ disk'[t].state = disk[t].state
                        /\ disk'[t].retries = disk[t].retries

\* The SELECT of transition().
LEMMA SelectedAsks ==
    ASSUME NEW k, NEW c \in Coroutine, Resume(k, Selected(c)),
           UNCHANGED <<db, disk, holder, crashes>>
    PROVE  Asks(k)
<1>1. CASE Permits(db[c.task], c.want, PassedToken(c))
  <2> DEFINE retry == c.want = "timeout" /\ CanRetry(db[c.task])
             d == [c EXCEPT !.pc = "update", !.seen = db[c.task].state, !.retry = retry]
  <2>1. d.pc = "update" /\ d.retry = retry /\ d.task = c.task
    BY DEF Coroutine
  <2>2. Selected(c) = d
    BY <1>1 DEF Selected
  <2>3. Exists(db[c.task])
    BY <1>1 DEF Permits
  <2> HIDE DEF d
  <2> QED BY <2>1, <2>2, <2>3 DEF Asks, Granting
<1>2. CASE ~Permits(db[c.task], c.want, PassedToken(c))
  <2>1. Selected(c) = Returned(c, FALSE)
    BY <1>2 DEF Selected
  <2>2. Plain(Returned(c, FALSE)) /\ Resume(k, Returned(c, FALSE))
    BY <2>1, PlainReturned
  <2>3. UNCHANGED <<db, disk, holder, crashes>>
    OBVIOUS
  <2> QED BY <2>2, <2>3 DEF Asks, Plain
<1> QED BY <1>1, <1>2

\* A row gets silent.
LEMMA SilenceAges ==
    ASSUME IInv, NEW t \in Tasks, Silence(t)
    PROVE  Ages
<1>1. \A r \in Row, b \in BOOLEAN :
        LET p == [r EXCEPT !.silent = b] IN p.state = r.state /\ p.retries = r.retries
  BY DEF Row
<1> QED BY <1>1 DEF Silence, Ages, UpdateRow, IInv, TypeOK, ghost

\* Every step is of one of these kinds.
LEMMA Kinds ==
    ASSUME IInv, Blank, [Next]_vars
    PROVE  \/ \E k \in Coros : \/ Calm(k) \/ Asks(k) \/ TransitionUpdate(k)
                               \/ Assigns(k) \/ Grants(k)
           \/ Phases \/ Ages \/ Restart
<1>0. /\ TypeOK /\ Maint \in Coros
      /\ \A k \in Coros : co[k] \in Coroutine
  BY LifecycleAssumption DEF IInv, TypeOK
<1>1. ASSUME NEW k \in Coros, Step(k)
      PROVE  Calm(k) \/ Asks(k) \/ TransitionUpdate(k) \/ Assigns(k) \/ Grants(k)
  <2>1. CASE TransitionGet(k)
    BY <1>0, <2>1, SelectedAsks DEF TransitionGet, rows, ghost
  <2>2. CASE AssignUpdate(k)
    BY <2>2, RequestCalm DEF Assigns
  <2>3. CASE AssignCommit(k)
    BY <2>3, RequestCalm DEF Grants
  <2> QED
    BY <1>1, <2>1, <2>2, <2>3, PrepareCalm, SubmitCalm, CleanupCalm DEF Step
<1>2. ASSUME NEW k \in Coros, NEW t \in Tasks, Cancel(k, t)
      PROVE  Asks(k)
  <2>1. Ask(Start("cancel", t), "cancelled") \in Coroutine
    BY Numbers, StartOK, AskOK DEF Ops, Wanted, CoOK
  <2> QED BY <1>2, <2>1, SelectedAsks DEF Cancel, rows, ghost
<1>3. ASSUME NEW k \in Coros, Client(k)
      PROVE  Calm(k) \/ Asks(k)
  BY <1>2, <1>3, PrepareCalm, CleanupCalm DEF Client
<1>4. ASSUME NEW tok \in Tokens, NEW phase, holder' = [holder EXCEPT ![tok].phase = phase],
             UNCHANGED <<db, disk, co, crashes>>
      PROVE  Phases
  BY <1>0, <1>4 DEF Phases, TypeOK, Run
<1>5. ASSUME NEW k \in Coros, NEW tok \in Tokens, Heartbeat(k, tok)
      PROVE  Calm(k) \/ Phases
  <2> DEFINE t == holder[tok].task
             d == [At(Start("beat", t), "beat_update") EXCEPT !.tok = tok]
  <2>1. CASE db[t].state = "assigned" /\ db[t].token = tok
    <3>1. Plain(d)
      BY PlainStarts
    <3>2. Resume(k, d) /\ UNCHANGED rows /\ UNCHANGED <<holder, crashes>>
      BY <1>5, <2>1 DEF Heartbeat
    <3> HIDE DEF d
    <3> QED BY <3>1, <3>2, CalmRead
  <2>2. CASE ~(db[t].state = "assigned" /\ db[t].token = tok)
    BY <1>4, <1>5, <2>2 DEF Heartbeat, rows
  <2> QED BY <2>1, <2>2
<1>6. ASSUME NEW k \in Coros, Worker(k)
      PROVE  Calm(k) \/ Phases
  BY <1>5, <1>6, RequestCalm DEF Worker
<1>7. ASSUME NEW tok \in Tokens, RunEnds(tok) \/ WorkerLeaves(tok)
      PROVE  Phases
  BY <1>4, <1>7 DEF RunEnds, WorkerLeaves, rows
<1>8. CASE StaleSelect \/ \E old \in SUBSET Tasks : CleanupSelect(old)
  BY <1>0, <1>8, RequestCalm
<1>9. CASE UNCHANGED vars
  BY <1>9 DEF vars, Phases
<1> QED
  BY <1>1, <1>3, <1>6, <1>7, <1>8, <1>9, SilenceAges DEF Next

\* What the UPDATE of transition() does to the rows and to its coroutine.
LEMMA UpdateEffect ==
    ASSUME IInv, NEW k \in Coros, TransitionUpdate(k)
    PROVE  /\ UNCHANGED <<disk, holder, crashes>> /\ co[k].pc = "update"
           /\ \E d : Resume(k, d) /\ Plain(d)
           /\ \A t \in Tasks :
                /\ Charged(db[t]) <= Charged(db'[t])
                /\ db[t].state = "gone" => db'[t].state = "gone"
                /\ db'[t].state = "absent" => db[t].state = "absent"
                /\ Exists(db'[t]) => Exists(db[t])
                /\ \/ db'[t].retries = db[t].retries
                   \/ /\ t = co[k].task /\ co[k].retry /\ db'[t].state # "absent"
                      /\ db'[t].retries = db[t].retries + 1
<1> DEFINE c == co[k]
           hit == db[c.task].state = c.seen
           d == [c EXCEPT !.pc = "commit", !.ok = hit]
           q == Transitioned(db[c.task], c.want, c.retry)
<1>0. /\ TypeOK /\ CoOK(c) /\ c \in Coroutine
      /\ \A t \in Tasks : db[t] \in Row /\ Charged(db[t]) \in Nat
  BY ChargedNat DEF IInv, TypeOK, CoOK
<1>1. /\ c.pc = "update" /\ c.seen \in Stored /\ c.want \in ValidTransitions[c.seen]
      /\ c.retry \in BOOLEAN /\ c.want # "assigned"
  BY <1>0 DEF TransitionUpdate, CoOK, Coroutine, Wanted
<1>2. Resume(k, d) /\ d.pc = "commit" /\ UNCHANGED <<disk, holder, crashes>>
  BY <1>0 DEF TransitionUpdate, ghost, Coroutine
<1>3. Plain(d)
  BY <1>2 DEF Plain, Granting
<1>4. CASE hit /\ c.task \in Tasks
  <2>1. /\ Charged(db[c.task]) <= Charged(q)
        /\ q.state \notin {"absent", "gone"} /\ db[c.task].state \notin {"absent", "gone"}
        /\ q.retries = db[c.task].retries \/ (c.retry /\ q.retries = db[c.task].retries + 1)
    BY <1>0, <1>1, <1>4, TransitionedSteady
  <2>2. UpdateRow(c.task, q)
    BY <1>4 DEF TransitionUpdate
  <2> HIDE DEF q
  <2>3. db'[c.task] = q /\ \A t \in Tasks \ {c.task} : db'[t] = db[t]
    BY <1>0, <1>4, <2>2 DEF UpdateRow, TypeOK
  <2>4. Exists(db[c.task])
    BY <1>1, <1>4 DEF Exists
  <2> HIDE DEF d
  <2> QED BY <1>0, <1>1, <1>2, <1>3, <2>1, <2>3, <2>4
<1>5. CASE ~(hit /\ c.task \in Tasks)
  <2>1. \A t \in Tasks : db'[t] = db[t]
    BY <1>0, <1>5 DEF TransitionUpdate, UpdateRow, TypeOK
  <2> HIDE DEF d
  <2> QED BY <1>0, <1>1, <1>2, <1>3, <2>1
<1> QED BY <1>4, <1>5

\* What assign() does.
LEMMA AssignEffect ==
    ASSUME IInv, NEW k \in Coros, Assigns(k)
    PROVE  /\ UNCHANGED <<disk, holder, crashes>>
           /\ \A u \in Tasks : Steady(db[u], db'[u])
           /\ \E t \in Tasks, tok \in Tokens : \E d :
                /\ Resume(k, d) /\ d.pc = "assign_commit" /\ d.task = t /\ d.tok = tok
                /\ db'[t].state = "assigned" /\ Charged(db'[t]) = Charged(db[t]) + 1
<1> DEFINE c == co[k]
           t == Min(c.todo)
<1>0. TypeOK /\ c \in Coroutine /\ issued \in Nat
  BY Numbers DEF IInv, TypeOK
<1>1. t \in Tasks /\ db[t].state = "queued"
  BY MinInSet, Numbers DEF IInv, Assigns, AssignUpdate, CoOK, Coroutine
<1> HIDE DEF t
<1> DEFINE d == [At(c, "assign_commit") EXCEPT
                   !.task = t, !.tok = issued', !.ok = TRUE, !.todo = c.todo \ {t}]
           q == Assigned(db[t], issued')
<1>2. /\ issued < MaxToken /\ issued' = issued + 1 /\ Resume(k, d)
      /\ UpdateRow(t, q) /\ UNCHANGED <<disk, holder, crashes>>
  BY <1>1 DEF Assigns, AssignUpdate, t, At
<1>3. issued' \in Tokens
  BY <1>0, <1>2, Numbers DEF Tokens
<1>4. d.pc = "assign_commit" /\ d.task = t /\ d.tok = issued'
  BY <1>0 DEF At, Coroutine
<1> HIDE DEF d
<1>5. q.state = "assigned" /\ q.retries = db[t].retries /\ db[t].retries \in Nat
  BY <1>0, <1>1 DEF Assigned, Moved, TypeOK, Row
<1> HIDE DEF q
<1>6. Charged(q) = Charged(db[t]) + 1 /\ Steady(db[t], q)
  BY <1>1, <1>5 DEF Charged, Steady
<1>7. \A u \in Tasks : Steady(db[u], db'[u])
  BY <1>0, <1>2, <1>6, UpdateSteady
<1>8. db'[t] = q
  BY <1>0, <1>1, <1>2 DEF UpdateRow, TypeOK
<1> QED BY <1>1, <1>2, <1>3, <1>4, <1>5, <1>6, <1>7, <1>8

\* A row that was not inserted stays blank.
LEMMA BlankKeeps ==
    ASSUME IInv, IInv', Blank, [Next]_vars
    PROVE  Blank'
<1>0. \A t \in Tasks : db[t].state = "absent" => disk[t].state = "absent"
  BY Ahead
<1>1. ASSUME disk' \in {disk, db}, \A t \in Tasks : Steady(db[t], db'[t])
      PROVE  Blank'
  BY <1>1 DEF Blank, Steady
<1>2. ASSUME NEW k \in Coros, Calm(k)
      PROVE  Blank'
  BY <1>1, <1>2 DEF Calm, Blank
<1>3. ASSUME NEW k \in Coros, TransitionUpdate(k)
      PROVE  Blank'
  <2>1. \A t \in Tasks : db'[t].state = "absent" => db[t].state = "absent" /\ db'[t].retries = db[t].retries
    BY <1>3, UpdateEffect
  <2> QED BY <1>3, <2>1, UpdateEffect DEF Blank
<1>4. ASSUME NEW k \in Coros, Assigns(k)
      PROVE  Blank'
  BY <1>1, <1>4, AssignEffect
<1>5. ASSUME NEW k \in Coros, Grants(k)
      PROVE  Blank'
  BY <1>5 DEF Grants, AssignCommit, Commit, Blank
<1>6. CASE (\E k \in Coros : Asks(k)) \/ Phases \/ Ages
  BY <1>6 DEF Asks, Phases, Ages, Blank
<1>7. CASE Restart
  <2>1. \A r \in Row : Purged(r).state = "absent" => Purged(r) = r
    BY DEF Purged, Moved, Row
  <2> QED BY <1>7, <2>1 DEF Restart, Blank, IInv, TypeOK
<1> QED BY <1>2, <1>3, <1>4, <1>5, <1>6, <1>7, Kinds

-----------------------------------------------------------------------------
(* Counting.                                                                *)

\* The coroutines about to count a retry are finitely many.
LEMMA PendingSize ==
    ASSUME IsFiniteSet(Coros), NEW P \in SUBSET Coros, NEW Q \in SUBSET Coros
    PROVE  /\ IsFiniteSet(P) /\ Cardinality(P) \in Nat
           /\ Cardinality(P) <= Cardinality(Coros)
           /\ P \subseteq Q => Cardinality(P) <= Cardinality(Q)
           /\ \A k \in Q : P \subseteq Q \ {k} => Cardinality(P) + 1 <= Cardinality(Q)
<1>1. /\ IsFiniteSet(P) /\ Cardinality(P) \in Nat /\ Cardinality(P) <= Cardinality(Coros)
      /\ IsFiniteSet(Q) /\ Cardinality(Q) \in Nat
  BY FS_Subset, FS_CardinalityType
<1>2. P \subseteq Q => Cardinality(P) <= Cardinality(Q)
  BY <1>1, FS_Subset
<1>3. ASSUME NEW k \in Q, P \subseteq Q \ {k}
      PROVE  Cardinality(P) + 1 <= Cardinality(Q)
  <2>1. IsFiniteSet(Q \ {k}) /\ Cardinality(Q \ {k}) = Cardinality(Q) - 1
    BY <1>1, FS_RemoveElement
  <2>2. Cardinality(P) <= Cardinality(Q \ {k})
    BY <1>3, <2>1, FS_Subset
  <2> QED BY <1>1, <2>1, <2>2
<1> QED BY <1>1, <1>2, <1>3

\* The tokens are finitely many.
LEMMA TokenSize ==
    ASSUME NEW S \in SUBSET Tokens, NEW T \in SUBSET Tokens
    PROVE  /\ Cardinality(S) \in Nat
           /\ S \subseteq T => Cardinality(S) <= Cardinality(T)
           /\ \A tok : S \subseteq T \cup {tok} => Cardinality(S) <= Cardinality(T) + 1
<1>1. IsFiniteSet(Tokens)
  BY FS_Interval, LifecycleAssumption DEF Tokens
<1>2. IsFiniteSet(S) /\ Cardinality(S) \in Nat /\ IsFiniteSet(T) /\ Cardinality(T) \in Nat
  BY <1>1, FS_Subset, FS_CardinalityType
<1>3. S \subseteq T => Cardinality(S) <= Cardinality(T)
  BY <1>2, FS_Subset
<1>4. ASSUME NEW tok, S \subseteq T \cup {tok}
      PROVE  Cardinality(S) <= Cardinality(T) + 1
  <2>1. /\ IsFiniteSet(T \cup {tok})
        /\ Cardinality(T \cup {tok}) = IF tok \in T THEN Cardinality(T) ELSE Cardinality(T) + 1
    BY <1>2, FS_AddElement
  <2>2. Cardinality(S) <= Cardinality(T \cup {tok})
    BY <1>4, <2>1, FS_Subset
  <2> QED BY <1>2, <2>1, <2>2
<1> QED BY <1>2, <1>3, <1>4

-----------------------------------------------------------------------------
(* The retries.                                                             *)

\* One coroutine goes on, the others stay.
LEMMA Others ==
    ASSUME TypeOK, NEW k \in Coros, NEW d, Resume(k, d)
    PROVE  co'[k] = d /\ \A l \in Coros \ {k} : co'[l] = co[l]
BY DEF TypeOK, Resume

\* A coroutine that goes on plainly, or with a token, adds no pending retry.
LEMMA PendingShrinks ==
    ASSUME TypeOK, NEW k \in Coros, NEW d, Resume(k, d), d.pc # "update", NEW t
    PROVE  Pending(co', t) \subseteq Pending(co, t) \ {k}
BY Others DEF Pending

\* The bound is kept by a step that counts no retry.
LEMMA SteadyRetries ==
    ASSUME IsFiniteSet(Coros), IInv, Blank, RetryInv,
           \A t \in Tasks : Pending(co', t) \subseteq Pending(co, t),
           \/ disk' \in {disk, db} /\ \A t \in Tasks : Steady(db[t], db'[t])
           \/ db' = disk /\ disk' = disk
    PROVE  RetryInv'
<1> SUFFICES ASSUME NEW t \in Tasks PROVE RetriesFit(t)'
  BY DEF RetryInv
<1> DEFINE p == Cardinality(Pending(co, t))
           n == Cardinality(Pending(co', t))
<1>1. n <= p /\ n \in Nat /\ p \in Nat
  BY PendingSize DEF Pending
<1>2. /\ db[t].retries \in Nat /\ disk[t].retries \in Nat
      /\ db[t].state = "absent" => db[t].retries = 0 /\ disk[t].retries = 0
      /\ db[t].state = "gone" => ~Exists(db[t])
  BY Ahead DEF Row, Blank, Exists, Stored, Terminal
<1>3. /\ db[t].retries + p <= Limit /\ disk[t].retries + p <= Limit
      /\ Exists(db[t]) => disk[t].retries <= db[t].retries
  BY DEF RetryInv, RetriesFit
<1>4. Limit \in Int
  BY FS_CardinalityType, MaxRetriesAssumption DEF Limit
<1>5. /\ db'[t].retries + n <= Limit /\ disk'[t].retries + n <= Limit
      /\ Exists(db'[t]) => disk'[t].retries <= db'[t].retries
  <2> HIDE DEF p, n, Limit
  <2>1. CASE db' = disk /\ disk' = disk
    BY <1>1, <1>2, <1>3, <1>4, <2>1
  <2>2. CASE disk' \in {disk, db} /\ Steady(db[t], db'[t])
    <3>1. Exists(db'[t]) => db'[t].retries = db[t].retries /\ disk[t].retries <= db[t].retries
      <4>1. Exists(db'[t]) => db'[t].state # "gone"
        BY DEF Exists, Stored, Terminal
      <4>2. db[t].state # "absent" /\ db[t].state # "gone" => Exists(db[t])
        BY Ahead DEF Exists, Row, RowState
      <4> QED BY <1>2, <1>3, <2>2, <4>1, <4>2 DEF Steady
    <3>2. db'[t].retries \in {0, db[t].retries}
      BY <2>2 DEF Steady
    <3> QED BY <1>1, <1>2, <1>3, <1>4, <2>2, <3>1, <3>2
  <2> QED BY <2>1, <2>2
<1> QED BY <1>5 DEF RetriesFit, Limit

\* A coroutine that may retry is one of Coros, and the row had retries left when
\* it was read: all the others can count theirs and the bound still holds.
LEMMA AskRetries ==
    ASSUME IsFiniteSet(Coros), IInv, RetryInv, NEW k \in Coros, Asks(k)
    PROVE  RetryInv'
<1> SUFFICES ASSUME NEW t \in Tasks PROVE RetriesFit(t)'
  BY DEF RetryInv
<1>0. UNCHANGED <<db, disk>> /\ TypeOK
  BY DEF Asks, IInv
<1>1. PICK d : /\ Resume(k, d)
               /\ d.pc = "update" /\ d.retry => Exists(db[d.task]) /\ CanRetry(db[d.task])
  BY DEF Asks
<1> DEFINE p == Cardinality(Pending(co, t))
           n == Cardinality(Pending(co', t))
           a == Cardinality(Coros)
<1>2. /\ n \in Nat /\ p \in Nat /\ a \in Nat /\ n <= a
      /\ Pending(co', t) \subseteq Pending(co, t) => n <= p
  BY PendingSize, FS_CardinalityType DEF Pending
<1>3. db[t].retries \in Nat /\ disk[t].retries \in Nat
  BY Ahead DEF Row
<1>4. /\ db[t].retries + p <= Limit /\ disk[t].retries + p <= Limit
      /\ Exists(db[t]) => disk[t].retries <= db[t].retries
  BY DEF RetryInv, RetriesFit
<1>5. MaxRetries \in Nat /\ Limit = MaxRetries + a - 1
  BY MaxRetriesAssumption DEF Limit
<1>6. db[t].retries + n <= Limit /\ disk[t].retries + n <= Limit
  <2>1. CASE d.pc = "update" /\ d.retry /\ d.task = t
    <3>1. db[t].retries < MaxRetries /\ disk[t].retries <= db[t].retries
      BY <1>1, <1>4, <2>1 DEF CanRetry
    <3> HIDE DEF p, n, a
    <3> QED BY <1>2, <1>3, <1>5, <3>1
  <2>2. CASE ~(d.pc = "update" /\ d.retry /\ d.task = t)
    <3>1. Pending(co', t) \subseteq Pending(co, t)
      BY <1>0, <1>1, <2>2, Others DEF Pending
    <3>2. n <= p
      BY <1>2, <3>1
    <3> HIDE DEF p, n, a
    <3> QED BY <1>2, <1>3, <1>4, <1>5, <3>2
  <2> QED BY <2>1, <2>2
<1> QED BY <1>0, <1>4, <1>6 DEF RetriesFit, Limit

\* A retry that is counted was pending.
LEMMA UpdateRetries ==
    ASSUME IsFiniteSet(Coros), IInv, RetryInv, NEW k \in Coros, TransitionUpdate(k)
    PROVE  RetryInv'
<1> SUFFICES ASSUME NEW t \in Tasks PROVE RetriesFit(t)'
  BY DEF RetryInv
<1>0. TypeOK /\ disk' = disk /\ co[k].pc = "update"
  BY UpdateEffect DEF IInv
<1>1. Pending(co', t) \subseteq Pending(co, t) \ {k}
  BY <1>0, UpdateEffect, PendingShrinks DEF Plain
<1> DEFINE p == Cardinality(Pending(co, t))
           n == Cardinality(Pending(co', t))
<1>2. /\ n \in Nat /\ p \in Nat /\ n <= p
      /\ k \in Pending(co, t) => n + 1 <= p
  BY <1>1, PendingSize DEF Pending
<1>3. db[t].retries \in Nat /\ disk[t].retries \in Nat /\ Limit \in Int
  BY Ahead, FS_CardinalityType, MaxRetriesAssumption DEF Row, Limit
<1>4. /\ db[t].retries + p <= Limit /\ disk[t].retries + p <= Limit
      /\ Exists(db[t]) => disk[t].retries <= db[t].retries
  BY DEF RetryInv, RetriesFit
<1>5. /\ Exists(db'[t]) => Exists(db[t])
      /\ \/ db'[t].retries = db[t].retries
         \/ k \in Pending(co, t) /\ db'[t].retries = db[t].retries + 1
  BY <1>0, UpdateEffect DEF Pending
<1>6. /\ db'[t].retries + n <= Limit /\ disk[t].retries + n <= Limit
      /\ Exists(db'[t]) => disk[t].retries <= db'[t].retries
  <2> HIDE DEF p, n, Limit
  <2> QED BY <1>2, <1>3, <1>4, <1>5
<1> QED BY <1>0, <1>6 DEF RetriesFit, Limit

\* Every step keeps the bound.
LEMMA NextRetries ==
    ASSUME IsFiniteSet(Coros), IInv, Blank, RetryInv, [Next]_vars
    PROVE  RetryInv'
<1>0. TypeOK
  BY DEF IInv
<1>1. ASSUME NEW k \in Coros, Calm(k)
      PROVE  RetryInv'
  <2>1. \A t \in Tasks : Pending(co', t) \subseteq Pending(co, t)
    BY <1>0, <1>1, PendingShrinks DEF Calm, Plain
  <2> QED BY <1>1, <2>1, SteadyRetries DEF Calm
<1>2. ASSUME NEW k \in Coros, Assigns(k)
      PROVE  RetryInv'
  <2>1. \A t \in Tasks : Pending(co', t) \subseteq Pending(co, t)
    <3>1. PICK d : Resume(k, d) /\ d.pc = "assign_commit"
      BY <1>2, AssignEffect
    <3> QED BY <1>0, <3>1, PendingShrinks
  <2> QED BY <1>2, <2>1, AssignEffect, SteadyRetries
<1>3. ASSUME NEW k \in Coros, Grants(k)
      PROVE  RetryInv'
  <2>1. Resume(k, Idle) /\ Commit
    BY <1>3 DEF Grants, AssignCommit
  <2>2. \A t \in Tasks : Pending(co', t) \subseteq Pending(co, t)
    BY <1>0, <2>1, PlainPCs, PendingShrinks DEF Plain
  <2> QED BY <1>0, <2>1, <2>2, NoUpdateSteady, SteadyRetries DEF Commit
<1>4. CASE Phases
  BY <1>4 DEF Phases, RetryInv, RetriesFit
<1>5. CASE Ages
  BY <1>5 DEF Ages, RetryInv, RetriesFit, Exists
<1>6. CASE Restart
  <2>1. \A t \in Tasks : disk'[t].retries = disk[t].retries /\ db'[t] = disk'[t]
    <3>1. \A r \in Row : Purged(r).retries = r.retries
      BY DEF Purged, Moved, Row
    <3> QED BY <1>0, <1>6, <3>1 DEF Restart, TypeOK
  <2>2. \A t \in Tasks : Pending(co', t) = {}
    BY <1>6 DEF Restart, Pending, Idle
  <2> SUFFICES ASSUME NEW t \in Tasks PROVE RetriesFit(t)'
    BY DEF RetryInv
  <2> DEFINE p == Cardinality(Pending(co, t))
  <2>3. p \in Nat /\ Limit \in Int /\ disk[t].retries \in Nat
    <3>1. p \in Nat
      BY PendingSize DEF Pending
    <3>2. Limit \in Int /\ disk[t].retries \in Nat
      BY Ahead, FS_CardinalityType, MaxRetriesAssumption DEF Limit, Row
    <3> QED BY <3>1, <3>2
  <2>4. disk[t].retries + p <= Limit
    BY DEF RetryInv, RetriesFit
  <2>5. disk[t].retries <= Limit
    <3> HIDE DEF p, Limit
    <3> QED BY <2>3, <2>4
  <2>6. Cardinality(Pending(co', t)) = 0
    BY <2>2, FS_EmptySet
  <2>7. disk[t].retries + 0 = disk[t].retries /\ disk[t].retries <= disk[t].retries
    BY <2>3
  <2> QED BY <2>1, <2>5, <2>6, <2>7 DEF RetriesFit, Limit
<1> QED
  BY <1>1, <1>2, <1>3, <1>4, <1>5, <1>6, Kinds, AskRetries, UpdateRetries

\* The first state satisfies it.
LEMMA InitRetries == ASSUME IsFiniteSet(Coros) PROVE Init => Blank /\ RetryInv
<1> SUFFICES ASSUME Init PROVE Blank /\ RetryInv
  OBVIOUS
<1>1. \A t \in Tasks : db[t] = AbsentRow /\ disk[t] = AbsentRow
  BY DEF Init
<1>2. AbsentRow.retries = 0 /\ AbsentRow.state = "absent"
  BY DEF AbsentRow, NewRow
<1>3. \A t \in Tasks : Pending(co, t) = {}
  BY DEF Init, Pending, Idle
<1>4. 0 + 0 <= Limit
  <2>1. Cardinality(Coros) \in Nat /\ Cardinality(Coros) # 0
    BY FS_CardinalityType, FS_EmptySet, LifecycleAssumption
  <2> QED BY <2>1, MaxRetriesAssumption DEF Limit
<1>5. ASSUME NEW t \in Tasks PROVE RetriesFit(t)
  <2>1. Cardinality(Pending(co, t)) = 0
    BY <1>3, FS_EmptySet
  <2> QED BY <1>1, <1>2, <1>4, <2>1 DEF RetriesFit
<1> QED BY <1>1, <1>2, <1>5 DEF Blank, RetryInv

\* A row that was not inserted has nothing counted.
LEMMA Blanks == Spec => [](IInv /\ Blank)
<1>1. Init => Blank
  BY DEF Init, Blank, AbsentRow, NewRow
<1>2. IInv /\ Blank /\ [Next]_vars => (IInv /\ Blank)'
  BY NextKeeps, BlankKeeps
<1> QED BY <1>1, <1>2, InitKeeps, PTL DEF Spec

\* Requeues stop: can_retry may be out of date when a coroutine uses it, and each
\* other coroutine can spend it once more at most.
THEOREM RetriesAreBounded ==
    ASSUME IsFiniteSet(Coros)
    PROVE  Spec => []RetriesBounded
<1>1. IInv /\ Blank /\ RetryInv /\ [Next]_vars => RetryInv'
  BY NextRetries
<1>2. Init => RetryInv
  BY InitRetries
<1>3. IInv /\ RetryInv => RetriesBounded
  <2> SUFFICES ASSUME IInv, RetryInv, NEW t \in Tasks
               PROVE  db[t].retries <= MaxRetries + Cardinality(Coros) - 1
    BY DEF RetriesBounded
  <2> DEFINE p == Cardinality(Pending(co, t))
  <2>1. p \in Nat /\ Limit \in Int /\ db[t].retries \in Nat
    <3>1. p \in Nat
      BY PendingSize DEF Pending
    <3>2. Limit \in Int /\ db[t].retries \in Nat
      BY Ahead, FS_CardinalityType, MaxRetriesAssumption DEF Limit, Row
    <3> QED BY <3>1, <3>2
  <2>2. db[t].retries + p <= Limit
    BY DEF RetryInv, RetriesFit
  <2>3. db[t].retries <= Limit
    <3> HIDE DEF p, Limit
    <3> QED BY <2>1, <2>2
  <2> QED BY <2>3 DEF Limit
<1> QED BY <1>1, <1>2, <1>3, Blanks, PTL DEF Spec

-----------------------------------------------------------------------------
(* The executions.                                                          *)

\* A row that is charged no less covers no more tokens.
LEMMA CoversKept ==
    ASSUME NEW r \in Row, NEW q, NEW S \in SUBSET Tokens, NEW T \in SUBSET Tokens,
           NEW n \in Nat, Covers(r, S, n), T \subseteq S,
           Charged(q) \in Nat, Charged(r) <= Charged(q),
           r.state = "gone" => q.state = "gone"
    PROVE  Covers(q, T, n)
<1>1. Cardinality(S) \in Nat /\ Cardinality(T) \in Nat /\ Cardinality(T) <= Cardinality(S)
  BY TokenSize
<1>2. Charged(r) \in Nat
  BY ChargedNat
<1> QED BY <1>1, <1>2 DEF Covers

\* A steady UPDATE covers what it covered.
LEMMA SteadyCovers ==
    ASSUME NEW r \in Row, NEW q \in Row, NEW S \in SUBSET Tokens, NEW T \in SUBSET Tokens,
           NEW n \in Nat, Covers(r, S, n), T \subseteq S, Steady(r, q)
    PROVE  Covers(q, T, n)
<1>1. CASE q.state = "gone"
  BY <1>1 DEF Covers
<1>2. CASE q.state # "gone"
  BY <1>2, ChargedNat, CoversKept DEF Steady
<1> QED BY <1>1, <1>2

\* What is granted is a set of tokens; what the workers hold is part of it.
LEMMA GrantedTokens ==
    \A cs, h, t : /\ Granted(cs, h, t) \in SUBSET Tokens /\ RunsIn(h, t) \in SUBSET Tokens
                 /\ RunsIn(h, t) \subseteq Granted(cs, h, t)
BY DEF Granted, RunsIn

\* A coroutine that goes on without a token grants no more.
LEMMA GrantedShrinks ==
    ASSUME TypeOK, NEW k \in Coros, NEW d, Resume(k, d), ~Granting(d),
           UNCHANGED holder, NEW t
    PROVE  Granted(co', holder', t) \subseteq Granted(co, holder, t)
<1>1. \A l \in Coros : Granting(co'[l]) => co'[l] = co[l]
  BY Others
<1> QED BY <1>1 DEF Granted

\* The rows before and after a step, and the number of restarts.
LEMMA Accounts ==
    ASSUME IInv, IInv'
    PROVE  /\ \A t \in Tasks : /\ db[t] \in Row /\ disk[t] \in Row
                               /\ db'[t] \in Row /\ disk'[t] \in Row
           /\ crashes \in Nat /\ TypeOK
BY LifecycleAssumption DEF IInv, TypeOK

\* The accounts are kept by a step that grants no token.
LEMMA SteadyCharges ==
    ASSUME IInv, IInv', ChargeInv, UNCHANGED crashes,
           \A t \in Tasks : /\ Granted(co', holder', t) \subseteq Granted(co, holder, t)
                            /\ RunsIn(holder', t) \subseteq Granted(co, holder, t)
                            /\ disk' # db => RunsIn(holder', t) \subseteq RunsIn(holder, t),
           disk' \in {disk, db},
           \A t \in Tasks : Steady(db[t], db'[t])
    PROVE  ChargeInv'
<1> SUFFICES ASSUME NEW t \in Tasks
             PROVE  /\ Covers(db'[t], Granted(co', holder', t), crashes)
                    /\ Covers(disk'[t], RunsIn(holder', t), crashes)
  BY DEF ChargeInv
<1>1. /\ Covers(db[t], Granted(co, holder, t), crashes)
      /\ Covers(disk[t], RunsIn(holder, t), crashes)
  BY DEF ChargeInv
<1>2. Covers(db'[t], Granted(co', holder', t), crashes)
  BY <1>1, Accounts, GrantedTokens, SteadyCovers
<1>3. Covers(disk'[t], RunsIn(holder', t), crashes)
  <2>1. CASE disk' = db
    BY <1>1, <2>1, Accounts, GrantedTokens, SameSteady, SteadyCovers
  <2>2. CASE disk' # db
    BY <1>1, <2>2, Accounts, GrantedTokens, SameSteady, SteadyCovers
  <2> QED BY <2>1, <2>2
<1> QED BY <1>2, <1>3

\* An assignment is paid for by the row it is written to.
LEMMA AssignCharges ==
    ASSUME IInv, IInv', ChargeInv, NEW k \in Coros, Assigns(k)
    PROVE  ChargeInv'
<1>0. PICK u \in Tasks, tok \in Tokens : \E d :
         /\ Resume(k, d) /\ d.pc = "assign_commit" /\ d.task = u /\ d.tok = tok
         /\ db'[u].state = "assigned" /\ Charged(db'[u]) = Charged(db[u]) + 1
  BY AssignEffect
<1>1. PICK d :
         /\ Resume(k, d) /\ d.pc = "assign_commit" /\ d.task = u /\ d.tok = tok
         /\ db'[u].state = "assigned" /\ Charged(db'[u]) = Charged(db[u]) + 1
  BY <1>0
<1>2. UNCHANGED <<disk, holder, crashes>> /\ \A t \in Tasks : Steady(db[t], db'[t])
  BY AssignEffect
<1>3. co'[k] = d /\ \A l \in Coros \ {k} : co'[l] = co[l]
  BY <1>1, Others, Accounts
<1> SUFFICES ASSUME NEW t \in Tasks
             PROVE  /\ Covers(db'[t], Granted(co', holder', t), crashes)
                    /\ Covers(disk'[t], RunsIn(holder', t), crashes)
  BY <1>2 DEF ChargeInv
<1>4. /\ Covers(db[t], Granted(co, holder, t), crashes)
      /\ Covers(disk[t], RunsIn(holder, t), crashes)
  BY DEF ChargeInv
<1>5. CASE t # u
  <2>1. Granted(co', holder', t) \subseteq Granted(co, holder, t)
    BY <1>1, <1>2, <1>3, <1>5 DEF Granted
  <2> QED BY <1>2, <1>4, <2>1, Accounts, GrantedTokens, SteadyCovers
<1>6. CASE t = u
  <2>1. Granted(co', holder', t) \subseteq Granted(co, holder, t) \cup {tok}
    BY <1>1, <1>2, <1>3 DEF Granted
  <2> DEFINE n == Cardinality(Granted(co', holder', t))
             p == Cardinality(Granted(co, holder, t))
  <2>2. n \in Nat /\ p \in Nat /\ n <= p + 1
    BY <2>1, TokenSize, GrantedTokens
  <2>3. db[t].state # "gone"
    <3>1. Steady(db[t], db'[t]) /\ db'[t].state = "assigned"
      BY <1>1, <1>2, <1>6
    <3> QED BY <3>1 DEF Steady
  <2>4. p <= Charged(db[t]) + crashes /\ Charged(db[t]) \in Nat /\ crashes \in Nat
    BY <1>4, <2>3, Accounts, ChargedNat DEF Covers
  <2>5. n <= Charged(db'[t]) + crashes
    <3>1. Charged(db'[t]) = Charged(db[t]) + 1
      BY <1>1, <1>6
    <3> HIDE DEF n, p
    <3> QED BY <2>2, <2>4, <3>1
  <2> QED BY <1>2, <1>4, <2>5 DEF Covers
<1> QED BY <1>5, <1>6

\* Every step keeps the accounts, as long as nothing is rolled back.
LEMMA NextCharges ==
    ASSUME IInv, IInv', Blank, ChargeInv, [Next]_vars,
           \A k \in Coros : co[k].pc # "rollback"
    PROVE  ChargeInv'
<1>0. TypeOK /\ \A t \in Tasks : Steady(db[t], db[t])
  BY Accounts, SameSteady
<1>1. ASSUME NEW k \in Coros, Calm(k)
      PROVE  ChargeInv'
  <2>1. PICK d : Resume(k, d) /\ ~Granting(d)
    BY <1>1 DEF Calm, Plain
  <2>2. /\ UNCHANGED <<holder, crashes>> /\ disk' \in {disk, db}
        /\ \A t \in Tasks : Steady(db[t], db'[t])
    BY <1>1 DEF Calm
  <2>3. \A t \in Tasks : Granted(co', holder', t) \subseteq Granted(co, holder, t)
    BY <1>0, <2>1, <2>2, GrantedShrinks
  <2> QED BY <2>2, <2>3, GrantedTokens, SteadyCharges
<1>2. ASSUME NEW k \in Coros, Asks(k)
      PROVE  ChargeInv'
  <2>1. PICK d : Resume(k, d) /\ ~Granting(d)
    BY <1>2 DEF Asks
  <2>2. UNCHANGED <<db, disk, holder, crashes>>
    BY <1>2 DEF Asks
  <2>3. \A t \in Tasks : Granted(co', holder', t) \subseteq Granted(co, holder, t)
    BY <1>0, <2>1, <2>2, GrantedShrinks
  <2> QED BY <1>0, <2>2, <2>3, GrantedTokens, SteadyCharges
<1>3. ASSUME NEW k \in Coros, TransitionUpdate(k)
      PROVE  ChargeInv'
  <2>1. PICK d : Resume(k, d) /\ ~Granting(d)
    BY <1>3, UpdateEffect DEF Plain
  <2>2. /\ UNCHANGED <<disk, holder, crashes>>
        /\ \A t \in Tasks : /\ Charged(db[t]) <= Charged(db'[t])
                            /\ db[t].state = "gone" => db'[t].state = "gone"
    BY <1>3, UpdateEffect
  <2>3. \A t \in Tasks : Granted(co', holder', t) \subseteq Granted(co, holder, t)
    BY <1>0, <2>1, <2>2, GrantedShrinks
  <2>4. \A t \in Tasks : Covers(db'[t], Granted(co', holder', t), crashes)
    BY <2>2, <2>3, Accounts, ChargedNat, GrantedTokens, CoversKept DEF ChargeInv
  <2> QED BY <2>2, <2>4 DEF ChargeInv
<1>4. ASSUME NEW k \in Coros, Grants(k)
      PROVE  ChargeInv'
  <2> DEFINE c == co[k]
  <2>1. /\ Granting(c) /\ Resume(k, Idle) /\ disk' = db /\ db' = db /\ crashes' = crashes
        /\ holder' = [holder EXCEPT ![c.tok] = [task |-> c.task, phase |-> "running"]]
    BY <1>4 DEF Grants, AssignCommit, Commit, Granting
  <2>2. ~Granting(Idle)
    BY PlainPCs DEF Plain
  <2>3. \A t \in Tasks : RunsIn(holder', t) \subseteq Granted(co, holder, t)
    <3> SUFFICES ASSUME NEW t \in Tasks, NEW tok \in Tokens, holder'[tok].task = t
                 PROVE  tok \in Granted(co, holder, t)
      BY DEF RunsIn
    <3>1. CASE tok = c.tok
      <4>1. c.task = t
        BY <1>0, <2>1, <3>1 DEF TypeOK
      <4> QED BY <2>1, <3>1, <4>1 DEF Granted
    <3>2. CASE tok # c.tok
      BY <1>0, <2>1, <3>2 DEF TypeOK, Granted, RunsIn
    <3> QED BY <3>1, <3>2
  <2>4. \A l \in Coros : Granting(co'[l]) => co'[l] = co[l]
    BY <1>0, <2>1, <2>2, Others
  <2>5. \A t \in Tasks : Granted(co', holder', t) \subseteq Granted(co, holder, t)
    BY <2>3, <2>4 DEF Granted
  <2> QED BY <1>0, <2>1, <2>3, <2>5, SteadyCharges
<1>5. CASE Phases
  <2>1. \A t \in Tasks : RunsIn(holder', t) = RunsIn(holder, t)
    BY <1>5 DEF Phases, RunsIn
  <2> QED BY <1>5, <2>1 DEF Phases, ChargeInv, Granted
<1>6. CASE Ages
  <2>1. \A t \in Tasks : /\ Charged(db'[t]) = Charged(db[t])
                        /\ Charged(disk'[t]) = Charged(disk[t])
    BY <1>6 DEF Ages, Charged
  <2> QED BY <1>6, <2>1 DEF Ages, ChargeInv, Covers
<1>7. CASE Restart
  <2>1. /\ \A t \in Tasks : disk'[t] = Purged(disk[t]) /\ db'[t] = Purged(disk[t])
        /\ crashes' = crashes + 1 /\ holder' = holder /\ \A l \in Coros : co'[l] = Idle
    BY <1>7 DEF Restart
  <2>2. \A t : Granted(co', holder', t) = RunsIn(holder, t) /\ RunsIn(holder', t) = RunsIn(holder, t)
    BY <2>1, PlainPCs DEF Granted, Plain
  <2> SUFFICES ASSUME NEW t \in Tasks
               PROVE  Covers(Purged(disk[t]), RunsIn(holder, t), crashes + 1)
    BY <2>1, <2>2 DEF ChargeInv
  <2> DEFINE r == disk[t]
             q == Purged(disk[t])
             n == Cardinality(RunsIn(holder, t))
  <2>3. /\ r.state = "gone" => q.state = "gone"
        /\ Charged(r) <= Charged(q) + 1 /\ Charged(r) \in Nat /\ Charged(q) \in Nat
    <3>1. r \in Row
      BY Accounts
    <3>2. CASE r.state = "assigned"
      <4>1. q.state = "queued" /\ q.retries = r.retries
        BY <3>1, <3>2 DEF Purged, Moved, Row
      <4>2. r.retries \in Nat
        BY <3>1 DEF Row
      <4> HIDE DEF r, q
      <4> QED BY <3>2, <4>1, <4>2 DEF Charged
    <3>3. CASE r.state # "assigned"
      <4>1. q = r /\ Charged(r) \in Nat
        BY <3>1, <3>3, ChargedNat DEF Purged
      <4> HIDE DEF r, q
      <4> QED BY <4>1
    <3> QED BY <3>2, <3>3
  <2>4. Covers(r, RunsIn(holder, t), crashes) /\ crashes \in Nat
    BY Accounts DEF ChargeInv
  <2>5. n \in Nat
    BY TokenSize, GrantedTokens
  <2>6. Covers(q, RunsIn(holder, t), crashes + 1)
    <3>1. CASE r.state = "gone"
      BY <2>3, <3>1 DEF Covers
    <3>2. CASE r.state # "gone"
      <4>1. n <= Charged(r) + crashes
        BY <2>4, <3>2 DEF Covers
      <4>2. n <= Charged(q) + (crashes + 1)
        <5> HIDE DEF n, q, r
        <5> QED BY <2>3, <2>4, <2>5, <4>1
      <4> QED BY <4>2 DEF Covers
    <3> QED BY <3>1, <3>2
  <2> QED BY <2>6
<1> QED
  BY <1>1, <1>2, <1>3, <1>4, <1>5, <1>6, <1>7, Kinds, AssignCharges

\* The first state satisfies them.
LEMMA InitCharges == Init => ChargeInv
<1> SUFFICES ASSUME Init, NEW t \in Tasks
             PROVE  /\ Covers(db[t], Granted(co, holder, t), crashes)
                    /\ Covers(disk[t], RunsIn(holder, t), crashes)
  BY DEF ChargeInv
<1>1. RunsIn(holder, t) = {}
  BY Numbers DEF Init, NoRun, RunsIn, Tasks
<1>2. Granted(co, holder, t) = {}
  BY <1>1, PlainPCs DEF Init, Granted, Plain
<1>3. Cardinality({}) = 0 /\ 0 <= 0 + 0
  BY FS_EmptySet
<1>4. Charged(db[t]) = 0 /\ Charged(disk[t]) = 0 /\ crashes = 0
  BY DEF Init, AbsentRow, NewRow, Charged
<1> QED BY <1>1, <1>2, <1>3, <1>4 DEF Covers

\* Each execution of a task but the first is paid for by a counted retry or by a
\* restart, although an assignment is written, committed and answered in three
\* operations and a requeue may come in between.
THEOREM ExecutionsAreAccounted ==
    ASSUME Unstored = {}
    PROVE  Spec => []ExecutionsAccounted
<1>1. IInv /\ IInv' /\ AInv /\ Blank /\ ChargeInv /\ [Next]_vars => ChargeInv'
  <2> SUFFICES ASSUME IInv, IInv', AInv, Blank, ChargeInv, [Next]_vars PROVE ChargeInv'
    OBVIOUS
  <2>1. \A k \in Coros : co[k].pc # "rollback"
    BY DEF AInv, CoFits, Shape
  <2> QED BY <2>1, NextCharges
<1>2. IInv /\ ChargeInv => ExecutionsAccounted
  <2> SUFFICES ASSUME IInv, ChargeInv, NEW t \in Tasks, Exists(db[t])
               PROVE  Cardinality(Runs(t)) <= db[t].retries + 1 + crashes
    BY DEF ExecutionsAccounted
  <2> DEFINE n == Cardinality(RunsIn(holder, t))
             p == Cardinality(Granted(co, holder, t))
  <2>1. n \in Nat /\ p \in Nat /\ n <= p
    BY TokenSize, GrantedTokens
  <2>2. db[t].state # "gone" /\ db[t].retries \in Nat /\ crashes \in Nat
    BY Ahead, LifecycleAssumption DEF Exists, Stored, Terminal, Row, IInv, TypeOK
  <2>3. p <= Charged(db[t]) + crashes /\ Charged(db[t]) \in {db[t].retries, db[t].retries + 1}
    BY <2>2 DEF ChargeInv, Covers, Charged
  <2>4. n <= db[t].retries + 1 + crashes
    <3> HIDE DEF n, p
    <3> QED BY <2>1, <2>2, <2>3
  <2>5. Runs(t) = RunsIn(holder, t)
    BY DEF Runs, RunsIn
  <2> QED BY <2>4, <2>5
<1> QED BY <1>1, <1>2, InitCharges, AckInvariance, Blanks, PTL DEF Spec
==============================================================================
