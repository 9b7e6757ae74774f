------------------------- MODULE CourseWriter_proofs -------------------------
(***************************************************************************)
(* A written course covers its transcript without gap or overlap, in order, *)
(* and reaches every playlist of its video once it is paid for, for any     *)
(* number of videos, segments, playlists, keys and faults.                  *)
(***************************************************************************)
EXTENDS CourseProperties, FiniteSetTheorems, SequenceTheorems, WellFoundedInduction, TLAPS

-----------------------------------------------------------------------------
(* The inductive invariant.                                                 *)

\* The rewrites done so far belong to the sections, in their order.
Rewritten(s, done) == \A i \in 1..Len(done) : ValidRewrite(done[i], s[i])

GoodFor(c, n) == /\ Valid(c.sections, n)
                 /\ Len(c.rewrites) = Len(c.sections)
                 /\ Rewritten(c.sections, c.rewrites)

Good(c, v) == \E r \in Rows : Video[r] = v /\ GoodFor(c, Segments[r])

Untouched(v) == \A p \in 1..Playlists : file[v][p] = None
Delivering   == pc \in {"write", "upload", "mark"}
Held(v)      == Delivering /\ \E r \in row : Video[r] = v

\* The row in hand: while calls are paid for there is no file, and a delivery
\* leaves no playlist behind it.
Working(r) ==
    /\ pc \in {"structure", "rewrite"} => Untouched(Video[r]) /\ Segments[r] > 0
    /\ pc \in {"structure", "rewrite"} => place = 1
    /\ pc = "structure" => rewrites = <<>>
    /\ pc = "rewrite" => /\ Valid(sections, Segments[r])
                         /\ Len(rewrites) < Len(sections)
                         /\ Rewritten(sections, rewrites)
    /\ pc = "upload" => file[Video[r]][place] # None
    /\ Delivering => \A p \in 1..(place - 1) : uploaded[Video[r]][p] # None
    /\ pc = "mark" => \A p \in 1..Playlists : uploaded[Video[r]][p] # None

\* All there is of the course of a video: its files, its copies, the one in hand.
Copies(v) == {file[v][p] : p \in 1..Playlists} \cup {uploaded[v][p] : p \in 1..Playlists}
                \cup {c \in {InHand} : Held(v)}

\* But for what a crash cut short they are one and the same course, and a good one.
Sound(S, v) == /\ \A c, d \in S \ {None, Torn} : c = d
               /\ \A c \in S \ {None, Torn} : Good(c, v)

CInv ==
    /\ \A r \in row : Working(r)
    /\ \A v \in Videos : Sound(Copies(v), v)
    /\ \A v \in Videos : \A p \in 1..Playlists : uploaded[v][p] # None => file[v][p] # None
    /\ Delivering => InHand # None
    /\ \A r \in marked : \A p \in 1..Playlists : uploaded[Video[r]][p] # None

IInv == TypeOK /\ CInv

USE CourseAssumption

-----------------------------------------------------------------------------
(* Sections.                                                                *)

\* A set of numbers that is not empty has a least one.
LEMMA Least ==
    ASSUME NEW S \in SUBSET Nat, S # {}
    PROVE  \E x \in S : \A y \in S : x <= y
<1> DEFINE Less == {ss \in Nat \X Nat : ss[1] < ss[2]}
<1>1. IsWellFoundedOn(Less, Nat)
  BY NatLessThanWellFounded DEF OpToRel
<1>2. \E x \in S : \A y \in S : ~ (<<y, x>> \in Less)
  <2> HIDE DEF Less
  <2> QED BY <1>1, WFMin
<1>3. \A x, y \in S : <<y, x>> \in Less \/ x <= y
  OBVIOUS
<1> HIDE DEF Less
<1> QED BY <1>2, <1>3

\* What a sequence of sections consists of.
LEMMA SectionOf ==
    ASSUME NEW s \in Seq(Section), NEW k \in 1..Len(s)
    PROVE  s[k] \in Section /\ s[k].first \in Nat /\ s[k].last \in Nat
<1>1. s[k] \in Section
  BY ElementOfSeq
<1> QED BY <1>1 DEF Section

\* What a sequence of subsections consists of.
LEMMA SubsectionOf ==
    ASSUME NEW s \in Seq(Subsection), NEW k \in 1..Len(s)
    PROVE  s[k] \in Subsection /\ s[k].at \in Nat
<1>1. s[k] \in Subsection
  BY ElementOfSeq
<1> QED BY <1>1 DEF Subsection

\* Sections that are accepted follow each other.
LEMMA Increasing ==
    ASSUME NEW s \in Seq(Section), NEW n \in Nat, Valid(s, n),
           NEW i \in 1..Len(s), NEW j \in 1..Len(s), i < j
    PROVE  s[i].last < s[j].first
<1> DEFINE Bad == {k \in 1..Len(s) : i < k /\ ~(s[i].last < s[k].first)}
<1>1. \A k \in 1..Len(s) : s[k].first \in Nat /\ s[k].last \in Nat
  BY SectionOf
<1> SUFFICES ASSUME Bad # {} PROVE FALSE
  OBVIOUS
<1>2. PICK k \in Bad : \A l \in Bad : k <= l
  <2>1. Bad \in SUBSET Nat
    OBVIOUS
  <2> HIDE DEF Bad
  <2> QED BY <2>1, Least
<1>3. k - 1 \in 1..Len(s) /\ k - 1 < Len(s) /\ i <= k - 1 /\ k - 1 \notin Bad
  BY <1>2
<1>4. s[(k - 1) + 1].first = s[k - 1].last + 1 /\ s[k - 1].first <= s[k - 1].last
  BY <1>3 DEF Valid
<1>5. s[k].first = s[k - 1].last + 1
  BY <1>2, <1>4
<1>6. CASE i = k - 1
  BY <1>1, <1>2, <1>5, <1>6
<1>7. CASE i < k - 1
  BY <1>1, <1>2, <1>3, <1>4, <1>5, <1>7
<1> QED BY <1>3, <1>6, <1>7

\* They leave no segment out.
LEMMA Covering ==
    ASSUME NEW s \in Seq(Section), NEW n \in Nat, Valid(s, n), NEW g \in 0..(n - 1)
    PROVE  \E i \in 1..Len(s) : s[i].first <= g /\ g <= s[i].last
<1> DEFINE Past == {k \in 1..Len(s) : g <= s[k].last}
<1>1. \A k \in 1..Len(s) : s[k].first \in Nat /\ s[k].last \in Nat
  BY SectionOf
<1>2. Len(s) \in Past /\ Past \in SUBSET Nat
  BY <1>1 DEF Valid
<1>3. PICK k \in Past : \A l \in Past : k <= l
  <2> HIDE DEF Past
  <2> QED BY <1>2, Least
<1>4. CASE k = 1
  BY <1>3, <1>4 DEF Valid
<1>5. CASE k # 1
  <2>1. k - 1 \in 1..Len(s) /\ k - 1 < Len(s) /\ k - 1 \notin Past
    BY <1>3, <1>5
  <2>2. s[(k - 1) + 1].first = s[k - 1].last + 1
    BY <2>1 DEF Valid
  <2>3. s[k].first = s[k - 1].last + 1 /\ s[k - 1].last < g
    BY <1>1, <1>3, <2>1, <2>2
  <2> QED BY <1>1, <1>3, <2>1, <2>3
<1> QED BY <1>4, <1>5

\* Multiples of the group size.
LEMMA Multiples ==
    \A a, b \in Nat : /\ a * Group \in Nat /\ (a + 1) * Group = a * Group + Group
                      /\ a <= b => a * Group <= b * Group
                      /\ a <= a * Group
OBVIOUS

\* The mechanical sections are accepted, however many segments there are.
LEMMA FallbackValid ==
    ASSUME NEW n \in Nat, n > 0
    PROVE  Fallback(n) \in Seq(Section) /\ Valid(Fallback(n), n)
<1> DEFINE T(k) == k * Group
           Enough == {k \in Nat : k > 0 /\ T(k) >= n}
           at(k) == [first |-> T(k - 1), last |-> IF T(k) <= n THEN T(k) - 1 ELSE n - 1]
<1>1. /\ \A k \in Nat : T(k) \in Nat /\ T(k + 1) = T(k) + Group /\ k <= T(k)
      /\ \A a, b \in Nat : a <= b => T(a) <= T(b)
      /\ T(0) = 0
  BY Multiples
<1>2. Groups(n) = {k \in 1..n : T(k - 1) < n} /\ Fallback(n) = [k \in Groups(n) |-> at(k)]
  BY DEF Groups, Fallback
<1> HIDE DEF T
<1>3. PICK m \in Enough : \A k \in Enough : m <= k
  <2>1. Enough \in SUBSET Nat /\ n \in Enough
    BY <1>1
  <2> HIDE DEF Enough
  <2> QED BY <2>1, Least
<1>4. \A k \in 1..m : T(k - 1) < n /\ k <= n
  <2> TAKE k \in 1..m
  <2>1. m <= n /\ m \in Nat
    BY <1>1, <1>3
  <2>2. CASE k = 1
    BY <1>1, <2>1, <2>2
  <2>3. CASE k # 1
    <3>1. k - 1 \in Nat /\ k - 1 > 0 /\ k - 1 \notin Enough
      BY <1>3, <2>1, <2>3
    <3> QED BY <1>1, <2>1, <3>1
  <2> QED BY <2>2, <2>3
<1>5. \A k \in 1..n : T(k - 1) < n => k <= m
  <2> TAKE k \in 1..n
  <2>1. k - 1 \in Nat /\ m \in Nat /\ T(m) >= n
    BY <1>3
  <2>2. m <= k - 1 => T(m) <= T(k - 1)
    BY <1>1, <2>1
  <2>3. T(m) \in Nat /\ T(k - 1) \in Nat
    BY <1>1, <2>1
  <2> QED BY <2>1, <2>2, <2>3
<1>6. m \in Nat /\ m > 0 /\ Groups(n) = 1..m
  BY <1>2, <1>3, <1>4, <1>5
<1>7. \A k \in 1..m : /\ at(k) \in Section
                      /\ at(k).first <= at(k).last /\ at(k).last < n
                      /\ k < m => at(k + 1).first = at(k).last + 1
  <2> TAKE k \in 1..m
  <2>1. k - 1 \in Nat /\ k \in Nat /\ (k - 1) + 1 = k /\ (k + 1) - 1 = k
    OBVIOUS
  <2>2. T(k - 1) \in Nat /\ T(k) \in Nat /\ T(k) = T(k - 1) + Group /\ T(k - 1) < n
    BY <1>1, <1>4, <2>1
  <2>3. k < m => T(k) < n
    BY <1>3, <1>6, <2>1, <2>2
  <2> QED BY <2>1, <2>2, <2>3 DEF Section
<1>8. at(1).first = 0 /\ at(m).last + 1 = n
  BY <1>1, <1>3, <1>6
<1> HIDE DEF at
<1>9. Fallback(n) \in Seq(Section) /\ Len(Fallback(n)) = m
  <2>1. Fallback(n) \in [1..m -> Section]
    BY <1>2, <1>6, <1>7
  <2> QED BY <1>6, <2>1
<1>10. \A k \in 1..m : Fallback(n)[k] = at(k)
  BY <1>2, <1>6
<1> QED BY <1>6, <1>7, <1>8, <1>9, <1>10 DEF Valid

\* A good course is whole.
LEMMA GoodIsWhole ==
    ASSUME NEW c \in Courses, NEW n \in Nat, GoodFor(c, n)
    PROVE  Whole(c, n)
<1> DEFINE s == c.sections
           at(g) == {i \in 1..Len(s) : s[i].first <= g /\ g <= s[i].last}
<1>1. s \in Seq(Section) /\ Valid(s, n) /\ c.rewrites \in Seq(Seq(Subsection))
  BY DEF GoodFor, Courses
<1>2. \A k \in 1..Len(s) : s[k].first \in Nat /\ s[k].last \in Nat
  BY <1>1, SectionOf
<1>3. ASSUME NEW g \in 0..(n - 1) PROVE Cardinality(at(g)) = 1
  <2>1. PICK i \in 1..Len(s) : s[i].first <= g /\ g <= s[i].last
    BY <1>1, Covering
  <2>2. ASSUME NEW j \in at(g) PROVE j = i
    <3>1. ~(i < j)
      <4>1. i < j => s[i].last < s[j].first
        BY <1>1, Increasing
      <4> QED BY <1>2, <2>1, <4>1
    <3>2. ~(j < i)
      <4>1. j < i => s[j].last < s[i].first
        BY <1>1, Increasing
      <4> QED BY <1>2, <2>1, <4>1
    <3>3. Len(s) \in Nat
      BY <1>1
    <3> QED BY <3>1, <3>2, <3>3
  <2>3. at(g) = {i}
    BY <2>1, <2>2
  <2> QED BY <2>3, FS_Singleton
<1>4. \A i \in 1..Len(c.rewrites) : c.rewrites[i] # <<>>
  BY DEF GoodFor, Rewritten, ValidRewrite
<1> QED BY <1>3, <1>4 DEF Whole, GoodFor

\* The subsections of a section are in order.
LEMMA RewriteInOrder ==
    ASSUME NEW s \in Seq(Subsection), NEW section, ValidRewrite(s, section),
           NEW a \in 1..Len(s), NEW b \in 1..Len(s), a <= b
    PROVE  s[a].at <= s[b].at
<1> DEFINE Bad == {k \in 1..Len(s) : a <= k /\ ~(s[a].at <= s[k].at)}
<1>1. \A k \in 1..Len(s) : s[k].at \in Nat
  BY SubsectionOf
<1> SUFFICES ASSUME Bad # {} PROVE FALSE
  OBVIOUS
<1>2. PICK k \in Bad : \A l \in Bad : k <= l
  <2>1. Bad \in SUBSET Nat
    OBVIOUS
  <2> HIDE DEF Bad
  <2> QED BY <2>1, Least
<1>3. k - 1 \in 1..Len(s) /\ a <= k - 1 /\ k - 1 \notin Bad /\ k > 1
  BY <1>1, <1>2
<1>4. s[k - 1].at <= s[k].at
  BY <1>2, <1>3 DEF ValidRewrite
<1> QED BY <1>1, <1>2, <1>3, <1>4

\* A good course is in order.
LEMMA GoodIsInOrder ==
    ASSUME NEW c \in Courses, NEW n \in Nat, GoodFor(c, n)
    PROVE  InOrder(c)
<1> DEFINE s == c.sections
           w == c.rewrites
<1>1. /\ s \in Seq(Section) /\ w \in Seq(Seq(Subsection))
      /\ Valid(s, n) /\ Len(w) = Len(s) /\ Rewritten(s, w)
  BY DEF GoodFor, Courses
<1> HIDE DEF s, w
<1>2. SUFFICES ASSUME NEW i \in 1..Len(w), NEW j \in 1..Len(w),
                      NEW a \in 1..Len(w[i]), NEW b \in 1..Len(w[j]),
                      i < j \/ (i = j /\ a <= b)
               PROVE  w[i][a].at <= w[j][b].at
  BY DEF InOrder, w
<1>3. /\ w[i] \in Seq(Subsection) /\ w[j] \in Seq(Subsection)
      /\ ValidRewrite(w[i], s[i]) /\ ValidRewrite(w[j], s[j])
      /\ s[i] \in Section /\ s[j] \in Section
  BY <1>1 DEF Rewritten
<1>4. CASE i = j
  BY <1>2, <1>3, <1>4, RewriteInOrder
<1>5. CASE i < j
  <2>1. s[i].last < s[j].first
    BY <1>1, <1>5, Increasing
  <2>2. w[i][a].at <= s[i].last /\ s[j].first <= w[j][b].at
    BY <1>3 DEF ValidRewrite
  <2>3. w[i][a].at \in Nat /\ w[j][b].at \in Nat /\ s[i].last \in Nat /\ s[j].first \in Nat
    BY <1>1, <1>3, SectionOf, SubsectionOf
  <2>4. \A x, y, z, u \in Nat : x <= y /\ y < z /\ z <= u => x <= u
    OBVIOUS
  <2> QED BY <2>1, <2>2, <2>3, <2>4
<1> QED BY <1>2, <1>4, <1>5

-----------------------------------------------------------------------------
(* Quotas and faults.                                                       *)

\* Only a call of the model costs anything.
LEMMA Costs ==
    ASSUME [Next]_vars
    PROVE  /\ \/ quota' = quota
              \/ quota' = [k \in 1..Keys |-> Quota]
              \/ pc \in {"structure", "rewrite"} /\ \E k \in Answering : Spend(k)
           /\ NoFault \/ Fault
<1>1. ASSUME NEW r \in Rows, Deliver(r)
      PROVE  /\ \/ quota' = quota
                \/ pc \in {"structure", "rewrite"} /\ \E k \in Answering : Spend(k)
             /\ NoFault \/ Fault
  <2>1. CASE Begin(r) \/ WriteFile(r) \/ Upload(r) \/ UploadFails(r) \/ Mark(r)
    BY <2>1 DEF Begin, WriteFile, Upload, UploadFails, Mark
  <2>2. CASE StructureAnswered(r) \/ StructureFails(r)
    BY <2>2 DEF StructureAnswered, StructureFails
  <2>3. CASE Rewrite(r) \/ RewriteFails(r)
    BY <2>3 DEF Rewrite, RewriteFails
  <2> QED BY <1>1, <2>1, <2>2, <2>3 DEF Deliver
<1>2. CASE Sweep \/ EndSweep \/ Renew \/ Crash \/ UNCHANGED vars
  BY <1>2 DEF Sweep, EndSweep, Renew, Crash, vars, NoFault
<1> QED BY <1>1, <1>2 DEF Next

\* Within their bounds.
LEMMA CountsType ==
    ASSUME TypeOK, [Next]_vars
    PROVE  quota' \in [1..Keys -> 0..Quota] /\ faults' \in 0..MaxFaults
<1>1. faults' \in 0..MaxFaults
  BY Costs DEF TypeOK, NoFault, Fault
<1>2. ASSUME NEW k \in Answering, Spend(k) PROVE quota' \in [1..Keys -> 0..Quota]
  <2>1. quota[k] - 1 \in 0..Quota
    BY <1>2 DEF Answering, TypeOK
  <2> QED BY <1>2, <2>1 DEF Spend, TypeOK
<1> QED BY <1>1, <1>2, Costs DEF TypeOK

-----------------------------------------------------------------------------
(* Copies.                                                                  *)

\* No course, and a course that was cut short, are courses.
LEMMA NoneOK == None \in Courses /\ Torn \in Courses /\ None # Torn
<1>1. <<>> \in Seq(Section) /\ <<>> \in Seq(Seq(Subsection)) /\ <<>> \in Seq(Subsection)
  BY EmptySeq
<1>2. <<<<>>>> \in Seq(Seq(Subsection)) /\ <<<<>>>> # <<>>
  BY <1>1
<1> QED BY <1>1, <1>2 DEF None, Torn, Courses

\* What is left of sound copies is sound.
LEMMA SoundShrinks ==
    ASSUME NEW S, NEW T, NEW v, T \subseteq S \cup {None, Torn}, Sound(S, v)
    PROVE  Sound(T, v)
BY DEF Sound

\* A course that is found is one of the files; none is found only if there is none.
LEMMA ExistingIs ==
    ASSUME TypeOK, NEW v \in Videos
    PROVE  /\ \A c \in Existing(v) : c # None /\ \E p \in 1..Playlists : c = file[v][p]
           /\ Existing(v) = {} => Untouched(v)
<1> DEFINE found == {p \in 1..Playlists : file[v][p] # None}
           least == {q \in found : \A o \in found : q <= o}
<1>1. Existing(v) = {file[v][p] : p \in least}
  BY DEF Existing
<1>2. found # {} => least # {}
  <2>1. found \in SUBSET Nat
    OBVIOUS
  <2> HIDE DEF found
  <2> QED BY <2>1, Least
<1> QED BY <1>1, <1>2 DEF Untouched

-----------------------------------------------------------------------------
(* The steps.                                                               *)

\* Whoever lets the row go keeps the invariant.
LEMMA Released ==
    ASSUME IInv, row' = {}, ~Delivering', uploaded' = uploaded,
           NEW f \in [Videos -> [1..Playlists -> Courses]], file' = f,
           \A v \in Videos : \A p \in 1..Playlists :
              f[v][p] = file[v][p] \/ f[v][p] = Torn,
           \A r \in marked' : \A p \in 1..Playlists : uploaded[Video[r]][p] # None
    PROVE  CInv'
<1>1. ASSUME NEW v \in Videos PROVE Sound(Copies(v)', v)
  <2>1. Copies(v)' \subseteq Copies(v) \cup {None, Torn}
    BY DEF Copies, Held
  <2> QED BY <2>1, SoundShrinks DEF IInv, CInv
<1>2. \A v \in Videos : \A p \in 1..Playlists : uploaded'[v][p] # None => file'[v][p] # None
  BY NoneOK DEF IInv, CInv
<1> QED BY <1>1, <1>2 DEF CInv, Sound

\* The row in hand, its video and its number of segments.
LEMMA RowOK ==
    ASSUME TypeOK, NEW r, row = {r}
    PROVE  r \in Rows /\ Video[r] \in Videos /\ Segments[r] \in Nat /\ pc \notin {"sleep", "next"}
<1>1. PICK q \in Rows : row = {q}
  BY DEF TypeOK
<1>2. r \in {q}
  BY <1>1
<1>3. r \in Rows
  BY <1>2
<1> QED BY <1>3 DEF Videos, TypeOK

\* A row is given up.
LEMMA AbandonKeeps ==
    ASSUME IInv, Abandon, [Next]_vars
    PROVE  IInv'
<1>1. CInv'
  <2>1. file \in [Videos -> [1..Playlists -> Courses]] /\ file' = file /\ ~Delivering'
        /\ row' = {} /\ uploaded' = uploaded /\ marked' = marked
    BY DEF Abandon, IInv, TypeOK, Delivering, store
  <2>2. \A r \in marked : \A p \in 1..Playlists : uploaded[Video[r]][p] # None
    BY DEF IInv, CInv
  <2> QED BY <2>1, <2>2, Released
<1>2. TypeOK'
  <2>1. <<>> \in Seq(Section) /\ <<>> \in Seq(Seq(Subsection))
    BY EmptySeq
  <2> QED BY <2>1, CountsType DEF IInv, TypeOK, Abandon, store
<1> QED BY <1>1, <1>2 DEF IInv

\* The sweep begins and ends, quotas are renewed, the coordinator goes down.
LEMMA OtherKeeps ==
    ASSUME IInv, Sweep \/ EndSweep \/ Renew \/ Crash \/ UNCHANGED vars, [Next]_vars
    PROVE  IInv'
<1>0. <<>> \in Seq(Section) /\ <<>> \in Seq(Seq(Subsection))
  BY EmptySeq
<1>1. /\ file \in [Videos -> [1..Playlists -> Courses]]
      /\ \A r \in marked : \A p \in 1..Playlists : uploaded[Video[r]][p] # None
  BY DEF IInv, TypeOK, CInv
<1>2. CASE Sweep
  <2>1. /\ row' = {} /\ ~Delivering' /\ uploaded' = uploaded /\ file' = file /\ marked' = marked
    BY <1>2 DEF Sweep, IInv, TypeOK, Delivering, store
  <2>2. TypeOK'
    BY <1>2, CountsType DEF Sweep, IInv, TypeOK, store
  <2> QED BY <1>1, <2>1, <2>2, Released DEF IInv
<1>3. CASE EndSweep
  <2>1. /\ row' = {} /\ ~Delivering' /\ uploaded' = uploaded /\ file' = file /\ marked' = marked
    BY <1>3 DEF EndSweep, IInv, TypeOK, Delivering
  <2>2. TypeOK'
    BY <1>3, CountsType DEF EndSweep, IInv, TypeOK
  <2> QED BY <1>1, <2>1, <2>2, Released DEF IInv
<1>4. CASE Renew \/ UNCHANGED vars
  <2>1. UNCHANGED <<hand, store>>
    BY <1>4 DEF Renew, vars
  <2>2. TypeOK'
    BY <2>1, CountsType DEF IInv, TypeOK, hand, store
  <2>3. CInv'
    BY <2>1 DEF IInv, CInv, Working, Copies, Held, Delivering, Untouched, InHand, hand, store
  <2> QED BY <2>2, <2>3 DEF IInv
<1>5. CASE Crash
  <2>1. /\ row' = {} /\ rows' = {} /\ pc' = "sleep" /\ uploaded' = uploaded
        /\ marked' = committed /\ committed' = committed
        /\ sections' = <<>> /\ rewrites' = <<>> /\ place' = 1
    BY <1>5 DEF Crash
  <2>2. /\ file' \in [Videos -> [1..Playlists -> Courses]]
        /\ \A v \in Videos : \A p \in 1..Playlists :
              file'[v][p] = file[v][p] \/ file'[v][p] = Torn
    <3>1. CASE file' = file
      BY <1>1, <3>1
    <3>2. ASSUME NEW r \in row, file' = [file EXCEPT ![Video[r]][place] = Torn]
          PROVE  /\ file' \in [Videos -> [1..Playlists -> Courses]]
                 /\ \A v \in Videos : \A p \in 1..Playlists :
                       file'[v][p] = file[v][p] \/ file'[v][p] = Torn
      <4>1. Video[r] \in Videos /\ place \in 1..Playlists
        BY RowOK DEF IInv, TypeOK
      <4> QED BY <1>1, <3>2, <4>1, NoneOK
    <3> QED BY <1>5, <3>1, <3>2 DEF Crash
  <2>3. TypeOK'
    <3>1. marked' \subseteq Rows /\ committed' \subseteq marked'
      BY <2>1 DEF IInv, TypeOK
    <3>2. uploaded' \in [Videos -> [1..Playlists -> Courses]] /\ place' \in 1..Playlists
      BY <2>1 DEF IInv, TypeOK
    <3> QED BY <1>0, <2>1, <2>2, <3>1, <3>2, CountsType DEF IInv, TypeOK
  <2>4. ~Delivering' /\ \A r \in marked' : \A p \in 1..Playlists : uploaded[Video[r]][p] # None
    BY <1>1, <2>1 DEF Delivering, IInv, TypeOK
  <2> QED BY <2>1, <2>2, <2>3, <2>4, Released DEF IInv
<1> QED BY <1>2, <1>3, <1>4, <1>5

\* A row is taken.
LEMMA BeginKeeps ==
    ASSUME IInv, NEW r \in Rows, Begin(r), [Next]_vars
    PROVE  IInv'
<1>0. <<>> \in Seq(Section) /\ <<>> \in Seq(Seq(Subsection))
  BY EmptySeq
<1>1. /\ pc = "next" /\ rows' = rows \ {r} /\ place' = 1
      /\ UNCHANGED <<file, uploaded, marked, committed>>
      /\ Video[r] \in Videos /\ Segments[r] \in Nat
  BY DEF Begin, store, Videos
<1>2. CASE Existing(Video[r]) # {}
  <2>1. PICK c \in Existing(Video[r]) :
            pc' = "write" /\ row' = {r} /\ sections' = c.sections /\ rewrites' = c.rewrites
    BY <1>2 DEF Begin
  <2>2. c # None /\ c \in Courses /\ \E p \in 1..Playlists : c = file[Video[r]][p]
    <3>1. TypeOK /\ c # None
      BY <1>1, <2>1, ExistingIs DEF IInv
    <3>2. PICK p \in 1..Playlists : c = file[Video[r]][p]
      BY <1>1, <2>1, ExistingIs DEF IInv
    <3> QED BY <1>1, <3>1, <3>2 DEF TypeOK
  <2>3. InHand' = c /\ c.sections \in Seq(Section) /\ c.rewrites \in Seq(Seq(Subsection))
    BY <2>1, <2>2 DEF InHand, Courses
  <2>4. TypeOK'
    <3>1. 1 \in 1..Playlists
      OBVIOUS
    <3> QED BY <1>1, <2>1, <2>3, <3>1, CountsType DEF IInv, TypeOK
  <2>5. ASSUME NEW v \in Videos PROVE Sound(Copies(v)', v)
    <3>1. Copies(v)' \subseteq Copies(v)
      <4>1. Held(v)' => v = Video[r]
        BY <2>1 DEF Held
      <4> QED BY <1>1, <2>2, <2>3, <4>1 DEF Copies
    <3> QED BY <3>1, SoundShrinks DEF IInv, CInv
  <2>6. \A q \in row' : Working(q)'
    BY <1>1, <2>1 DEF Working
  <2> QED BY <1>1, <2>2, <2>3, <2>4, <2>5, <2>6 DEF IInv, CInv, Sound
<1>3. CASE Existing(Video[r]) = {} /\ Segments[r] = 0
  <2>1. pc' = "next" /\ row' = {} /\ sections' = <<>> /\ rewrites' = <<>>
    BY <1>3 DEF Begin
  <2>2. TypeOK'
    <3>1. 1 \in 1..Playlists
      OBVIOUS
    <3> QED BY <1>0, <1>1, <2>1, <3>1, CountsType DEF IInv, TypeOK
  <2>3. /\ file \in [Videos -> [1..Playlists -> Courses]]
        /\ \A q \in marked' : \A p \in 1..Playlists : uploaded[Video[q]][p] # None
    BY <1>1 DEF IInv, TypeOK, CInv
  <2>4. ~Delivering'
    BY <2>1 DEF Delivering
  <2> QED BY <1>1, <2>1, <2>2, <2>3, <2>4, Released DEF IInv
<1>4. CASE Existing(Video[r]) = {} /\ Segments[r] # 0
  <2>1. pc' = "structure" /\ row' = {r} /\ sections' = <<>> /\ rewrites' = <<>>
    BY <1>4 DEF Begin
  <2>2. TypeOK'
    <3>1. 1 \in 1..Playlists
      OBVIOUS
    <3> QED BY <1>0, <1>1, <2>1, <3>1, CountsType DEF IInv, TypeOK
  <2>3. Untouched(Video[r])'
    <3>1. Untouched(Video[r])
      BY <1>1, <1>4, ExistingIs DEF IInv
    <3> QED BY <1>1, <3>1 DEF Untouched
  <2>4. Working(r)'
    BY <1>1, <1>4, <2>1, <2>3 DEF Working, Delivering
  <2>5. ASSUME NEW v \in Videos PROVE Sound(Copies(v)', v)
    <3>1. Copies(v)' \subseteq Copies(v)
      BY <1>1, <2>1 DEF Copies, Held, Delivering
    <3> QED BY <3>1, SoundShrinks DEF IInv, CInv
  <2> QED BY <1>1, <2>1, <2>2, <2>4, <2>5 DEF IInv, CInv, Sound, Delivering
<1> QED BY <1>2, <1>3, <1>4

\* Sections are accepted.
LEMMA StructuredKeeps ==
    ASSUME IInv, NEW r, row = {r}, pc = "structure", [Next]_vars,
           NEW s \in Seq(Section), Structured(s), Valid(s, Segments[r])
    PROVE  IInv'
<1>1. /\ pc' = "rewrite" /\ sections' = s
      /\ UNCHANGED <<rows, row, rewrites, place, file, uploaded, marked, committed>>
  BY DEF Structured, store
<1>2. TypeOK'
  BY <1>1, CountsType DEF IInv, TypeOK
<1>3. Working(r)'
  <2>1. rewrites = <<>> /\ Untouched(Video[r]) /\ Segments[r] > 0 /\ place = 1
    BY DEF IInv, CInv, Working
  <2>2. Untouched(Video[r])'
    BY <1>1, <2>1 DEF Untouched
  <2>3. Len(s) \in Nat /\ Len(s) # 0 /\ Len(<<>>) = 0
    BY EmptySeq, LenProperties DEF Valid
  <2> QED BY <1>1, <2>1, <2>2, <2>3 DEF Working, Rewritten, Delivering
<1>4. ASSUME NEW v \in Videos PROVE Sound(Copies(v)', v)
  <2>1. Copies(v)' \subseteq Copies(v)
    BY <1>1 DEF Copies, Held, Delivering
  <2> QED BY <2>1, SoundShrinks DEF IInv, CInv
<1> QED BY <1>1, <1>2, <1>3, <1>4 DEF IInv, CInv, Sound, Delivering

\* An answer is a sequence.
LEMMA AnswerOK ==
    ASSUME NEW S, NEW T, S \subseteq T, NEW s \in SeqsOf(S)
    PROVE  s \in Seq(T)
<1>1. PICK k \in 0..MaxParts : s \in [1..k -> S]
  BY DEF SeqsOf
<1>2. s \in [1..k -> T] /\ k \in Nat
  BY <1>1
<1> QED BY <1>2

\* The answer to the request for sections, or none.
LEMMA StructureKeeps ==
    ASSUME IInv, NEW r \in Rows, StructureAnswered(r) \/ StructureFails(r), [Next]_vars
    PROVE  IInv'
<1>1. row = {r} /\ pc = "structure" /\ Segments[r] \in Nat /\ Segments[r] > 0
  <2>1. row = {r} /\ pc = "structure"
    BY DEF StructureAnswered, StructureFails
  <2> QED BY <2>1 DEF IInv, CInv, Working
<1>2. \E s \in Seq(Section) : Valid(s, Segments[r]) /\ Structured(s)
  <2>1. CASE Structured(Fallback(Segments[r]))
    BY <1>1, <2>1, FallbackValid
  <2>2. CASE ~Structured(Fallback(Segments[r]))
    <3> DEFINE At == [first : 0..Segments[r], last : 0..Segments[r]]
    <3>1. PICK s \in SeqsOf(At) : Valid(s, Segments[r]) /\ Structured(s)
      BY <2>2 DEF StructureAnswered, StructureFails
    <3>2. At \subseteq Section
      BY <1>1 DEF Section
    <3> HIDE DEF At
    <3> QED BY <3>1, <3>2, AnswerOK
  <2> QED BY <2>1, <2>2
<1> QED BY <1>1, <1>2, StructuredKeeps

\* A section is rewritten, or not.
LEMMA RewriteKeeps ==
    ASSUME IInv, NEW r \in Rows, Rewrite(r), [Next]_vars
    PROVE  IInv'
<1> DEFINE At == [at : 0..Segments[r], titled : BOOLEAN]
           section == sections[Len(rewrites) + 1]
<1>1. row = {r} /\ pc = "rewrite" /\ Segments[r] \in Nat /\ Video[r] \in Videos
  BY RowOK DEF Rewrite, IInv
<1>2. CASE Abandon
  BY <1>2, AbandonKeeps
<1>3. CASE ~Abandon
  <2>1. PICK s \in SeqsOf(At) :
            /\ ValidRewrite(s, section) /\ rewrites' = Append(rewrites, s)
            /\ pc' = IF Len(rewrites') = Len(sections) THEN "write" ELSE "rewrite"
            /\ UNCHANGED <<rows, row, sections, place, store>>
    BY <1>3 DEF Rewrite
  <2>2. s \in Seq(Subsection)
    <3>1. At \subseteq Subsection
      BY <1>1 DEF Subsection
    <3> HIDE DEF At
    <3> QED BY <2>1, <3>1, AnswerOK
  <2> HIDE DEF At
  <2>3. /\ rewrites \in Seq(Seq(Subsection)) /\ sections \in Seq(Section)
        /\ Valid(sections, Segments[r]) /\ Len(rewrites) < Len(sections)
        /\ Rewritten(sections, rewrites) /\ Untouched(Video[r]) /\ Segments[r] > 0
    BY <1>1 DEF IInv, TypeOK, CInv, Working
  <2>4. /\ rewrites' \in Seq(Seq(Subsection)) /\ Len(rewrites') = Len(rewrites) + 1
        /\ \A i \in 1..Len(rewrites) : rewrites'[i] = rewrites[i]
        /\ rewrites'[Len(rewrites) + 1] = s
        /\ Len(rewrites) \in Nat /\ Len(sections) \in Nat
    BY <2>1, <2>2, <2>3, LenProperties
  <2>5. UNCHANGED <<rows, row, sections, place, file, uploaded, marked, committed>>
    BY <2>1 DEF store
  <2>6. TypeOK'
    BY <1>1, <2>1, <2>4, <2>5, CountsType DEF IInv, TypeOK
  <2>7. Rewritten(sections', rewrites')
    <3> SUFFICES ASSUME NEW i \in 1..Len(rewrites') PROVE ValidRewrite(rewrites'[i], sections[i])
      BY <2>5 DEF Rewritten
    <3>1. CASE i \in 1..Len(rewrites)
      BY <2>3, <2>4, <3>1 DEF Rewritten
    <3>2. CASE i = Len(rewrites) + 1
      BY <2>1, <2>4, <3>2
    <3> QED BY <2>4, <3>1, <3>2
  <2>8. Untouched(Video[r])'
    BY <2>3, <2>5 DEF Untouched
  <2>9. \A p \in 1..Playlists : uploaded[Video[r]][p] = None
    BY <1>1, <2>3 DEF Untouched, IInv, CInv
  <2>10. CASE pc' = "rewrite"
    <3>1. Len(rewrites') < Len(sections')
      BY <2>1, <2>3, <2>4, <2>5, <2>10
    <3>2. Working(r)'
      <4>1. place = 1
        BY <1>1 DEF IInv, CInv, Working
      <4> QED BY <4>1, <2>3, <2>5, <2>7, <2>8, <2>10, <3>1 DEF Working, Delivering
    <3>3. ASSUME NEW v \in Videos PROVE Sound(Copies(v)', v)
      <4>1. Copies(v)' \subseteq Copies(v)
        BY <2>5, <2>10 DEF Copies, Held, Delivering
      <4> QED BY <4>1, SoundShrinks DEF IInv, CInv
    <3> QED BY <1>1, <2>5, <2>6, <2>10, <3>2, <3>3 DEF IInv, CInv, Sound, Delivering
  <2>11. CASE pc' = "write"
    <3>1. Good(InHand', Video[r])
      <4>1. Len(rewrites') = Len(sections')
        BY <2>1, <2>5, <2>11
      <4> QED BY <2>3, <2>5, <2>7, <4>1 DEF Good, GoodFor, InHand
    <3>2. InHand' # None
      BY <2>3, <2>5 DEF InHand, None, Valid
    <3>3. ASSUME NEW v \in Videos PROVE Sound(Copies(v)', v)
      <4>1. CASE v = Video[r]
        <5>1. Copies(v)' \subseteq {None, InHand'}
          BY <2>3, <2>5, <2>9, <4>1 DEF Copies, Untouched
        <5> QED BY <3>1, <4>1, <5>1 DEF Sound
      <4>2. CASE v # Video[r]
        <5>1. ~Held(v)'
          BY <1>1, <2>5, <4>2 DEF Held
        <5>2. Copies(v)' \subseteq Copies(v)
          BY <2>5, <5>1 DEF Copies
        <5> QED BY <5>2, SoundShrinks DEF IInv, CInv
      <4> QED BY <4>1, <4>2
    <3>4. Working(r)'
      <4>1. place = 1
        BY <1>1 DEF IInv, CInv, Working
      <4> QED BY <2>5, <2>11, <4>1 DEF Working, Delivering
    <3> QED BY <1>1, <2>5, <2>6, <3>2, <3>3, <3>4 DEF IInv, CInv, Sound
  <2> QED BY <2>1, <2>10, <2>11
<1> QED BY <1>2, <1>3

\* The file of a playlist is written.
LEMMA WriteKeeps ==
    ASSUME IInv, NEW r \in Rows, WriteFile(r), [Next]_vars
    PROVE  IInv'
<1>1. /\ row = {r} /\ pc = "write" /\ pc' = "upload"
      /\ UNCHANGED <<rows, row, sections, rewrites, place, uploaded, marked, committed>>
      /\ file' = [file EXCEPT ![Video[r]][place] = InHand]
  BY DEF WriteFile
<1>2. /\ Video[r] \in Videos /\ place \in 1..Playlists
      /\ file \in [Videos -> [1..Playlists -> Courses]]
      /\ InHand \in Courses /\ InHand # None
  <2>1. InHand # None
    BY <1>1 DEF IInv, CInv, Delivering
  <2> QED BY <1>1, <2>1, RowOK DEF IInv, TypeOK, InHand, Courses
<1>3. /\ file' \in [Videos -> [1..Playlists -> Courses]]
      /\ file'[Video[r]][place] = InHand
      /\ \A v \in Videos : \A p \in 1..Playlists :
            file'[v][p] = file[v][p] \/ (v = Video[r] /\ file'[v][p] = InHand)
  BY <1>1, <1>2
<1>4. TypeOK'
  BY <1>1, <1>3, CountsType DEF IInv, TypeOK
<1>5. Working(r)'
  BY <1>1, <1>2, <1>3 DEF Working, Delivering, IInv, CInv
<1>6. ASSUME NEW v \in Videos PROVE Sound(Copies(v)', v)
  <2>1. Held(v)' <=> Held(v)
    BY <1>1 DEF Held, Delivering
  <2>2. InHand' = InHand /\ Held(Video[r])
    BY <1>1 DEF InHand, Held, Delivering
  <2>3. Copies(v)' \subseteq Copies(v)
    BY <1>1, <1>3, <2>1, <2>2 DEF Copies
  <2> QED BY <2>3, SoundShrinks DEF IInv, CInv
<1>7. \A v \in Videos : \A p \in 1..Playlists : uploaded'[v][p] # None => file'[v][p] # None
  BY <1>1, <1>2, <1>3 DEF IInv, CInv
<1>8. InHand' # None
  BY <1>1, <1>2 DEF InHand
<1> QED BY <1>1, <1>4, <1>5, <1>6, <1>7, <1>8 DEF IInv, CInv, Sound

\* It is copied to Drive.
LEMMA UploadKeeps ==
    ASSUME IInv, NEW r \in Rows, Upload(r), [Next]_vars
    PROVE  IInv'
<1>1. /\ row = {r} /\ pc = "upload"
      /\ UNCHANGED <<rows, row, sections, rewrites, file, marked, committed>>
      /\ uploaded' = [uploaded EXCEPT ![Video[r]][place] = InHand]
      /\ \/ place = Playlists /\ pc' = "mark" /\ place' = place
         \/ place # Playlists /\ pc' = "write" /\ place' = place + 1
  BY DEF Upload
<1>2. /\ Video[r] \in Videos /\ place \in 1..Playlists
      /\ uploaded \in [Videos -> [1..Playlists -> Courses]]
      /\ InHand \in Courses /\ InHand # None
  <2>1. InHand # None
    BY <1>1 DEF IInv, CInv, Delivering
  <2> QED BY <1>1, <2>1, RowOK DEF IInv, TypeOK, InHand, Courses
<1>3. /\ uploaded' \in [Videos -> [1..Playlists -> Courses]]
      /\ uploaded'[Video[r]][place] = InHand
      /\ \A v \in Videos : \A p \in 1..Playlists :
            \/ uploaded'[v][p] = uploaded[v][p]
            \/ v = Video[r] /\ p = place /\ uploaded'[v][p] = InHand
  BY <1>1, <1>2
<1>4. TypeOK'
  <2>1. place' \in 1..Playlists /\ pc' \in {"mark", "write"}
    BY <1>1, <1>2
  <2> QED BY <1>1, <1>3, <2>1, CountsType DEF IInv, TypeOK
<1>5. Working(r)'
  <2>1. \A p \in 1..place : uploaded'[Video[r]][p] # None
    <3> TAKE p \in 1..place
    <3>1. CASE p = place
      BY <1>2, <1>3, <3>1
    <3>2. CASE p # place
      <4>1. p \in 1..(place - 1) /\ p \in 1..Playlists
        BY <1>2, <3>2
      <4>2. uploaded[Video[r]][p] # None
        BY <1>1, <4>1 DEF IInv, CInv, Working, Delivering
      <4> QED BY <1>2, <1>3, <4>1, <4>2
    <3> QED BY <3>1, <3>2
  <2>2. CASE pc' = "mark"
    BY <1>1, <1>2, <2>1, <2>2 DEF Working, Delivering
  <2>3. CASE pc' = "write"
    <3>1. place' - 1 = place
      BY <1>1, <1>2, <2>3
    <3> QED BY <1>1, <2>1, <2>3, <3>1 DEF Working, Delivering
  <2> QED BY <1>1, <2>2, <2>3
<1>6. Delivering' /\ Delivering /\ InHand' = InHand
  BY <1>1 DEF Delivering, InHand
<1>7. ASSUME NEW v \in Videos PROVE Sound(Copies(v)', v)
  <2>1. (Held(v)' <=> Held(v)) /\ Held(Video[r])
    BY <1>1, <1>6 DEF Held
  <2>2. Copies(v)' \subseteq Copies(v)
    BY <1>1, <1>3, <1>6, <2>1 DEF Copies
  <2> QED BY <2>2, SoundShrinks DEF IInv, CInv
<1>8. \A v \in Videos : \A p \in 1..Playlists : uploaded'[v][p] # None => file'[v][p] # None
  <2>1. file[Video[r]][place] # None
    BY <1>1 DEF IInv, CInv, Working
  <2> QED BY <1>1, <1>3, <2>1 DEF IInv, CInv
<1>9. \A q \in marked : \A p \in 1..Playlists : uploaded'[Video[q]][p] # None
  <2> TAKE q \in marked
  <2> TAKE p \in 1..Playlists
  <2>1. Video[q] \in Videos /\ uploaded[Video[q]][p] # None
    BY DEF IInv, CInv, TypeOK, Videos
  <2> QED BY <1>2, <1>3, <2>1
<1> QED BY <1>1, <1>2, <1>4, <1>5, <1>6, <1>7, <1>8, <1>9 DEF IInv, CInv, Sound

\* The row is done.
LEMMA MarkKeeps ==
    ASSUME IInv, NEW r \in Rows, Mark(r), [Next]_vars
    PROVE  IInv'
<1>0. <<>> \in Seq(Section) /\ <<>> \in Seq(Seq(Subsection))
  BY EmptySeq
<1>1. /\ row = {r} /\ pc = "mark" /\ pc' = "next" /\ row' = {} /\ marked' = marked \cup {r}
      /\ sections' = <<>> /\ rewrites' = <<>>
      /\ UNCHANGED <<rows, place, file, uploaded, committed>>
  BY DEF Mark
<1>2. TypeOK'
  BY <1>0, <1>1, CountsType DEF IInv, TypeOK
<1>3. \A q \in marked' : \A p \in 1..Playlists : uploaded[Video[q]][p] # None
  BY <1>1 DEF IInv, CInv, Working
<1>4. file \in [Videos -> [1..Playlists -> Courses]] /\ ~Delivering'
  BY <1>1 DEF IInv, TypeOK, Delivering
<1> QED BY <1>1, <1>2, <1>3, <1>4, Released DEF IInv

\* Initially there is nothing.
LEMMA InitKeeps == Init => IInv
<1> SUFFICES ASSUME Init PROVE IInv
  OBVIOUS
<1>0. <<>> \in Seq(Section) /\ <<>> \in Seq(Seq(Subsection)) /\ 1 \in 1..Playlists
  BY EmptySeq
<1>1. /\ file \in [Videos -> [1..Playlists -> Courses]] /\ uploaded = file
      /\ \A v \in Videos : \A p \in 1..Playlists : file[v][p] = None
  BY NoneOK DEF Init
<1>2. quota \in [1..Keys -> 0..Quota] /\ faults \in 0..MaxFaults
  BY DEF Init
<1>3. TypeOK
  BY <1>0, <1>1, <1>2 DEF Init, TypeOK
<1>4. ASSUME NEW v \in Videos PROVE Sound(Copies(v), v)
  <2>1. Copies(v) \subseteq {None}
    BY <1>1 DEF Copies, Held, Init
  <2> QED BY <2>1 DEF Sound
<1> QED BY <1>1, <1>3, <1>4 DEF IInv, CInv, Init, Delivering

\* The invariant is inductive.
LEMMA NextKeeps == IInv /\ [Next]_vars => IInv'
<1> SUFFICES ASSUME IInv, [Next]_vars PROVE IInv'
  OBVIOUS
<1>1. ASSUME NEW r \in Rows, Deliver(r) PROVE IInv'
  <2>1. CASE RewriteFails(r) \/ UploadFails(r)
    BY <2>1, AbandonKeeps DEF RewriteFails, UploadFails
  <2> QED BY <1>1, <2>1, BeginKeeps, StructureKeeps, RewriteKeeps, WriteKeeps, UploadKeeps,
             MarkKeeps DEF Deliver
<1> QED BY <1>1, OtherKeeps DEF Next

\* The inductive invariant holds in every reachable state.
THEOREM Invariance == Spec => []IInv
BY InitKeeps, NextKeeps, PTL DEF Spec

\* Type correctness.
THEOREM TypeCorrect == Spec => []TypeOK
<1>1. IInv => TypeOK
  BY DEF IInv
<1> QED BY <1>1, Invariance, PTL

\* Whatever is in a file is one of the copies of the video.
LEMMA FilesGood ==
    ASSUME IInv, NEW r \in Rows, NEW c \in Files(r)
    PROVE  c \in Courses /\ \E q \in Rows : Video[q] = Video[r] /\ GoodFor(c, Segments[q])
<1>1. Video[r] \in Videos
  BY DEF Videos
<1>2. PICK p \in 1..Playlists : c = file[Video[r]][p]
  BY DEF Files
<1>3. c # None /\ c # Torn
  BY DEF Files
<1>4. c \in Copies(Video[r]) \ {None, Torn}
  BY <1>2, <1>3 DEF Copies
<1>5. Good(c, Video[r])
  BY <1>1, <1>4 DEF IInv, CInv, Sound
<1> QED BY <1>1, <1>2, <1>5 DEF Good, IInv, TypeOK

\* A course has every segment of its transcript in exactly one section, and every
\* section rewritten, whatever the model answers and wherever a delivery fails.
THEOREM CoursesAreWhole == Spec => []CourseWhole
<1>1. IInv => CourseWhole
  <2> SUFFICES ASSUME IInv, NEW r \in Rows, NEW c \in Files(r)
               PROVE  \E q \in Rows : Video[q] = Video[r] /\ Whole(c, Segments[q])
    BY DEF CourseWhole
  <2>1. PICK q \in Rows : Video[q] = Video[r] /\ GoodFor(c, Segments[q])
    BY FilesGood
  <2>2. c \in Courses /\ Segments[q] \in Nat
    BY FilesGood
  <2> QED BY <2>1, <2>2, GoodIsWhole
<1> QED BY <1>1, Invariance, PTL

\* Its headings, read through all its sections, never go back in time.
THEOREM CoursesAreInOrder == Spec => []CourseInOrder
<1>1. IInv => CourseInOrder
  <2> SUFFICES ASSUME IInv, NEW r \in Rows, NEW c \in Files(r)
               PROVE  InOrder(c)
    BY DEF CourseInOrder
  <2>1. PICK q \in Rows : Video[q] = Video[r] /\ GoodFor(c, Segments[q])
    BY FilesGood
  <2>2. c \in Courses /\ Segments[q] \in Nat
    BY FilesGood
  <2> QED BY <2>1, <2>2, GoodIsInOrder
<1> QED BY <1>1, Invariance, PTL

\* A delivered video has one and the same course in the folders of all its playlists.
THEOREM CoursesReachAll == Spec => []DeliveredToAll
<1>1. IInv => DeliveredToAll
  <2> SUFFICES ASSUME IInv, NEW r \in marked
               PROVE  LET copies == {uploaded[Video[r]][p] : p \in 1..Playlists}
                      IN None \notin copies /\ Cardinality(copies \ {Torn}) <= 1
    BY DEF DeliveredToAll
  <2> DEFINE copies == {uploaded[Video[r]][p] : p \in 1..Playlists}
             whole == copies \ {Torn}
  <2>1. Video[r] \in Videos /\ None \notin copies
    BY DEF IInv, CInv, TypeOK, Videos
  <2>2. \A c, d \in whole : c = d
    <3>1. whole \subseteq Copies(Video[r]) \ {None, Torn}
      BY <2>1 DEF Copies
    <3> QED BY <2>1, <3>1 DEF IInv, CInv, Sound
  <2> HIDE DEF whole
  <2>3. Cardinality(whole) <= 1
    <3>1. CASE whole = {}
      BY <3>1, FS_EmptySet
    <3>2. CASE whole # {}
      <4>1. PICK c : whole = {c}
        BY <2>2, <3>2
      <4> QED BY <4>1, FS_Singleton
    <3> QED BY <3>1, <3>2
  <2> QED BY <2>1, <2>3 DEF whole
<1> QED BY <1>1, Invariance, PTL

\* No call is paid for a video that has a course: a failed delivery starts again
\* from the file.
THEOREM CoursesArePaidOnce == Spec => PaidOnce
<1>1. ASSUME IInv, [Next]_vars, NEW k \in 1..Keys, quota'[k] < quota[k]
      PROVE  \A r \in row : \A p \in 1..Playlists : file[Video[r]][p] = None
  <2>1. quota \in [1..Keys -> 0..Quota]
    BY <1>1 DEF IInv, TypeOK
  <2>2. pc \in {"structure", "rewrite"}
    BY <1>1, <2>1, Costs
  <2> QED BY <1>1, <2>2 DEF IInv, CInv, Working, Untouched
<1>2. IInv /\ [Next]_vars =>
        [(\E k \in 1..Keys : quota'[k] < quota[k]) =>
            \A r \in row : \A p \in 1..Playlists : file[Video[r]][p] = None]_vars
  BY <1>1
<1> QED BY <1>2, Invariance, PTL DEF Spec, PaidOnce
=============================================================================
