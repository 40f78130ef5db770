-------------------------- MODULE NotesSyncProofs --------------------------
(***************************************************************************)
(* What NotesSync promises for any hosts, rows and budgets.  Inv holds in   *)
(* every behaviour; Calm, in those without a restore, says what the cursors *)
(* promise of rows and pages; Kept, in those without a purge, that no row   *)
(* is dropped; Story, in those with neither, where the text of every edit   *)
(* is.                                                                      *)
(***************************************************************************)
EXTENDS NotesSync, FiniteSetTheorems, WellFoundedInduction, TLAPS

-----------------------------------------------------------------------------
(* Numbers and recursive definitions.                                      *)

(* A set of numbers has a least one: an induction over data is an argument
   about the least number at which a statement fails. *)
LEMMA LeastNumber ==
  ASSUME NEW T, T \subseteq Nat, T # {}
  PROVE  \E n \in T : \A m \in T : ~(m < n)
<1> DEFINE R == {ss \in Nat \X Nat : ss[1] < ss[2]}
<1>1. IsWellFoundedOn(R, Nat)
  BY NatLessThanWellFounded DEF OpToRel
<1> HIDE DEF R
<1>2. \E x \in T : \A y \in T : ~ (<<y, x>> \in R)
  BY <1>1, WFMin
<1> QED
  BY <1>2 DEF R

(* A finite set of numbers has a greatest one. *)
LEMMA GreatestNumber ==
  ASSUME NEW S \in SUBSET Nat, IsFiniteSet(S), S # {}
  PROVE  Newest(S) \in S /\ \A d \in S : d <= Newest(S)
<1> DEFINE T == {n \in Nat : \E U \in SUBSET Nat :
                   /\ IsFiniteSet(U) /\ U # {} /\ Cardinality(U) = n
                   /\ ~\E c \in U : \A d \in U : d <= c}
<1>1. ASSUME T # {} PROVE FALSE
  <2>1. PICK n \in T : \A m \in T : ~(m < n)
    <3>1. T \subseteq Nat
      OBVIOUS
    <3> HIDE DEF T
    <3> QED
      BY <1>1, <3>1, LeastNumber
  <2>2. PICK U \in SUBSET Nat : /\ IsFiniteSet(U) /\ U # {} /\ Cardinality(U) = n
                                /\ ~\E c \in U : \A d \in U : d <= c
    BY <2>1
  <2>3. PICK x \in U : TRUE
    BY <2>2
  <2> DEFINE V == U \ {x}
  <2>4. IsFiniteSet(V) /\ Cardinality(V) = n - 1 /\ n \in Nat
    BY <2>2, <2>3, <2>1, FS_RemoveElement
  <2>5. V # {}
    BY <2>2, <2>3
  <2>6. n - 1 \in Nat
    BY <2>4, FS_CardinalityType
  <2>7. n - 1 \notin T
    BY <2>1, <2>6
  <2>8. PICK c \in V : \A d \in V : d <= c
    BY <2>4, <2>5, <2>6, <2>7
  <2>9. c \in Nat /\ x \in Nat /\ V \subseteq Nat
    BY <2>8
  <2>10. CASE x <= c
    BY <2>2, <2>8, <2>10
  <2>11. CASE c < x
    <3>1. \A d \in U : d <= x
      BY <2>8, <2>9, <2>11
    <3> QED
      BY <2>2, <2>3, <3>1
  <2> QED
    BY <2>9, <2>10, <2>11
<1>2. Cardinality(S) \in Nat
  BY FS_CardinalityType
<1>3. \E c \in S : \A d \in S : d <= c
  BY <1>1, <1>2
<1> QED
  BY <1>3 DEF Newest

(* The rows of a page are applied one after another: what is left of a file
   after the first i of them is done[i]. *)
LEMMA AppliedInOrder ==
  ASSUME NEW h, NEW f, NEW rows, Len(rows) \in Nat
  PROVE  \E done : /\ done = [i \in 0..Len(rows) |->
                                IF i = 0 THEN [f |-> f, kept |-> kept]
                                ELSE ApplyRow(h, done[i - 1], rows[i])]
                   /\ ApplyRows(h, f, rows) = done[Len(rows)]
<1> DEFINE Runs(g, n) == g = [i \in 0..n |-> IF i = 0 THEN [f |-> f, kept |-> kept]
                                             ELSE ApplyRow(h, g[i - 1], rows[i])]
           T == {n \in Nat : ~\E g : Runs(g, n)}
<1>1. ASSUME T # {} PROVE FALSE
  <2>1. PICK n \in T : \A m \in T : ~(m < n)
    <3>1. T \subseteq Nat
      OBVIOUS
    <3> HIDE DEF T
    <3> QED
      BY <1>1, <3>1, LeastNumber
  <2>2. n # 0
    <3>1. Runs([i \in 0..0 |-> [f |-> f, kept |-> kept]], 0)
      OBVIOUS
    <3> HIDE DEF Runs
    <3> QED
      BY <2>1, <3>1
  <2>3. n - 1 \in Nat /\ n - 1 < n
    BY <2>1, <2>2
  <2>4. PICK g : Runs(g, n - 1)
    BY <2>1, <2>3
  <2> DEFINE e == [i \in 0..n |-> IF i = n THEN ApplyRow(h, g[n - 1], rows[n]) ELSE g[i]]
  <2>5. Runs(e, n)
    BY <2>1, <2>2, <2>3, <2>4
  <2> HIDE DEF Runs
  <2> QED
    BY <2>1, <2>5
<1>2. \E g : Runs(g, Len(rows))
  BY <1>1
<1> DEFINE d == CHOOSE g : Runs(g, Len(rows))
<1>3. Runs(d, Len(rows))
  <2> HIDE DEF Runs
  <2> QED
    BY <1>2
<1>4. ApplyRows(h, f, rows) = d[Len(rows)]
  BY DEF ApplyRows
<1> HIDE DEF d
<1> QED
  BY <1>3, <1>4

(* The clock is moved past every stamp of a page, and no further. *)
LEMMA HighestIs ==
  ASSUME NEW f, NEW rows, f.hlc \in Nat, Len(rows) \in Nat,
         \A i \in 1..Len(rows) : rows[i].v.at.clock \in Nat
  PROVE  /\ Highest(f, rows) \in Nat
         /\ Highest(f, rows) >= f.hlc
         /\ \A i \in 1..Len(rows) : Highest(f, rows) >= rows[i].v.at.clock
         /\ \/ Highest(f, rows) = f.hlc
            \/ \E i \in 1..Len(rows) : Highest(f, rows) = rows[i].v.at.clock
<1> DEFINE Runs(g, n) == g = [i \in 0..n |-> IF i = 0 THEN f.hlc
                                             ELSE Latest(g[i - 1], rows[i].v.at.clock)]
           T == {n \in Nat : ~\E g : Runs(g, n)}
<1>1. ASSUME T # {} PROVE FALSE
  <2>1. PICK n \in T : \A m \in T : ~(m < n)
    <3>1. T \subseteq Nat
      OBVIOUS
    <3> HIDE DEF T
    <3> QED
      BY <1>1, <3>1, LeastNumber
  <2>2. n # 0
    <3>1. Runs([i \in 0..0 |-> f.hlc], 0)
      OBVIOUS
    <3> HIDE DEF Runs
    <3> QED
      BY <2>1, <3>1
  <2>3. n - 1 \in Nat /\ n - 1 < n
    BY <2>1, <2>2
  <2>4. PICK g : Runs(g, n - 1)
    BY <2>1, <2>3
  <2> DEFINE e == [i \in 0..n |-> IF i = n THEN Latest(g[n - 1], rows[n].v.at.clock) ELSE g[i]]
  <2>5. Runs(e, n)
    BY <2>1, <2>2, <2>3, <2>4
  <2> HIDE DEF Runs
  <2> QED
    BY <2>1, <2>5
<1>2. \E g : Runs(g, Len(rows))
  BY <1>1
<1> DEFINE d == CHOOSE g : Runs(g, Len(rows))
<1>3. Runs(d, Len(rows))
  <2> HIDE DEF Runs
  <2> QED
    BY <1>2
<1>4. Highest(f, rows) = d[Len(rows)]
  BY DEF Highest
<1> HIDE DEF d, T
<1>5. d[0] = f.hlc /\ \A i \in 1..Len(rows) : d[i] = Latest(d[i - 1], rows[i].v.at.clock)
  BY <1>3
<1> HIDE DEF Runs
<1> DEFINE Bounds(n) == /\ d[n] \in Nat /\ d[n] >= f.hlc
                        /\ \A i \in 1..n : d[n] >= rows[i].v.at.clock
                        /\ d[n] = f.hlc \/ \E i \in 1..n : d[n] = rows[i].v.at.clock
           S == {n \in 0..Len(rows) : ~Bounds(n)}
<1>6. ASSUME S # {} PROVE FALSE
  <2>1. PICK n \in S : \A m \in S : ~(m < n)
    <3>1. S \subseteq Nat
      OBVIOUS
    <3> HIDE DEF S
    <3> QED
      BY <1>6, <3>1, LeastNumber
  <2>2. n # 0
    BY <1>5, <2>1
  <2>3. n - 1 \in 0..Len(rows) /\ n - 1 < n /\ n \in 1..Len(rows)
    BY <2>1, <2>2
  <2>4. Bounds(n - 1)
    BY <2>1, <2>3
  <2>5. d[n] = Latest(d[n - 1], rows[n].v.at.clock) /\ rows[n].v.at.clock \in Nat
    BY <1>5, <2>3
  <2>6. \A i \in 1..n : i = n \/ i \in 1..(n - 1)
    BY <2>3
  <2>7. Bounds(n)
    BY <2>3, <2>4, <2>5, <2>6 DEF Latest
  <2> QED
    BY <2>1, <2>7
<1>7. Bounds(Len(rows))
  BY <1>6
<1> QED
  BY <1>4, <1>7

-----------------------------------------------------------------------------
(* Stamps are in one order.                                                *)

NotBefore(s, t) == ~Later(t, s)

LEMMA NotBeforeIsOrder ==
  ASSUME NEW s \in Stamp, NEW t \in Stamp
  PROVE  /\ NotBefore(s, s)
         /\ NotBefore(s, t) \/ NotBefore(t, s)
         /\ NotBefore(s, t) /\ NotBefore(t, s) => s = t
         /\ Later(s, t) => NotBefore(s, t)
         /\ s.clock > t.clock => Later(s, t)
         /\ NotBefore(s, t) => s.clock >= t.clock
         /\ \A u \in Stamp : NotBefore(s, t) /\ NotBefore(t, u) => NotBefore(s, u)
<1>1. s.origin \in Nat /\ t.origin \in Nat /\ s.clock \in Nat /\ t.clock \in Nat
  BY SyncAssumption DEF SyncAssumption, Stamp
<1>2. s.clock = t.clock /\ s.origin = t.origin => s = t
  BY DEF Stamp
<1>3. ASSUME NEW u \in Stamp, NotBefore(s, t), NotBefore(t, u) PROVE NotBefore(s, u)
  <2>1. u.origin \in Nat /\ u.clock \in Nat
    BY SyncAssumption DEF SyncAssumption, Stamp
  <2> QED
    BY <1>1, <1>3, <2>1 DEF NotBefore, Later
<1> QED
  BY <1>1, <1>2, <1>3 DEF NotBefore, Later

(* Every host of two or more has a peer to pull from next. *)
LEMMA NextPeerIs ==
  ASSUME NEW h \in Host, Peers(h) # {}
  PROVE  NextPeer(h) \in Peers(h)
<1> DEFINE p == pull[h].peer
           after == {q \in Peers(h) : q > p}
           from == IF after = {} THEN Peers(h) ELSE after
<1>1. from # {} /\ from \subseteq Peers(h) /\ from \subseteq Nat
  BY SyncAssumption DEF SyncAssumption, Peers
<1>2. NextPeer(h) = CHOOSE q \in from : \A r \in from : q <= r
  BY DEF NextPeer
<1> HIDE DEF from
<1>3. PICK q \in from : \A r \in from : ~(r < q)
  BY <1>1, LeastNumber
<1>4. \A r \in from : q <= r
  BY <1>1, <1>3
<1> QED
  BY <1>1, <1>2, <1>3, <1>4

-----------------------------------------------------------------------------
(* A page.                                                                 *)

(* A page holds every row whose change number lies between the cursor it was
   asked for and the cursor it gives, each as it stands in the file. *)
LEMMA PageIsComplete ==
  ASSUME NEW f \in File, NEW since \in Nat, since <= f.seq,
         \A k \in Rows(f) : f.row[k].seq <= f.seq,
         \A j, k \in Rows(f) : f.row[j].seq = f.row[k].seq => j = k
  PROVE  LET page == PageOf(f, since)
         IN /\ page.db = f.id
            /\ page.rows \in Seq([key: Key, v: Version])
            /\ \A i \in 1..Len(page.rows) :
                 page.rows[i].key \in Rows(f) /\ page.rows[i].v = f.row[page.rows[i].key]
            /\ page.next \in Nat /\ since <= page.next /\ page.next <= f.seq
            /\ page.more \in BOOLEAN
            /\ \A k \in Rows(f) : since < f.row[k].seq /\ f.row[k].seq <= page.next
                 => \E i \in 1..Len(page.rows) : page.rows[i].key = k
<1> DEFINE after == After(f, since)
           upto(k) == {j \in after : f.row[j].seq <= f.row[k].seq}
           n == Cardinality(after)
           rank == [k \in after |-> Cardinality(upto(k))]
           order == [i \in 1..n |-> CHOOSE k \in after : Cardinality(upto(k)) = i]
           m == IF Len(order) < Limit THEN Len(order) ELSE Limit
           sent == SubSeq(order, 1, m)
           page == PageOf(f, since)
<1>1. /\ after \subseteq Rows(f) /\ Rows(f) \subseteq Key
      /\ \A k \in Rows(f) : f.row[k] \in Version /\ f.row[k].seq \in Nat
      /\ \A k \in after : f.row[k].seq > since
  BY DEF After, Rows, File, Version
<1>2. IsFiniteSet(after) /\ n \in Nat
  <2>1. IsFiniteSet(after)
    BY <1>1, SyncAssumption, FS_Subset DEF SyncAssumption
  <2> QED
    BY <2>1, FS_CardinalityType
<1>u. \A k \in after : upto(k) \subseteq after /\ \A j \in after : j \in upto(k) <=> f.row[j].seq <= f.row[k].seq
  OBVIOUS
<1>a. \A k \in Rows(f) : k \in after <=> f.row[k].seq > since
  BY DEF After
<1> HIDE DEF after, upto
<1>3. \A k \in after : /\ IsFiniteSet(upto(k)) /\ Cardinality(upto(k)) \in 1..n
  <2> SUFFICES ASSUME NEW k \in after
               PROVE  IsFiniteSet(upto(k)) /\ Cardinality(upto(k)) \in 1..n
    OBVIOUS
  <2>1. upto(k) \in SUBSET after
    BY <1>u
  <2>2. IsFiniteSet(upto(k)) /\ Cardinality(upto(k)) <= n
    BY <1>2, <2>1, FS_Subset
  <2>3. k \in upto(k)
    BY <1>1, <1>u
  <2>4. upto(k) # {}
    BY <2>3
  <2>5. Cardinality(upto(k)) \in Nat /\ Cardinality(upto(k)) # 0
    BY <2>2, <2>4, FS_EmptySet, FS_CardinalityType
  <2> QED
    BY <1>2, <2>2, <2>5
(* A row that was changed earlier has the lower rank. *)
<1>4. \A j, k \in after : f.row[j].seq < f.row[k].seq => Cardinality(upto(j)) < Cardinality(upto(k))
  <2> SUFFICES ASSUME NEW j \in after, NEW k \in after, f.row[j].seq < f.row[k].seq
               PROVE  Cardinality(upto(j)) < Cardinality(upto(k))
    OBVIOUS
  <2>1. upto(j) \in SUBSET upto(k)
    BY <1>1, <1>u
  <2>2. k \in upto(k) /\ k \notin upto(j)
    BY <1>1, <1>u
  <2>3. IsFiniteSet(upto(k)) /\ Cardinality(upto(j)) \in Nat /\ Cardinality(upto(k)) \in Nat
    BY <1>2, <1>3
  <2>4. /\ Cardinality(upto(j)) <= Cardinality(upto(k))
        /\ Cardinality(upto(k)) = Cardinality(upto(j)) => upto(k) = upto(j)
    BY <2>1, <2>3, FS_Subset
  <2> QED
    BY <2>2, <2>3, <2>4
<1>5. \A j, k \in after : Cardinality(upto(j)) = Cardinality(upto(k)) => j = k
  <2> SUFFICES ASSUME NEW j \in after, NEW k \in after,
                      Cardinality(upto(j)) = Cardinality(upto(k)), j # k
               PROVE  FALSE
    OBVIOUS
  <2>1. f.row[j].seq < f.row[k].seq \/ f.row[k].seq < f.row[j].seq
    BY <1>1
  <2>2. Cardinality(upto(j)) \in Nat /\ Cardinality(upto(k)) \in Nat
    BY <1>2, <1>3
  <2> QED
    BY <1>4, <2>1, <2>2
(* So there is a row of every rank. *)
<1>6. \A i \in 1..n : \E k \in after : Cardinality(upto(k)) = i
  <2>1. rank \in Injection(after, 1..n)
    <3>1. rank \in [after -> 1..n]
      BY <1>3
    <3>2. \A j, k \in after : rank[j] = rank[k] => j = k
      BY <1>5
    <3> HIDE DEF rank
    <3> QED
      BY <3>1, <3>2 DEF Injection, IsInjective
  <2>2. IsFiniteSet(1..n) /\ Cardinality(1..n) = n
    BY <1>2, FS_Interval
  <2> HIDE DEF rank
  <2>3. rank \in Surjection(after, 1..n)
    BY <1>2, <2>1, <2>2, FS_Injection
  <2>4. \A i \in 1..n : \E k \in after : rank[k] = i
    BY <2>3 DEF Surjection
  <2> QED
    BY <2>4 DEF rank
<1>7. \A i \in 1..n : order[i] \in after /\ Cardinality(upto(order[i])) = i
  BY <1>6
<1>8. page = [db |-> f.id,
              rows |-> [i \in DOMAIN sent |-> [key |-> sent[i], v |-> f.row[sent[i]]]],
              next |-> IF sent = <<>> THEN since ELSE f.row[sent[Len(sent)]].seq,
              more |-> Len(order) > Limit]
  BY DEF PageOf, after, upto
<1> HIDE DEF page
<1>9. order \in Seq(after) /\ Len(order) = n
  <2> QED
    BY <1>2, <1>7
<1>10. m \in 0..n /\ (n > 0 => m > 0)
  BY <1>2, <1>9, SyncAssumption DEF SyncAssumption
<1>11. sent \in Seq(after) /\ Len(sent) = m /\ \A i \in 1..m : sent[i] = order[i]
  <2> HIDE DEF order, m
  <2> QED
    BY <1>2, <1>9, <1>10
<1>12. DOMAIN sent = 1..m /\ \A i \in 1..m : sent[i] \in after /\ Cardinality(upto(sent[i])) = i
  <2> HIDE DEF sent, m, order
  <2> QED
    BY <1>2, <1>7, <1>10, <1>11
<1> HIDE DEF sent, m, order, rank
<1>13. /\ Len(page.rows) = m
       /\ page.rows \in Seq([key: Key, v: Version])
       /\ \A i \in 1..m : page.rows[i].key = sent[i] /\ page.rows[i].v = f.row[sent[i]]
  <2>1. page.rows = [i \in 1..m |-> [key |-> sent[i], v |-> f.row[sent[i]]]]
    BY <1>8, <1>12
  <2>2. \A i \in 1..m : [key |-> sent[i], v |-> f.row[sent[i]]] \in [key: Key, v: Version]
    BY <1>1, <1>12
  <2> QED
    BY <1>10, <1>2, <2>1, <2>2
<1>14. /\ m = 0 => page.next = since
       /\ m > 0 => page.next = f.row[sent[m]].seq /\ sent[m] \in after
  BY <1>8, <1>10, <1>11, <1>12
<1>15. page.next \in Nat /\ since <= page.next /\ page.next <= f.seq
  BY <1>1, <1>10, <1>14 DEF File
<1>16. ASSUME NEW k \in Rows(f), since < f.row[k].seq, f.row[k].seq <= page.next
       PROVE  \E i \in 1..m : sent[i] = k
  <2>1. k \in after
    BY <1>16, <1>a
  <2>2. m > 0 /\ sent[m] \in after
    BY <1>1, <1>10, <1>14, <1>16
  <2>3. f.row[k].seq < f.row[sent[m]].seq \/ k = sent[m]
    BY <1>1, <1>14, <1>16, <2>2
  <2>4. Cardinality(upto(k)) \in 1..n
    BY <1>3, <2>1
  <2>5. Cardinality(upto(k)) <= m
    <3>1. Cardinality(upto(sent[m])) = m
      BY <1>12, <1>10, <1>2, <2>2
    <3> QED
      BY <1>4, <2>1, <2>2, <2>3, <2>4, <3>1, <1>10, <1>2
  <2> DEFINE i == Cardinality(upto(k))
  <2>6. i \in 1..m
    BY <2>4, <2>5, <1>2, <1>10
  <2>7. Cardinality(upto(sent[i])) = i /\ sent[i] \in after
    BY <2>6, <1>12
  <2>8. sent[i] = k
    BY <1>5, <2>1, <2>7
  <2> QED
    BY <2>6, <2>8
<1>17. page.db = f.id /\ page.more \in BOOLEAN
  BY <1>8
<1>18. \A i \in 1..Len(page.rows) : page.rows[i].key \in Rows(f) /\ page.rows[i].v = f.row[page.rows[i].key]
  BY <1>1, <1>12, <1>13
<1>19. \A k \in Rows(f) : since < f.row[k].seq /\ f.row[k].seq <= page.next
         => \E i \in 1..Len(page.rows) : page.rows[i].key = k
  BY <1>13, <1>16
<1> QED
  BY <1>13, <1>15, <1>17, <1>18, <1>19 DEF page

-----------------------------------------------------------------------------
(* What holds of every copy of the file.                                   *)

Plain(v) == [v EXCEPT !.seq = 0]

Text == [by: Host, key: Key, over: SUBSET Nat]

(* A version of row k: its text is known, it is newer than what it was built
   on, and an upload that is there holds its client id. t: the texts. *)
Sound(t, k, v) ==
  /\ v.text \in DOMAIN t /\ t[v.text].key = k
  /\ v.base # None => v.base.clock < v.at.clock
  /\ RowKind[k] = "upload" /\ ~v.dead => v.holds

(* A copy of the file while a page is applied, at wall clock n: the stamps are
   near it, and the change numbers tell the rows apart. *)
Orderly(t, n, f) ==
  /\ f \in File
  /\ f.hlc <= n + MaxAhead + f.seq
  /\ \A p \in Host : f.served[p] <= f.seq /\ f.handed[p] <= f.seq
  /\ \A k \in Rows(f) :
       /\ Sound(t, k, f.row[k])
       /\ f.row[k].seq <= f.seq
       /\ f.row[k].at.clock <= f.hlc \/ f.row[k].at.clock <= n + MaxAhead
  /\ \A j, k \in Rows(f) : f.row[j].seq = f.row[k].seq => j = k
  /\ \A j, k \in Rows(f) : Shares(j, k) => ~(f.row[j].holds /\ f.row[k].holds)

(* Between two steps its clock is past every stamp in it. *)
Proper(t, n, f) == Orderly(t, n, f) /\ \A k \in Rows(f) : f.row[k].at.clock <= f.hlc

(* g is f with a version of h's own as row k. *)
Touched(h, f, g, k) ==
  /\ k \in Rows(g) /\ g.row[k].at.origin = h
  /\ f.hlc < g.row[k].at.clock /\ g.row[k].at.clock <= g.hlc
  /\ f.seq < g.row[k].seq

Continues(f, g) ==
  /\ f.hlc <= g.hlc /\ f.seq <= g.seq
  /\ g.id = f.id /\ g.served = f.served /\ g.handed = f.handed /\ g.peer = f.peer

(* h made g of f by itself. *)
Written(h, f, g) ==
  Continues(f, g) /\ \A k \in Key : g.row[k] = f.row[k] \/ Touched(h, f, g, k)

More(t, u) ==
  /\ DOMAIN t \subseteq DOMAIN u
  /\ \A i \in DOMAIN t : u[i].key = t[i].key

LEMMA ProperStays ==
  ASSUME NEW t, NEW u, NEW n \in Nat, NEW m \in Nat, NEW f, n <= m, More(t, u), Proper(t, n, f)
  PROVE  Proper(u, m, f)
<1>1. f \in File /\ \A k \in Rows(f) : f.row[k] \in Version
  BY DEF Proper, Orderly, File, Rows
<1>2. MaxAhead \in Nat /\ f.hlc \in Nat /\ f.seq \in Nat
  BY <1>1, SyncAssumption DEF SyncAssumption, File
<1>3. \A k \in Rows(f) : Sound(u, k, f.row[k])
  BY DEF Proper, Orderly, Sound, More
<1>4. \A k \in Rows(f) : f.row[k].at.clock \in Nat
  BY <1>1 DEF Version, Stamp
<1>5. f.hlc <= m + MaxAhead + f.seq
  BY <1>2 DEF Proper, Orderly
<1> QED
  BY <1>1, <1>2, <1>3, <1>4, <1>5 DEF Proper, Orderly

(* An edit of a row by this host. *)
LEMMA EditedIs ==
  ASSUME NEW h \in Host, NEW t, now[h] \in Nat, NEW f, Proper(t, now[h], f),
         NEW k \in Rows(f), NEW v \in Version, v.text \in DOMAIN t, t[v.text].key = k,
         RowKind[k] = "upload" /\ ~v.dead => v.holds,
         v.holds => \A j \in Rows(f) : Shares(j, k) => ~f.row[j].holds
  PROVE  LET g == Edited(f, h, k, v)
         IN /\ Proper(t, now[h], g)
            /\ Written(h, f, g)
            /\ Touched(h, f, g, k)
            /\ \A j \in Key \ {k} : g.row[j] = f.row[j]
            /\ g.row[k].text = v.text /\ g.row[k].dead = v.dead /\ g.row[k].holds = v.holds
<1> DEFINE g == Edited(f, h, k, v)
           clock == NextClock(h, f.hlc)
           x == [v EXCEPT !.at = [clock |-> clock, origin |-> h],
                          !.base = BaseOf(h, f.row[k]), !.seq = f.seq + 1]
<1>0. /\ x.at = [clock |-> clock, origin |-> h] /\ x.seq = f.seq + 1 /\ x.base = BaseOf(h, f.row[k])
      /\ x.text = v.text /\ x.dead = v.dead /\ x.holds = v.holds
      /\ x = [at |-> x.at, base |-> x.base, dead |-> x.dead, holds |-> x.holds,
              text |-> x.text, seq |-> x.seq]
  <2> HIDE DEF clock
  <2> DEFINE b == BaseOf(h, f.row[k])
             a == [clock |-> clock, origin |-> h]
  <2>1. x = [v EXCEPT !.at = a, !.base = b, !.seq = f.seq + 1]
    OBVIOUS
  <2> HIDE DEF a, b, x
  <2>2. v = [at |-> v.at, base |-> v.base, dead |-> v.dead, holds |-> v.holds,
             text |-> v.text, seq |-> v.seq]
    BY DEF Version
  <2>3. /\ x.at = a /\ x.seq = f.seq + 1 /\ x.base = b
        /\ x.text = v.text /\ x.dead = v.dead /\ x.holds = v.holds
        /\ x = [at |-> x.at, base |-> x.base, dead |-> x.dead, holds |-> x.holds,
                text |-> x.text, seq |-> x.seq]
    BY <2>1, <2>2
  <2> QED
    BY <2>3 DEF a, b
<1>1. f \in File /\ (\A j \in Rows(f) : f.row[j] \in Version) /\ k \in Key /\ Rows(f) \subseteq Key
  BY DEF Proper, Orderly, File, Rows
<1>2. f.hlc \in Nat /\ f.seq \in Nat /\ MaxAhead \in Nat
  BY <1>1, SyncAssumption DEF SyncAssumption, File
<1>3. clock \in Nat /\ clock > f.hlc /\ clock <= now[h] + MaxAhead + f.seq + 1
  <2>1. f.hlc <= now[h] + MaxAhead + f.seq
    BY DEF Proper, Orderly
  <2> QED
    BY <1>2, <2>1 DEF NextClock, Latest
<1>4. [clock |-> clock, origin |-> h] \in Stamp
  BY <1>3 DEF Stamp
<1>5. /\ BaseOf(h, f.row[k]) \in Stamp \union {None}
      /\ BaseOf(h, f.row[k]) # None => BaseOf(h, f.row[k]).clock < clock
  <2>1. f.row[k].at \in Stamp /\ f.row[k].base \in Stamp \union {None} /\ f.row[k].at.clock \in Nat
    BY <1>1 DEF Version, Stamp
  <2>2. f.row[k].at.clock <= f.hlc
    BY DEF Proper
  <2>3. f.row[k].base # None => f.row[k].base.clock < f.row[k].at.clock /\ f.row[k].base.clock \in Nat
    BY <2>1 DEF Proper, Orderly, Sound, Stamp
  <2> QED
    BY <1>2, <1>3, <2>1, <2>2, <2>3 DEF BaseOf
<1>6. /\ x \in Version /\ x.at = [clock |-> clock, origin |-> h] /\ x.seq = f.seq + 1
      /\ x.base = BaseOf(h, f.row[k])
      /\ x.text = v.text /\ x.dead = v.dead /\ x.holds = v.holds
  <2> HIDE DEF x, clock
  <2>1. /\ x.at \in Stamp /\ x.base \in Stamp \union {None} /\ x.dead \in BOOLEAN /\ x.holds \in BOOLEAN
        /\ x.text \in Nat /\ x.seq \in Nat
    BY <1>0, <1>2, <1>4, <1>5 DEF Version
  <2> QED
    BY <1>0, <2>1 DEF Version
<1> HIDE DEF x
<1>7. g = [f EXCEPT !.seq = @ + 1, !.hlc = clock, !.row[k] = x]
  BY DEF Edited, x
<1>8. /\ g \in File /\ g.seq = f.seq + 1 /\ g.hlc = clock /\ g.row = [f.row EXCEPT ![k] = x]
      /\ g.id = f.id /\ g.served = f.served /\ g.handed = f.handed /\ g.peer = f.peer
  <2> HIDE DEF g, clock
  <2>1. /\ g.seq = f.seq + 1 /\ g.hlc = clock /\ g.row = [f.row EXCEPT ![k] = x]
        /\ g.id = f.id /\ g.served = f.served /\ g.handed = f.handed /\ g.peer = f.peer
        /\ g = [row |-> g.row, seq |-> g.seq, hlc |-> g.hlc, id |-> g.id, served |-> g.served,
                handed |-> g.handed, peer |-> g.peer]
    BY <1>1, <1>7 DEF File
  <2>2. g.row \in [Key -> Version \union {None}]
    BY <1>1, <1>6, <2>1 DEF File
  <2>3. /\ g.seq \in Nat /\ g.hlc \in Nat /\ g.id \in Nat
        /\ g.served \in [Host -> Nat] /\ g.handed \in [Host -> Nat]
        /\ g.peer \in [Host -> [db: Nat, cursor: Nat]]
    <3>1. f.id \in Nat /\ f.served \in [Host -> Nat] /\ f.handed \in [Host -> Nat]
          /\ f.peer \in [Host -> [db: Nat, cursor: Nat]]
      BY <1>1 DEF File
    <3> QED
      BY <1>2, <1>3, <2>1, <3>1
  <2> QED
    BY <2>1, <2>2, <2>3 DEF File
<1> HIDE DEF g, clock
<1>9. x # None
  BY <1>6, SyncAssumption DEF SyncAssumption
<1>10. /\ g.row[k] = x /\ \A j \in Key \ {k} : g.row[j] = f.row[j]
       /\ Rows(g) = Rows(f)
  BY <1>1, <1>8, <1>9 DEF Rows, File
<1>11. Sound(t, k, x)
  BY <1>5, <1>6 DEF Sound
<1>12. \A j \in Rows(g) : j # k => g.row[j] = f.row[j] /\ g.row[j].seq <= f.seq /\ g.row[j].at.clock <= f.hlc
                                   /\ Sound(t, j, g.row[j]) /\ g.row[j].seq \in Nat /\ g.row[j].at.clock \in Nat
  BY <1>1, <1>10 DEF Proper, Orderly, Version, Stamp
<1>13. \A i, j \in Rows(g) : g.row[i].seq = g.row[j].seq => i = j
  BY <1>2, <1>6, <1>10, <1>12 DEF Proper, Orderly
<1>14. \A i, j \in Rows(g) : Shares(i, j) => ~(g.row[i].holds /\ g.row[j].holds)
  <2>1. \A i, j \in Rows(f) : Shares(i, j) => ~(f.row[i].holds /\ f.row[j].holds)
    BY DEF Proper, Orderly
  <2>2. \A i, j \in Key : Shares(i, j) => Shares(j, i) /\ i # j
    BY DEF Shares
  <2> QED
    BY <1>1, <1>6, <1>10, <2>1, <2>2
<1>15. \A j \in Rows(g) : g.row[j].at.clock <= g.hlc /\ g.row[j].seq <= g.seq /\ Sound(t, j, g.row[j])
  BY <1>2, <1>3, <1>6, <1>8, <1>10, <1>11, <1>12
<1>16. \A p \in Host : g.served[p] <= g.seq /\ g.handed[p] <= g.seq
  <2>1. \A p \in Host : f.served[p] <= f.seq /\ f.handed[p] <= f.seq /\ f.served[p] \in Nat /\ f.handed[p] \in Nat
    BY <1>1 DEF Proper, Orderly, File
  <2> QED
    BY <1>2, <1>8, <2>1
<1>17. Proper(t, now[h], g)
  BY <1>2, <1>3, <1>8, <1>13, <1>14, <1>15, <1>16 DEF Proper, Orderly
<1>18. Touched(h, f, g, k)
  BY <1>1, <1>2, <1>3, <1>6, <1>8, <1>10 DEF Touched
<1>19. Written(h, f, g)
  BY <1>2, <1>3, <1>8, <1>10, <1>18 DEF Written, Continues
<1> QED
  BY <1>6, <1>10, <1>17, <1>18, <1>19 DEF g

(* A row that this host makes. *)
LEMMA InsertedIs ==
  ASSUME NEW h \in Host, NEW t, now[h] \in Nat, NEW f, Proper(t, now[h], f),
         NEW k \in Key, f.row[k] = None,
         Len(texts) \in Nat, Len(texts) + 1 \in DOMAIN t, t[Len(texts) + 1].key = k,
         \A j \in Rows(f) : Shares(j, k) => ~f.row[j].holds
  PROVE  LET g == Inserted(f, h, k)
         IN /\ Proper(t, now[h], g)
            /\ Written(h, f, g)
            /\ Touched(h, f, g, k)
            /\ \A j \in Key \ {k} : g.row[j] = f.row[j]
            /\ g.row[k].text = Len(texts) + 1
<1> DEFINE g == Inserted(f, h, k)
           clock == NextClock(h, f.hlc)
           x == [at |-> [clock |-> clock, origin |-> h], base |-> None, dead |-> FALSE,
                 holds |-> RowKind[k] # "note", text |-> Len(texts) + 1, seq |-> f.seq + 1]
<1>1. f \in File /\ (\A j \in Rows(f) : f.row[j] \in Version) /\ Rows(f) \subseteq Key
  BY DEF Proper, Orderly, File, Rows
<1>2. f.hlc \in Nat /\ f.seq \in Nat /\ MaxAhead \in Nat
  BY <1>1, SyncAssumption DEF SyncAssumption, File
<1>3. clock \in Nat /\ clock > f.hlc /\ clock <= now[h] + MaxAhead + f.seq + 1
  <2>1. f.hlc <= now[h] + MaxAhead + f.seq
    BY DEF Proper, Orderly
  <2> QED
    BY <1>2, <2>1 DEF NextClock, Latest
<1> HIDE DEF clock
<1>4. [clock |-> clock, origin |-> h] \in Stamp
  BY <1>3 DEF Stamp
<1>6. /\ x \in Version /\ x.at = [clock |-> clock, origin |-> h] /\ x.seq = f.seq + 1
      /\ x.base = None /\ x.text = Len(texts) + 1 /\ ~x.dead /\ x.holds = (RowKind[k] # "note")
  BY <1>2, <1>4 DEF Version
<1> HIDE DEF x
<1>7. g = [f EXCEPT !.seq = @ + 1, !.hlc = clock, !.row[k] = x]
  BY DEF Inserted, x, clock
<1>8. /\ g \in File /\ g.seq = f.seq + 1 /\ g.hlc = clock /\ g.row = [f.row EXCEPT ![k] = x]
      /\ g.id = f.id /\ g.served = f.served /\ g.handed = f.handed /\ g.peer = f.peer
  <2> HIDE DEF g, clock
  <2>1. /\ g.seq = f.seq + 1 /\ g.hlc = clock /\ g.row = [f.row EXCEPT ![k] = x]
        /\ g.id = f.id /\ g.served = f.served /\ g.handed = f.handed /\ g.peer = f.peer
        /\ g = [row |-> g.row, seq |-> g.seq, hlc |-> g.hlc, id |-> g.id, served |-> g.served,
                handed |-> g.handed, peer |-> g.peer]
    BY <1>1, <1>7 DEF File
  <2>2. g.row \in [Key -> Version \union {None}]
    BY <1>1, <1>6, <2>1 DEF File
  <2>3. /\ g.seq \in Nat /\ g.hlc \in Nat /\ g.id \in Nat
        /\ g.served \in [Host -> Nat] /\ g.handed \in [Host -> Nat]
        /\ g.peer \in [Host -> [db: Nat, cursor: Nat]]
    <3>1. f.id \in Nat /\ f.served \in [Host -> Nat] /\ f.handed \in [Host -> Nat]
          /\ f.peer \in [Host -> [db: Nat, cursor: Nat]]
      BY <1>1 DEF File
    <3>2. f.seq + 1 \in Nat /\ clock \in Nat
      BY <1>2, <1>3
    <3> QED
      BY <2>1, <3>1, <3>2, Zenon
  <2> QED
    BY <2>1, <2>2, <2>3 DEF File
<1> HIDE DEF g
<1>9. x # None
  BY <1>6, SyncAssumption DEF SyncAssumption
<1>10. /\ g.row[k] = x /\ \A j \in Key \ {k} : g.row[j] = f.row[j]
       /\ Rows(g) = Rows(f) \union {k} /\ k \notin Rows(f)
  BY <1>1, <1>8, <1>9 DEF Rows, File
<1>11. Sound(t, k, x)
  BY <1>6 DEF Sound
<1>12. \A j \in Rows(g) : j # k => g.row[j] = f.row[j] /\ g.row[j].seq <= f.seq /\ g.row[j].at.clock <= f.hlc
                                   /\ Sound(t, j, g.row[j]) /\ g.row[j].seq \in Nat /\ g.row[j].at.clock \in Nat
  BY <1>1, <1>10 DEF Proper, Orderly, Version, Stamp
<1>13. \A i, j \in Rows(g) : g.row[i].seq = g.row[j].seq => i = j
  BY <1>2, <1>6, <1>10, <1>12 DEF Proper, Orderly
<1>14. \A i, j \in Rows(g) : Shares(i, j) => ~(g.row[i].holds /\ g.row[j].holds)
  <2>1. \A i, j \in Rows(f) : Shares(i, j) => ~(f.row[i].holds /\ f.row[j].holds)
    BY DEF Proper, Orderly
  <2>2. \A i, j \in Key : Shares(i, j) => Shares(j, i) /\ i # j
    BY DEF Shares
  <2> QED
    BY <1>1, <1>6, <1>10, <2>1, <2>2
<1>15. \A j \in Rows(g) : g.row[j].at.clock <= g.hlc /\ g.row[j].seq <= g.seq /\ Sound(t, j, g.row[j])
  BY <1>2, <1>3, <1>6, <1>8, <1>10, <1>11, <1>12
<1>16. \A p \in Host : g.served[p] <= g.seq /\ g.handed[p] <= g.seq
  <2>1. \A p \in Host : f.served[p] <= f.seq /\ f.handed[p] <= f.seq /\ f.served[p] \in Nat /\ f.handed[p] \in Nat
    BY <1>1 DEF Proper, Orderly, File
  <2> QED
    BY <1>2, <1>8, <2>1
<1>17. Proper(t, now[h], g)
  BY <1>2, <1>3, <1>8, <1>13, <1>14, <1>15, <1>16 DEF Proper, Orderly
<1>18. Touched(h, f, g, k)
  BY <1>1, <1>2, <1>3, <1>6, <1>8, <1>10 DEF Touched
<1>19. Written(h, f, g)
  BY <1>2, <1>3, <1>8, <1>10, <1>18 DEF Written, Continues
<1> QED
  BY <1>6, <1>10, <1>17, <1>18, <1>19 DEF g

(* What this host does to a file in two steps it does to it. *)
LEMMA WrittenTwice ==
  ASSUME NEW h, NEW f \in File, NEW g \in File, NEW e \in File, Written(h, f, g), Written(h, g, e)
  PROVE  Written(h, f, e)
<1>1. /\ f.hlc \in Nat /\ f.seq \in Nat /\ g.hlc \in Nat /\ g.seq \in Nat /\ e.hlc \in Nat /\ e.seq \in Nat
  BY DEF File
<1>2. Continues(f, e)
  BY <1>1 DEF Written, Continues
<1>3. ASSUME NEW k \in Key PROVE e.row[k] = f.row[k] \/ Touched(h, f, e, k)
  <2>1. CASE e.row[k] = g.row[k]
    <3>1. CASE Touched(h, f, g, k)
      <4>1. g.row[k].at.clock \in Nat
        BY <3>1 DEF Touched, Rows, File, Version, Stamp
      <4> QED
        BY <1>1, <2>1, <3>1, <4>1 DEF Touched, Rows, Written, Continues
    <3> QED
      BY <2>1, <3>1 DEF Written
  <2>2. CASE Touched(h, g, e, k)
    <3>1. e.row[k].at.clock \in Nat /\ e.row[k].seq \in Nat
      BY <2>2 DEF Touched, Rows, File, Version, Stamp
    <3> QED
      BY <1>1, <2>2, <3>1 DEF Touched, Written, Continues
  <2> QED
    BY <2>1, <2>2 DEF Written
<1> QED
  BY <1>2, <1>3 DEF Written

-----------------------------------------------------------------------------
(* Applying a row.                                                         *)

(* A version under another change number is the same version. *)
LEMMA Renumbered ==
  ASSUME NEW v \in Version, NEW s \in Nat
  PROVE  LET x == [v EXCEPT !.seq = s]
         IN /\ x \in Version /\ x.seq = s /\ x.at = v.at /\ x.holds = v.holds
            /\ x.base = v.base /\ x.dead = v.dead /\ x.text = v.text
            /\ Plain(x) = Plain(v)
<1> DEFINE x == [v EXCEPT !.seq = s]
<1>1. v = [at |-> v.at, base |-> v.base, dead |-> v.dead, holds |-> v.holds, text |-> v.text, seq |-> v.seq]
  BY DEF Version
<1>2. /\ x.seq = s /\ x.at = v.at /\ x.holds = v.holds
      /\ x.base = v.base /\ x.dead = v.dead /\ x.text = v.text
      /\ x = [at |-> v.at, base |-> v.base, dead |-> v.dead, holds |-> v.holds, text |-> v.text, seq |-> s]
  BY <1>1
<1> HIDE DEF x
<1>3. x \in Version
  BY <1>2 DEF Version
<1>4. Plain(v) = [at |-> v.at, base |-> v.base, dead |-> v.dead, holds |-> v.holds, text |-> v.text, seq |-> 0]
  BY <1>1 DEF Plain
<1>5. Plain(x) = [at |-> v.at, base |-> v.base, dead |-> v.dead, holds |-> v.holds, text |-> v.text, seq |-> 0]
  BY <1>2 DEF Plain
<1> QED
  BY <1>2, <1>3, <1>4, <1>5 DEF x

(* A file stays orderly when a row is set to a version that claims no value
   another row holds, under a new change number and a clock within bounds. *)
Sets(t, n, f, g, k, x, s, c) ==
  /\ g = [f EXCEPT !.seq = s, !.hlc = c, !.row[k] = x]
  /\ s > f.seq /\ f.hlc <= c /\ c <= n + MaxAhead + s
  /\ x.seq = s /\ Sound(t, k, x) /\ (x.at.clock <= c \/ x.at.clock <= n + MaxAhead)
  /\ x.holds => \A j \in Rows(f) : Shares(j, k) => ~f.row[j].holds

IsSet(t, n, f, g, k, x, s, c) ==
  /\ Orderly(t, n, g)
  /\ Continues(f, g) /\ g.seq = s /\ g.hlc = c
  /\ g.row[k] = x /\ \A j \in Key \ {k} : g.row[j] = f.row[j]
  /\ Rows(g) = Rows(f) \union {k}

LEMMA RowIsSet ==
  ASSUME NEW t, NEW n \in Nat, NEW f, Orderly(t, n, f), NEW k \in Key,
         NEW x \in Version, NEW s \in Nat, NEW c \in Nat,
         NEW g, Sets(t, n, f, g, k, x, s, c)
  PROVE  IsSet(t, n, f, g, k, x, s, c)
<1> USE DEF Sets
<1>1. f \in File /\ (\A j \in Rows(f) : f.row[j] \in Version) /\ Rows(f) \subseteq Key
  BY DEF Orderly, File, Rows
<1>2. f.hlc \in Nat /\ f.seq \in Nat /\ MaxAhead \in Nat
  BY <1>1, SyncAssumption DEF SyncAssumption, File
<1>3. /\ g.seq = s /\ g.hlc = c /\ g.row = [f.row EXCEPT ![k] = x]
      /\ g.id = f.id /\ g.served = f.served /\ g.handed = f.handed /\ g.peer = f.peer
      /\ g = [row |-> g.row, seq |-> g.seq, hlc |-> g.hlc, id |-> g.id, served |-> g.served,
              handed |-> g.handed, peer |-> g.peer]
  BY <1>1 DEF File
<1>4. g \in File
  <2>1. g.row \in [Key -> Version \union {None}]
    BY <1>1, <1>3 DEF File
  <2>2. /\ f.id \in Nat /\ f.served \in [Host -> Nat] /\ f.handed \in [Host -> Nat]
        /\ f.peer \in [Host -> [db: Nat, cursor: Nat]]
    BY <1>1 DEF File
  <2> QED
    BY <1>3, <2>1, <2>2 DEF File
<1>5. x # None
  BY SyncAssumption DEF SyncAssumption
<1>6. /\ g.row[k] = x /\ \A j \in Key \ {k} : g.row[j] = f.row[j]
      /\ Rows(g) = Rows(f) \union {k}
  BY <1>1, <1>3, <1>5 DEF Rows, File
<1>7. \A j \in Rows(g) : j # k =>
        /\ g.row[j] = f.row[j] /\ g.row[j].seq <= f.seq /\ g.row[j].seq \in Nat
        /\ g.row[j].at.clock <= f.hlc \/ g.row[j].at.clock <= n + MaxAhead
        /\ Sound(t, j, g.row[j]) /\ g.row[j].at.clock \in Nat
  BY <1>1, <1>6 DEF Orderly, Version, Stamp
<1>8. \A i, j \in Rows(g) : g.row[i].seq = g.row[j].seq => i = j
  BY <1>1, <1>2, <1>6, <1>7 DEF Orderly
<1>9. \A i, j \in Rows(g) : Shares(i, j) => ~(g.row[i].holds /\ g.row[j].holds)
  <2>1. \A i, j \in Rows(f) : Shares(i, j) => ~(f.row[i].holds /\ f.row[j].holds)
    BY DEF Orderly
  <2>2. \A i, j \in Key : Shares(i, j) => Shares(j, i) /\ i # j
    BY DEF Shares
  <2> QED
    BY <1>1, <1>6, <2>1, <2>2
<1>10. \A j \in Rows(g) : /\ g.row[j].at.clock <= g.hlc \/ g.row[j].at.clock <= n + MaxAhead
                          /\ g.row[j].seq <= g.seq /\ Sound(t, j, g.row[j])
  BY <1>2, <1>3, <1>6, <1>7
<1>11. \A p \in Host : g.served[p] <= g.seq /\ g.handed[p] <= g.seq
  <2>1. \A p \in Host : f.served[p] <= f.seq /\ f.handed[p] <= f.seq /\ f.served[p] \in Nat /\ f.handed[p] \in Nat
    BY <1>1 DEF Orderly, File
  <2> QED
    BY <1>2, <1>3, <2>1
<1>12. Orderly(t, n, g)
  BY <1>3, <1>4, <1>8, <1>9, <1>10, <1>11 DEF Orderly
<1>13. Continues(f, g)
  BY <1>2, <1>3 DEF Continues
<1> QED
  BY <1>3, <1>6, <1>12, <1>13 DEF IsSet

(* A version is written: as it came, or, when it loses its unique value to
   another row, as this host's edit of it; the row that loses its value to it
   becomes this host's edit of that row. *)
AsEdited(h, f, g, k, v) ==
  /\ Touched(h, f, g, k) /\ v.at.clock < g.row[k].at.clock
  /\ g.row[k].base = BaseOf(h, v) /\ g.row[k].text = v.text

LEMMA WriteIs ==
  ASSUME NEW h \in Host, NEW t, now[h] \in Nat, NEW f, Orderly(t, now[h], f),
         NEW k \in Key, NEW v \in Version, Sound(t, k, v), v.at.clock <= now[h] + MaxAhead
  PROVE  LET g == Write(f, h, k, v)
         IN /\ Orderly(t, now[h], g)
            /\ Continues(f, g)
            /\ k \in Rows(g) /\ f.seq < g.row[k].seq
            /\ Plain(g.row[k]) = Plain(v) \/ AsEdited(h, f, g, k, v)
            /\ \A j \in Key \ {k} : \/ g.row[j] = f.row[j]
                                    \/ j \in Rows(f) /\ AsEdited(h, f, g, j, f.row[j])
<1> DEFINE others == {j \in Rows(f) : v.holds /\ Shares(j, k) /\ f.row[j].holds}
           j == CHOOSE j \in others : TRUE
           other == f.row[j]
           incomingLoses == IF v.dead # other.dead THEN v.dead ELSE k > j
           loser == IF incomingLoses THEN v ELSE other
           drop == RowKind[k] = "upload" /\ ~v.dead /\ ~other.dead
           clock == NextClock(h, Latest(f.hlc, loser.at.clock))
           renamed == [loser EXCEPT !.holds = FALSE, !.dead = @ \/ drop, !.seq = f.seq + 1,
                                    !.at = [clock |-> clock, origin |-> h], !.base = BaseOf(h, loser)]
           stamped == [f EXCEPT !.seq = @ + 1, !.hlc = clock]
           g == Write(f, h, k, v)
<1>1. f \in File /\ (\A i \in Rows(f) : f.row[i] \in Version) /\ Rows(f) \subseteq Key
  BY DEF Orderly, File, Rows
<1>2. f.hlc \in Nat /\ f.seq \in Nat /\ MaxAhead \in Nat /\ f.hlc <= now[h] + MaxAhead + f.seq
  BY <1>1, SyncAssumption DEF SyncAssumption, File, Orderly
<1>3. v.at \in Stamp /\ v.at.clock \in Nat
  BY DEF Version, Stamp
<1>4. CASE others = {}
  <2> DEFINE x == [v EXCEPT !.seq = f.seq + 1]
  <2>1. g = Put(f, k, v)
    BY <1>4 DEF Write
  <2>2. /\ x \in Version /\ x.seq = f.seq + 1 /\ x.at = v.at /\ x.holds = v.holds
        /\ x.base = v.base /\ x.dead = v.dead /\ x.text = v.text
        /\ Plain(x) = Plain(v)
    <3>1. f.seq + 1 \in Nat
      BY <1>2
    <3> HIDE DEF x
    <3> QED
      BY <3>1, Renumbered DEF x
  <2> HIDE DEF x
  <2>3. g = [f EXCEPT !.seq = f.seq + 1, !.hlc = f.hlc, !.row[k] = x]
    BY <1>1, <2>1 DEF Put, x, File
  <2>4. Sound(t, k, x)
    BY <2>2 DEF Sound
  <2>5. x.holds => \A i \in Rows(f) : Shares(i, k) => ~f.row[i].holds
    BY <1>4, <2>2
  <2> HIDE DEF g, others
  <2>6. /\ Orderly(t, now[h], g)
        /\ Continues(f, g) /\ g.seq = f.seq + 1 /\ g.hlc = f.hlc
        /\ g.row[k] = x /\ \A i \in Key \ {k} : g.row[i] = f.row[i]
        /\ Rows(g) = Rows(f) \union {k}
    <3>1. f.seq + 1 \in Nat /\ f.seq + 1 > f.seq /\ f.hlc <= now[h] + MaxAhead + (f.seq + 1) /\ f.hlc <= f.hlc
      BY <1>2
    <3>2. x.at.clock <= now[h] + MaxAhead
      BY <2>2
    <3>3. Sets(t, now[h], f, g, k, x, f.seq + 1, f.hlc)
      BY <2>2, <2>3, <2>4, <2>5, <3>1, <3>2 DEF Sets
    <3>4. IsSet(t, now[h], f, g, k, x, f.seq + 1, f.hlc)
      BY <1>2, <2>2, <3>1, <3>3, RowIsSet
    <3> QED
      BY <3>4 DEF IsSet
  <2> QED
    BY <1>2, <2>2, <2>6 DEF g
<1>5. CASE others # {}
  <2>1. /\ j \in others /\ j \in Rows(f) /\ v.holds /\ Shares(j, k) /\ other.holds
        /\ j \in Key /\ j # k /\ other \in Version
    BY <1>1, <1>5 DEF Shares
  <2>2. \A i \in others : i = j
    <3>1. \A i \in others : Shares(i, j) \/ i = j
      BY <2>1 DEF Shares
    <3> QED
      BY <2>1, <3>1 DEF Orderly
  <2>3. RowKind[j] = RowKind[k]
    BY <2>1 DEF Shares
  <2> HIDE DEF others, j
  <2>4. /\ loser \in Version /\ loser.at \in Stamp /\ loser.at.clock \in Nat
        /\ loser.at.clock <= f.hlc \/ loser.at.clock <= now[h] + MaxAhead
        /\ loser.text \in DOMAIN t
        /\ loser.base # None => loser.base.clock < loser.at.clock /\ loser.base.clock \in Nat
    <3>1. /\ other.at \in Stamp /\ other.at.clock \in Nat
          /\ other.at.clock <= f.hlc \/ other.at.clock <= now[h] + MaxAhead
          /\ other.text \in DOMAIN t
          /\ other.base # None => other.base.clock < other.at.clock /\ other.base.clock \in Nat
      BY <2>1 DEF Orderly, Sound, Version, Stamp
    <3>2. v.text \in DOMAIN t /\ (v.base # None => v.base.clock < v.at.clock /\ v.base.clock \in Nat)
      BY DEF Sound, Version, Stamp
    <3> HIDE DEF other, incomingLoses
    <3> QED
      BY <1>3, <2>1, <3>1, <3>2
  <2> HIDE DEF loser
  <2>5. clock \in Nat /\ clock > f.hlc /\ clock > loser.at.clock /\ clock <= now[h] + MaxAhead + f.seq + 1
    BY <1>2, <2>4 DEF NextClock, Latest
  <2> HIDE DEF clock
  <2> DEFINE a == [clock |-> clock, origin |-> h]
             b == BaseOf(h, loser)
             d == loser.dead \/ drop
  <2>6. a \in Stamp /\ b \in Stamp \union {None} /\ (b # None => b.clock < clock) /\ d \in BOOLEAN
    <3>1. a \in Stamp
      BY <2>5 DEF Stamp
    <3>2. b \in Stamp \union {None} /\ (b # None => b.clock < clock)
      <4>1. loser.base \in Stamp \union {None}
        BY <2>4 DEF Version
      <4> QED
        BY <2>4, <2>5, <4>1 DEF BaseOf
    <3>3. loser.dead \in BOOLEAN
      BY <2>4 DEF Version
    <3> QED
      BY <3>1, <3>2, <3>3
  <2>7. renamed = [loser EXCEPT !.holds = FALSE, !.dead = d, !.seq = f.seq + 1, !.at = a, !.base = b]
    BY <2>4 DEF Version
  <2> HIDE DEF a, b, d, renamed
  <2>8. /\ renamed \in Version
        /\ renamed.at = a /\ renamed.base = b /\ renamed.dead = d /\ ~renamed.holds
        /\ renamed.text = loser.text /\ renamed.seq = f.seq + 1
    <3>1. loser = [at |-> loser.at, base |-> loser.base, dead |-> loser.dead, holds |-> loser.holds,
                   text |-> loser.text, seq |-> loser.seq] /\ loser.text \in Nat
      BY <2>4 DEF Version
    <3>2. f.seq + 1 \in Nat
      BY <1>2
    <3> QED
      BY <2>6, <2>7, <3>1, <3>2 DEF Version
  <2>9. d \/ RowKind[k] # "upload"
    <3>1. CASE incomingLoses
      <4>1. v.dead \in BOOLEAN /\ other.dead \in BOOLEAN
        BY <2>1 DEF Version
      <4> QED
        BY <3>1, <4>1 DEF d, loser
    <3>2. CASE ~incomingLoses
      <4>1. v.dead \in BOOLEAN /\ other.dead \in BOOLEAN
        BY <2>1 DEF Version
      <4> QED
        BY <3>2, <4>1 DEF d, loser
    <3> QED
      BY <3>1, <3>2
  <2>10. CASE incomingLoses
    <3>1. g = Put(stamped, k, renamed)
      BY <1>5, <2>10 DEF Write, others, j, loser, clock, renamed
    <3>2. loser = v
      BY <2>10 DEF loser
    <3> DEFINE x == [renamed EXCEPT !.seq = f.seq + 2]
    <3>3. /\ x \in Version /\ x.seq = f.seq + 2 /\ x.at = a /\ ~x.holds
          /\ x.base = b /\ x.dead = d /\ x.text = v.text
      <4>1. renamed = [at |-> renamed.at, base |-> renamed.base, dead |-> renamed.dead, holds |-> renamed.holds,
                       text |-> renamed.text, seq |-> renamed.seq]
        BY <2>8 DEF Version
      <4>2. f.seq + 2 \in Nat
        BY <1>2
      <4> QED
        BY <2>8, <3>2, <4>1, <4>2 DEF Version
    <3>4. g = [f EXCEPT !.seq = f.seq + 2, !.hlc = clock, !.row[k] = x]
      <4>1. stamped = [f EXCEPT !.seq = f.seq + 1, !.hlc = clock] /\ stamped.seq = f.seq + 1
        BY <1>1 DEF File
      <4>2. g = [stamped EXCEPT !.seq = f.seq + 2, !.row[k] = x]
        <5>1. stamped.seq + 1 = f.seq + 2
          BY <1>2, <4>1
        <5> HIDE DEF stamped, g
        <5> QED
          BY <3>1, <5>1 DEF Put
      <4> HIDE DEF stamped, x, g
      <4> QED
        BY <1>1, <4>1, <4>2 DEF File
    <3> HIDE DEF x, g
    <3>5. Sound(t, k, x)
      BY <2>4, <2>6, <2>9, <3>2, <3>3 DEF Sound, a
    <3>6. /\ Orderly(t, now[h], g)
          /\ Continues(f, g) /\ g.seq = f.seq + 2 /\ g.hlc = clock
          /\ g.row[k] = x /\ \A i \in Key \ {k} : g.row[i] = f.row[i]
          /\ Rows(g) = Rows(f) \union {k}
      <4>1. f.seq + 2 \in Nat /\ f.seq + 2 > f.seq /\ clock <= now[h] + MaxAhead + (f.seq + 2) /\ f.hlc <= clock
        BY <1>2, <2>5
      <4>2. x.at.clock <= clock
        BY <2>5, <3>3 DEF a
      <4>3. Sets(t, now[h], f, g, k, x, f.seq + 2, clock)
        BY <3>3, <3>4, <3>5, <4>1, <4>2 DEF Sets
      <4>4. IsSet(t, now[h], f, g, k, x, f.seq + 2, clock)
        BY <2>5, <3>3, <4>1, <4>3, RowIsSet
      <4> QED
        BY <4>4 DEF IsSet
    <3>7. AsEdited(h, f, g, k, v)
      BY <1>2, <2>5, <3>2, <3>3, <3>6 DEF AsEdited, Touched, a, b
    <3> QED
      BY <1>2, <3>3, <3>6, <3>7 DEF g
  <2>11. CASE ~incomingLoses
    <3> DEFINE e == [stamped EXCEPT !.row[j] = renamed]
               x == [v EXCEPT !.seq = f.seq + 2]
    <3>1. g = Put(e, k, v)
      BY <1>5, <2>11 DEF Write, others, j, loser, clock, renamed
    <3>2. loser = other
      BY <2>11 DEF loser
    <3>3. e = [f EXCEPT !.seq = f.seq + 1, !.hlc = clock, !.row[j] = renamed]
      BY <1>1, <2>1 DEF File
    <3> HIDE DEF e
    <3>4. Sound(t, j, renamed)
      <4>1. t[other.text].key = j
        BY <2>1 DEF Orderly, Sound
      <4> QED
        BY <2>3, <2>4, <2>6, <2>8, <2>9, <3>2, <4>1 DEF Sound, a
    <3>5. /\ Orderly(t, now[h], e)
          /\ Continues(f, e) /\ e.seq = f.seq + 1 /\ e.hlc = clock
          /\ e.row[j] = renamed /\ \A i \in Key \ {j} : e.row[i] = f.row[i]
          /\ Rows(e) = Rows(f) \union {j}
      <4>1. f.seq + 1 \in Nat /\ f.seq + 1 > f.seq /\ clock <= now[h] + MaxAhead + (f.seq + 1) /\ f.hlc <= clock
        BY <1>2, <2>5
      <4>2. renamed.at.clock <= clock
        BY <2>5, <2>8 DEF a
      <4>3. Sets(t, now[h], f, e, j, renamed, f.seq + 1, clock)
        BY <2>8, <3>3, <3>4, <4>1, <4>2 DEF Sets
      <4>4. IsSet(t, now[h], f, e, j, renamed, f.seq + 1, clock)
        BY <2>1, <2>5, <2>8, <4>1, <4>3, RowIsSet
      <4> QED
        BY <4>4 DEF IsSet
    <3>6. /\ x \in Version /\ x.seq = f.seq + 2 /\ x.at = v.at /\ x.holds = v.holds
          /\ x.base = v.base /\ x.dead = v.dead /\ x.text = v.text
          /\ Plain(x) = Plain(v)
      <4>1. f.seq + 2 \in Nat
        BY <1>2
      <4> HIDE DEF x
      <4> QED
        BY <4>1, Renumbered DEF x
    <3>7. e \in File
      BY <3>5 DEF Orderly
    <3>8. g = [e EXCEPT !.seq = f.seq + 2, !.hlc = clock, !.row[k] = x]
      <4>1. e.seq + 1 = f.seq + 2 /\ e.hlc = clock
        BY <1>2, <3>5
      <4>2. g = [e EXCEPT !.seq = f.seq + 2, !.row[k] = x]
        <5> HIDE DEF g
        <5> QED
          BY <3>1, <4>1 DEF Put
      <4> HIDE DEF x, g
      <4> QED
        BY <3>7, <4>1, <4>2 DEF File
    <3> HIDE DEF x, g
    <3>9. Sound(t, k, x)
      BY <3>6 DEF Sound
    <3>10. \A i \in Rows(e) : Shares(i, k) => ~e.row[i].holds
      <4> SUFFICES ASSUME NEW i \in Rows(e), Shares(i, k) PROVE ~e.row[i].holds
        OBVIOUS
      <4>1. CASE i = j
        BY <2>8, <3>5, <4>1
      <4>2. CASE i # j
        <5>1. i \in Rows(f) /\ e.row[i] = f.row[i] /\ i \notin others
          BY <1>1, <2>2, <3>5, <4>2
        <5> QED
          BY <2>1, <5>1 DEF others
      <4> QED
        BY <4>1, <4>2
    <3>11. /\ Orderly(t, now[h], g)
           /\ Continues(e, g) /\ g.seq = f.seq + 2 /\ g.hlc = clock
           /\ g.row[k] = x /\ \A i \in Key \ {k} : g.row[i] = e.row[i]
           /\ Rows(g) = Rows(e) \union {k}
      <4>1. f.seq + 2 \in Nat /\ f.seq + 2 > e.seq /\ clock <= now[h] + MaxAhead + (f.seq + 2) /\ e.hlc <= clock
        BY <1>2, <2>5, <3>5
      <4>2. x.at.clock <= now[h] + MaxAhead
        BY <3>6
      <4>3. Sets(t, now[h], e, g, k, x, f.seq + 2, clock)
        BY <3>6, <3>8, <3>9, <3>10, <4>1, <4>2 DEF Sets
      <4>4. IsSet(t, now[h], e, g, k, x, f.seq + 2, clock)
        BY <2>5, <3>5, <3>6, <4>1, <4>3, RowIsSet
      <4> QED
        BY <4>4 DEF IsSet
    <3>12. Continues(f, g)
      BY <1>2, <2>5, <3>5, <3>11 DEF Continues
    <3>13. /\ g.row[j] = renamed /\ j \in Rows(g)
           /\ \A i \in Key \ {k} : i # j => g.row[i] = f.row[i]
      BY <2>1, <3>5, <3>11
    <3>14. AsEdited(h, f, g, j, f.row[j])
      <4>1. /\ renamed.at.clock = clock /\ renamed.at.origin = h /\ renamed.base = BaseOf(h, f.row[j])
            /\ renamed.text = f.row[j].text /\ f.row[j].at.clock < clock
        BY <2>5, <2>8, <3>2 DEF a, b
      <4> QED
        BY <1>2, <2>5, <2>8, <3>11, <3>13, <4>1 DEF AsEdited, Touched
    <3>15. f.seq < g.row[k].seq /\ k \in Rows(g)
      BY <1>2, <3>6, <3>11
    <3> QED
      BY <2>1, <3>6, <3>11, <3>12, <3>13, <3>14, <3>15 DEF g
  <2> QED
    BY <2>10, <2>11
<1> QED
  BY <1>4, <1>5

(* A peer's version is taken exactly when it is the later one: what it was
   built on is earlier than it is. *)
LEMMA TakesTheLater ==
  ASSUME NEW local \in Version, NEW remote \in Version,
         local.base # None => local.base.clock < local.at.clock,
         remote.base # None => remote.base.clock < remote.at.clock
  PROVE  /\ Takes(local, remote) <=> Later(remote.at, local.at)
         /\ Descends(remote, local) /\ remote.at # local.at => Later(remote.at, local.at)
<1>1. local # None
  BY SyncAssumption DEF SyncAssumption
<1>2. /\ local.at \in Stamp /\ remote.at \in Stamp
      /\ local.base # None => local.base \in Stamp
      /\ remote.base # None => remote.base \in Stamp
  BY DEF Version
<1>3. ASSUME NEW a \in Version, NEW b \in Version, a.at \in Stamp, b.at \in Stamp,
             a.base # None => a.base \in Stamp /\ a.base.clock < a.at.clock,
             Descends(a, b), a.at # b.at
      PROVE  Later(a.at, b.at)
  <2>1. CASE a.at.origin = b.at.origin
    <3>1. a.at.clock >= b.at.clock
      BY <1>3, <2>1 DEF Descends
    <3>2. a.at.clock # b.at.clock
      BY <1>3, <2>1 DEF Stamp
    <3> QED
      BY <1>3, <3>1, <3>2 DEF Later, Stamp
  <2>2. CASE a.at.origin # b.at.origin
    <3>1. a.base # None /\ a.base.clock >= b.at.clock
      BY <1>3, <2>2 DEF Descends
    <3> QED
      BY <1>3, <3>1 DEF Later, Stamp
  <2> QED
    BY <2>1, <2>2
<1>4. Descends(remote, local) /\ remote.at # local.at => Later(remote.at, local.at)
  BY <1>2, <1>3
<1>5. Descends(local, remote) /\ remote.at # local.at => Later(local.at, remote.at)
  BY <1>2, <1>3
<1>6. ~Later(local.at, local.at)
  BY <1>2, NotBeforeIsOrder DEF NotBefore
<1>7. ~(Later(remote.at, local.at) /\ Later(local.at, remote.at))
  BY <1>2, NotBeforeIsOrder DEF NotBefore
<1> QED
  BY <1>1, <1>4, <1>5, <1>6, <1>7 DEF Takes

Row == [key: Key, v: Version]

(* g is f after the rows up to i are applied: a row is as it was, this host's
   edit, or the version of the page; none is older than it was, nor older than
   the page's. *)
Merged(h, f, g, rows, i) ==
  /\ Continues(f, g)
  /\ \A k \in Key :
       \/ g.row[k] = f.row[k]
       \/ Touched(h, f, g, k)
       \/ /\ k \in Rows(g) /\ f.seq < g.row[k].seq
          /\ \E m \in 1..i : rows[m].key = k /\ Plain(g.row[k]) = Plain(rows[m].v)
  /\ \A k \in Rows(f) : k \in Rows(g) /\ NotBefore(g.row[k].at, f.row[k].at)
  /\ \A m \in 1..i : rows[m].key \in Rows(g) /\ NotBefore(g.row[rows[m].key].at, rows[m].v.at)

LEMMA PlainStamps ==
  ASSUME NEW v \in Version, NEW w \in Version, Plain(v) = Plain(w)
  PROVE  /\ v.at = w.at /\ v.base = w.base /\ v.dead = w.dead /\ v.holds = w.holds /\ v.text = w.text
<1>1. \A u \in Version : Plain(u) = [at |-> u.at, base |-> u.base, dead |-> u.dead, holds |-> u.holds,
                                     text |-> u.text, seq |-> 0]
  <2> SUFFICES ASSUME NEW u \in Version
               PROVE  Plain(u) = [at |-> u.at, base |-> u.base, dead |-> u.dead, holds |-> u.holds,
                                  text |-> u.text, seq |-> 0]
    OBVIOUS
  <2>1. u = [at |-> u.at, base |-> u.base, dead |-> u.dead, holds |-> u.holds, text |-> u.text, seq |-> u.seq]
    BY DEF Version
  <2> QED
    BY <2>1 DEF Plain
<1> QED
  BY <1>1

LEMMA RowApplied ==
  ASSUME NEW h \in Host, NEW t, now[h] \in Nat, NEW done, Orderly(t, now[h], done.f),
         NEW r \in Row, Sound(t, r.key, r.v), r.v.at.clock <= now[h] + MaxAhead
  PROVE  LET g == ApplyRow(h, done, r)
             f == done.f
         IN /\ Orderly(t, now[h], g.f)
            /\ Continues(f, g.f)
            /\ \A k \in Key :
                 \/ g.f.row[k] = f.row[k]
                 \/ Touched(h, f, g.f, k)
                 \/ /\ k \in Rows(g.f) /\ f.seq < g.f.row[k].seq
                    /\ r.key = k /\ Plain(g.f.row[k]) = Plain(r.v)
            /\ \A k \in Rows(f) : k \in Rows(g.f) /\ NotBefore(g.f.row[k].at, f.row[k].at)
            /\ r.key \in Rows(g.f) /\ NotBefore(g.f.row[r.key].at, r.v.at)
            /\ g.kept \subseteq done.kept \union DOMAIN t
<1> DEFINE g == ApplyRow(h, done, r)
           f == done.f
           k == r.key
           v == r.v
           local == f.row[k]
<1>1. f \in File /\ (\A i \in Rows(f) : f.row[i] \in Version) /\ Rows(f) \subseteq Key /\ k \in Key /\ v \in Version
  BY DEF Orderly, File, Rows, Row
<1>2. /\ \A i \in Rows(f) : f.row[i].at \in Stamp /\ f.row[i].text \in DOMAIN t
      /\ v.at \in Stamp /\ v # None
      /\ f.seq \in Nat /\ f.hlc \in Nat
  BY <1>1, SyncAssumption DEF Version, SyncAssumption, Orderly, Sound, File
<1>3. local # None => (Takes(local, v) <=> Later(v.at, local.at))
  <2> SUFFICES ASSUME local # None PROVE Takes(local, v) <=> Later(v.at, local.at)
    OBVIOUS
  <2>1. k \in Rows(f)
    BY <1>1 DEF Rows
  <2>2. /\ local \in Version /\ (local.base # None => local.base.clock < local.at.clock)
        /\ v.base # None => v.base.clock < v.at.clock
    BY <1>1, <2>1 DEF Orderly, Sound
  <2> HIDE DEF local, v
  <2> QED
    BY <1>1, <2>2, TakesTheLater
<1>4. CASE ~Takes(local, v)
  <2>1. g = done
    BY <1>4 DEF ApplyRow
  <2>2. local # None
    BY <1>4 DEF Takes
  <2>3. k \in Rows(f) /\ NotBefore(local.at, v.at)
    BY <1>1, <1>3, <1>4, <2>2 DEF Rows, NotBefore
  <2>4. \A i \in Rows(f) : NotBefore(f.row[i].at, f.row[i].at)
    BY <1>2, NotBeforeIsOrder
  <2>5. Continues(f, f)
    BY <1>2 DEF Continues
  <2> QED
    BY <2>1, <2>3, <2>4, <2>5
<1>5. CASE Takes(local, v)
  <2> DEFINE w == Write(f, h, k, v)
  <2>1. /\ g.f = w
        /\ g.kept = IF Loses(h, local, v) /\ local.text # v.text /\ RowKind[k] # "upload"
                    THEN done.kept \union {local.text} ELSE done.kept
    BY <1>5 DEF ApplyRow
  <2>2. /\ Orderly(t, now[h], w)
        /\ Continues(f, w)
        /\ k \in Rows(w) /\ f.seq < w.row[k].seq
        /\ Plain(w.row[k]) = Plain(v) \/ AsEdited(h, f, w, k, v)
        /\ \A j \in Key \ {k} : \/ w.row[j] = f.row[j]
                                \/ j \in Rows(f) /\ AsEdited(h, f, w, j, f.row[j])
    BY <1>1, WriteIs
  <2> HIDE DEF w, g
  <2>3. \A i \in Rows(w) : w.row[i] \in Version /\ w.row[i].at \in Stamp
    BY <2>2 DEF Orderly, File, Rows, Version
  <2>4. NotBefore(w.row[k].at, v.at)
    <3>1. CASE Plain(w.row[k]) = Plain(v)
      <4>1. w.row[k].at = v.at
        BY <1>1, <2>2, <2>3, <3>1, PlainStamps
      <4> QED
        BY <1>2, <4>1, NotBeforeIsOrder
    <3>2. CASE AsEdited(h, f, w, k, v)
      <4>1. v.at.clock < w.row[k].at.clock /\ v.at.clock \in Nat /\ w.row[k].at.clock \in Nat
        BY <1>2, <2>2, <2>3, <3>2 DEF AsEdited, Stamp
      <4>2. Later(w.row[k].at, v.at)
        BY <4>1 DEF Later
      <4> QED
        BY <1>2, <2>2, <2>3, <4>2, NotBeforeIsOrder
    <3> QED
      BY <2>2, <3>1, <3>2
  <2>5. \A i \in Rows(f) : i \in Rows(w) /\ NotBefore(w.row[i].at, f.row[i].at)
    <3> SUFFICES ASSUME NEW i \in Rows(f) PROVE i \in Rows(w) /\ NotBefore(w.row[i].at, f.row[i].at)
      OBVIOUS
    <3>1. CASE i = k
      <4>1. Later(v.at, local.at) /\ local = f.row[i]
        BY <1>3, <1>5, <3>1 DEF Rows
      <4>2. NotBefore(v.at, local.at)
        BY <1>2, <4>1, <3>1, NotBeforeIsOrder
      <4> HIDE DEF local, v
      <4>3. local.at \in Stamp /\ w.row[k].at \in Stamp
        BY <1>2, <2>2, <2>3, <4>1
      <4> QED
        BY <1>2, <2>2, <2>4, <3>1, <4>1, <4>2, <4>3, NotBeforeIsOrder
    <3>2. CASE i # k /\ w.row[i] = f.row[i]
      BY <1>1, <1>2, <3>2, NotBeforeIsOrder DEF Rows
    <3>3. CASE i # k /\ AsEdited(h, f, w, i, f.row[i])
      <4>1. i \in Rows(w) /\ f.row[i].at.clock < w.row[i].at.clock
        BY <3>3 DEF AsEdited, Touched
      <4>2. f.row[i].at \in Stamp /\ w.row[i].at \in Stamp
        BY <1>2, <2>3, <4>1
      <4>3. Later(w.row[i].at, f.row[i].at)
        BY <4>1, <4>2 DEF Later, Stamp
      <4> QED
        BY <4>1, <4>2, <4>3, NotBeforeIsOrder
    <3> QED
      BY <1>1, <2>2, <3>1, <3>2, <3>3
  <2>6. \A j \in Key : \/ w.row[j] = f.row[j]
                       \/ Touched(h, f, w, j)
                       \/ j \in Rows(w) /\ f.seq < w.row[j].seq /\ k = j /\ Plain(w.row[j]) = Plain(v)
    BY <2>2 DEF AsEdited
  <2>7. g.kept \subseteq done.kept \union DOMAIN t
    <3>1. Loses(h, local, v) => local.text \in DOMAIN t
      BY <1>1, <1>2 DEF Loses, Rows
    <3> QED
      BY <2>1, <3>1
  <2> QED
    BY <2>1, <2>2, <2>4, <2>5, <2>6, <2>7 DEF g
<1> QED
  BY <1>4, <1>5

LEMMA PageApplied ==
  ASSUME NEW h \in Host, NEW t, now[h] \in Nat, NEW f, Orderly(t, now[h], f),
         NEW rows \in Seq(Row),
         \A i \in 1..Len(rows) : /\ Sound(t, rows[i].key, rows[i].v)
                                 /\ rows[i].v.at.clock <= now[h] + MaxAhead
  PROVE  LET done == ApplyRows(h, f, rows)
         IN /\ Orderly(t, now[h], done.f)
            /\ Merged(h, f, done.f, rows, Len(rows))
            /\ done.kept \subseteq kept \union DOMAIN t
<1>1. Len(rows) \in Nat
  OBVIOUS
<1>2. PICK done : /\ done = [i \in 0..Len(rows) |->
                              IF i = 0 THEN [f |-> f, kept |-> kept]
                              ELSE ApplyRow(h, done[i - 1], rows[i])]
                  /\ ApplyRows(h, f, rows) = done[Len(rows)]
  BY <1>1, AppliedInOrder
<1>3. /\ done[0] = [f |-> f, kept |-> kept]
      /\ \A i \in 1..Len(rows) : done[i] = ApplyRow(h, done[i - 1], rows[i])
  BY <1>1, <1>2
<1> DEFINE P(i) == /\ Orderly(t, now[h], done[i].f)
                   /\ Merged(h, f, done[i].f, rows, i)
                   /\ done[i].kept \subseteq kept \union DOMAIN t
           T == {i \in 0..Len(rows) : ~P(i)}
<1>f. f \in File /\ f.seq \in Nat /\ f.hlc \in Nat /\ Rows(f) \subseteq Key
  BY DEF Orderly, File, Rows
<1>4. P(0)
  <2>1. Continues(f, f)
    BY <1>f DEF Continues
  <2>2. \A k \in Rows(f) : NotBefore(f.row[k].at, f.row[k].at)
    <3> SUFFICES ASSUME NEW k \in Rows(f) PROVE NotBefore(f.row[k].at, f.row[k].at)
      OBVIOUS
    <3>1. f.row[k].at \in Stamp
      BY <1>f DEF File, Rows, Version
    <3> QED
      BY <3>1, NotBeforeIsOrder
  <2>3. Merged(h, f, f, rows, 0)
    BY <2>1, <2>2 DEF Merged
  <2> QED
    BY <1>3, <2>3
<1>5. ASSUME NEW i \in 1..Len(rows), P(i - 1) PROVE P(i)
  <2> DEFINE d == done[i - 1]
             g == d.f
             e == done[i]
             r == rows[i]
  <2>1. r \in Row /\ Sound(t, r.key, r.v) /\ r.v.at.clock <= now[h] + MaxAhead /\ e = ApplyRow(h, d, r)
        /\ r.key \in Key /\ r.v \in Version
    <3>1. r \in Row
      BY <1>1
    <3>2. Sound(t, r.key, r.v) /\ r.v.at.clock <= now[h] + MaxAhead
      OBVIOUS
    <3>3. e = ApplyRow(h, d, r)
      BY <1>3
    <3> HIDE DEF d, e, r
    <3> QED
      BY <3>1, <3>2, <3>3 DEF Row
  <2>2. /\ Orderly(t, now[h], g) /\ Merged(h, f, g, rows, i - 1) /\ d.kept \subseteq kept \union DOMAIN t
    BY <1>5
  <2> HIDE DEF d, e, r
  <2>3. /\ Orderly(t, now[h], e.f)
        /\ Continues(g, e.f)
        /\ \A k \in Key :
             \/ e.f.row[k] = g.row[k]
             \/ Touched(h, g, e.f, k)
             \/ /\ k \in Rows(e.f) /\ g.seq < e.f.row[k].seq
                /\ r.key = k /\ Plain(e.f.row[k]) = Plain(r.v)
        /\ \A k \in Rows(g) : k \in Rows(e.f) /\ NotBefore(e.f.row[k].at, g.row[k].at)
        /\ r.key \in Rows(e.f) /\ NotBefore(e.f.row[r.key].at, r.v.at)
        /\ e.kept \subseteq d.kept \union DOMAIN t
    <3> HIDE DEF g
    <3>1. Orderly(t, now[h], d.f)
      BY <2>2 DEF g
    <3> DEFINE a == ApplyRow(h, d, r)
    <3>2. a = e
      BY <2>1
    <3> HIDE DEF a
    <3>3. /\ Orderly(t, now[h], a.f)
          /\ Continues(d.f, a.f)
          /\ \A k \in Key :
               \/ a.f.row[k] = d.f.row[k]
               \/ Touched(h, d.f, a.f, k)
               \/ /\ k \in Rows(a.f) /\ d.f.seq < a.f.row[k].seq
                  /\ r.key = k /\ Plain(a.f.row[k]) = Plain(r.v)
          /\ \A k \in Rows(d.f) : k \in Rows(a.f) /\ NotBefore(a.f.row[k].at, d.f.row[k].at)
          /\ r.key \in Rows(a.f) /\ NotBefore(a.f.row[r.key].at, r.v.at)
          /\ a.kept \subseteq d.kept \union DOMAIN t
      BY <2>1, <3>1, RowApplied DEF a
    <3> QED
      BY <3>2, <3>3 DEF g
  <2> DEFINE x == e.f
  <2> HIDE DEF x, g
  <2>4. /\ g \in File /\ x \in File /\ Rows(g) \subseteq Key /\ Rows(x) \subseteq Key
        /\ g.seq \in Nat /\ g.hlc \in Nat /\ x.seq \in Nat /\ x.hlc \in Nat
        /\ \A k \in Rows(g) : g.row[k].at \in Stamp /\ g.row[k].seq \in Nat /\ g.row[k].at.clock \in Nat
        /\ \A k \in Rows(x) : x.row[k].at \in Stamp /\ x.row[k].seq \in Nat /\ x.row[k].at.clock \in Nat
    <3>1. \A y \in File : /\ Rows(y) \subseteq Key /\ y.seq \in Nat /\ y.hlc \in Nat
                         /\ \A k \in Rows(y) : y.row[k].at \in Stamp /\ y.row[k].seq \in Nat
                                              /\ y.row[k].at.clock \in Nat
      BY DEF File, Rows, Version, Stamp
    <3>2. g \in File /\ x \in File
      BY <2>2, <2>3 DEF Orderly, x
    <3> QED
      BY <3>1, <3>2
  <2>5. Continues(f, x)
    <3>1. Continues(f, g) /\ Continues(g, x)
      BY <2>2, <2>3 DEF Merged, x
    <3> QED
      BY <1>f, <2>4, <3>1 DEF Continues
  <2>6. ASSUME NEW k \in Key
        PROVE  \/ x.row[k] = f.row[k]
               \/ Touched(h, f, x, k)
               \/ /\ k \in Rows(x) /\ f.seq < x.row[k].seq
                  /\ \E m \in 1..i : rows[m].key = k /\ Plain(x.row[k]) = Plain(rows[m].v)
    <3>1. f.seq <= g.seq /\ f.hlc <= g.hlc /\ g.hlc <= x.hlc
      BY <2>2, <2>3 DEF Merged, Continues, x
    <3>2. CASE x.row[k] = g.row[k]
      <4>1. CASE Touched(h, f, g, k)
        BY <2>4, <3>1, <3>2, <4>1 DEF Touched, Rows
      <4>2. CASE k \in Rows(g) /\ f.seq < g.row[k].seq
                 /\ \E m \in 1..(i - 1) : rows[m].key = k /\ Plain(g.row[k]) = Plain(rows[m].v)
        <5>1. \A m \in 1..(i - 1) : m \in 1..i
          BY <1>1
        <5> QED
          BY <3>2, <4>2, <5>1 DEF Rows
      <4> QED
        BY <2>2, <3>2, <4>1, <4>2 DEF Merged
    <3>3. CASE Touched(h, g, x, k)
      BY <1>f, <2>4, <3>1, <3>3 DEF Touched
    <3>4. CASE k \in Rows(x) /\ g.seq < x.row[k].seq /\ r.key = k /\ Plain(x.row[k]) = Plain(r.v)
      <4>1. i \in 1..i /\ rows[i].key = k /\ Plain(x.row[k]) = Plain(rows[i].v)
        BY <1>1, <3>4 DEF r
      <4>2. f.seq < x.row[k].seq
        BY <1>f, <2>4, <3>1, <3>4
      <4> QED
        BY <3>4, <4>1, <4>2
    <3> QED
      BY <2>3, <3>2, <3>3, <3>4 DEF x
  <2>7. ASSUME NEW k \in Rows(f) PROVE k \in Rows(x) /\ NotBefore(x.row[k].at, f.row[k].at)
    <3>1. k \in Rows(g) /\ NotBefore(g.row[k].at, f.row[k].at)
      BY <2>2 DEF Merged
    <3>2. k \in Rows(x) /\ NotBefore(x.row[k].at, g.row[k].at)
      BY <2>3, <3>1 DEF x
    <3>3. f.row[k].at \in Stamp
      BY <1>f DEF File, Rows, Version
    <3> QED
      BY <2>4, <3>1, <3>2, <3>3, NotBeforeIsOrder
  <2>8. ASSUME NEW m \in 1..i PROVE rows[m].key \in Rows(x) /\ NotBefore(x.row[rows[m].key].at, rows[m].v.at)
    <3>1. CASE m = i
      BY <2>3, <3>1 DEF x, r
    <3>2. CASE m # i
      <4>0. m \in 1..(i - 1) /\ m \in 1..Len(rows)
        BY <1>1, <3>2
      <4>1. rows[m].key \in Rows(g) /\ NotBefore(g.row[rows[m].key].at, rows[m].v.at)
        BY <2>2, <4>0 DEF Merged
      <4>2. rows[m].key \in Rows(x) /\ NotBefore(x.row[rows[m].key].at, g.row[rows[m].key].at)
        BY <2>3, <4>1 DEF x
      <4>3. rows[m].v.at \in Stamp
        <5>1. rows[m] \in Row
          BY <4>0
        <5> QED
          BY <5>1 DEF Row, Version
      <4> QED
        BY <2>4, <4>1, <4>2, <4>3, NotBeforeIsOrder
    <3> QED
      BY <3>1, <3>2
  <2>9. Merged(h, f, x, rows, i)
    BY <2>5, <2>6, <2>7, <2>8 DEF Merged
  <2>10. e.kept \subseteq kept \union DOMAIN t
    BY <2>2, <2>3
  <2> QED
    BY <2>3, <2>9, <2>10 DEF x, e
<1>6. ASSUME T # {} PROVE FALSE
  <2>1. PICK n \in T : \A m \in T : ~(m < n)
    <3>1. T \subseteq Nat
      OBVIOUS
    <3> HIDE DEF T
    <3> QED
      BY <1>6, <3>1, LeastNumber
  <2>2. n # 0
    BY <1>4, <2>1
  <2>3. n - 1 \in 0..Len(rows) /\ n - 1 < n /\ n \in 1..Len(rows)
    BY <1>1, <2>1, <2>2
  <2>4. P(n - 1)
    BY <2>1, <2>3
  <2> HIDE DEF P
  <2> QED
    BY <1>5, <2>1, <2>3, <2>4
<1>7. P(Len(rows))
  <2>1. Len(rows) \in 0..Len(rows)
    BY <1>1
  <2> HIDE DEF P
  <2> QED
    BY <1>6, <2>1
<1> QED
  BY <1>2, <1>7

(* A whole page is applied: the file is in order again, and it knows how far
   it has the peer's changes. *)
Pulled(h, f, p, page) ==
  LET done == ApplyRows(h, f, page.rows)
  IN [done.f EXCEPT !.hlc = Highest(done.f, page.rows),
                    !.peer[p] = [db |-> page.db, cursor |-> page.next]]

IsPulled(h, t, f, p, page, g) ==
  /\ Proper(t, now[h], g)
  /\ f.hlc <= g.hlc /\ f.seq <= g.seq
  /\ g.id = f.id /\ g.served = f.served /\ g.handed = f.handed
  /\ g.peer = [f.peer EXCEPT ![p] = [db |-> page.db, cursor |-> page.next]]
  /\ \A k \in Key :
       \/ g.row[k] = f.row[k]
       \/ Touched(h, f, g, k)
       \/ /\ k \in Rows(g) /\ f.seq < g.row[k].seq
          /\ \E m \in 1..Len(page.rows) :
               page.rows[m].key = k /\ Plain(g.row[k]) = Plain(page.rows[m].v)
  /\ \A k \in Rows(f) : k \in Rows(g) /\ NotBefore(g.row[k].at, f.row[k].at)
  /\ \A m \in 1..Len(page.rows) :
       page.rows[m].key \in Rows(g) /\ NotBefore(g.row[page.rows[m].key].at, page.rows[m].v.at)

SameButAhead(f, g) == f \in File /\ g.row = f.row /\ f.hlc <= g.hlc

LEMMA PulledIs ==
  ASSUME NEW h \in Host, NEW t, now[h] \in Nat, NEW f, Proper(t, now[h], f), NEW p \in Host, NEW page,
         page.rows \in Seq(Row), page.db \in Nat, page.next \in Nat,
         \A i \in 1..Len(page.rows) : /\ Sound(t, page.rows[i].key, page.rows[i].v)
                                      /\ page.rows[i].v.at.clock <= now[h] + MaxAhead
  PROVE  /\ IsPulled(h, t, f, p, page, Pulled(h, f, p, page))
         /\ SameButAhead(ApplyRows(h, f, page.rows).f, Pulled(h, f, p, page))
         /\ ApplyRows(h, f, page.rows).kept \subseteq kept \union DOMAIN t
<1> DEFINE rows == page.rows
           e == ApplyRows(h, f, rows).f
           c == Highest(e, rows)
           n == Len(rows)
           last == [db |-> page.db, cursor |-> page.next]
           g == Pulled(h, f, p, page)
<1>1. rows \in Seq(Row) /\ n \in Nat /\ Orderly(t, now[h], f)
      /\ \A i \in 1..n : rows[i] \in Row /\ Sound(t, rows[i].key, rows[i].v) /\ rows[i].v.at.clock <= now[h] + MaxAhead
  BY DEF Proper
<1>2. /\ Orderly(t, now[h], e) /\ Merged(h, f, e, rows, n)
      /\ ApplyRows(h, f, rows).kept \subseteq kept \union DOMAIN t
  BY <1>1, PageApplied
<1>3. \A i \in 1..n : rows[i].key \in Key /\ rows[i].v \in Version /\ rows[i].v.at \in Stamp /\ rows[i].v.at.clock \in Nat
  BY <1>1 DEF Row, Version, Stamp
<1>4. g = [e EXCEPT !.hlc = c, !.peer[p] = last]
  BY DEF Pulled
<1> HIDE DEF e, g
<1>5. /\ e \in File /\ e.hlc \in Nat /\ e.seq \in Nat /\ f \in File /\ f.hlc \in Nat /\ f.seq \in Nat
      /\ e.row \in [Key -> Version \union {None}]
      /\ \A k \in Rows(e) : k \in Key /\ e.row[k].at.clock \in Nat /\ e.row[k].at \in Stamp
  BY <1>1, <1>2 DEF Orderly, File, Rows, Version, Stamp
<1>6. MaxAhead \in Nat
  BY SyncAssumption DEF SyncAssumption
<1>7. /\ c \in Nat /\ c >= e.hlc
      /\ \A i \in 1..n : c >= rows[i].v.at.clock
      /\ c = e.hlc \/ \E i \in 1..n : c = rows[i].v.at.clock
  <2> HIDE DEF rows, n, c
  <2>1. Len(rows) \in Nat /\ \A i \in 1..Len(rows) : rows[i].v.at.clock \in Nat
    BY <1>1, <1>3 DEF n
  <2> QED
    BY <1>5, <2>1, HighestIs DEF c, n
<1> HIDE DEF c, rows, last
<1>8. c <= now[h] + MaxAhead + e.seq
  <2>1. e.hlc <= now[h] + MaxAhead + e.seq
    BY <1>2 DEF Orderly
  <2>2. \A i \in 1..n : rows[i].v.at.clock <= now[h] + MaxAhead + e.seq
    <3> SUFFICES ASSUME NEW i \in 1..n PROVE rows[i].v.at.clock <= now[h] + MaxAhead + e.seq
      OBVIOUS
    <3>1. rows[i].v.at.clock <= now[h] + MaxAhead /\ rows[i].v.at.clock \in Nat
      BY <1>1, <1>3 DEF rows
    <3> QED
      BY <1>5, <1>6, <3>1
  <2> QED
    BY <1>7, <2>1, <2>2
<1>9. /\ g.row = e.row /\ g.seq = e.seq /\ g.hlc = c /\ g.id = e.id
      /\ g.served = e.served /\ g.handed = e.handed
      /\ g.peer = [e.peer EXCEPT ![p] = last]
      /\ g = [row |-> g.row, seq |-> g.seq, hlc |-> g.hlc, id |-> g.id, served |-> g.served,
              handed |-> g.handed, peer |-> g.peer]
  <2>1. e = [row |-> e.row, seq |-> e.seq, hlc |-> e.hlc, id |-> e.id, served |-> e.served,
             handed |-> e.handed, peer |-> e.peer]
    BY <1>5 DEF File
  <2> QED
    BY <1>4, <2>1
<1>10. g \in File
  <2>1. last \in [db: Nat, cursor: Nat]
    BY DEF last
  <2>2. /\ e.id \in Nat /\ e.served \in [Host -> Nat] /\ e.handed \in [Host -> Nat]
        /\ e.peer \in [Host -> [db: Nat, cursor: Nat]]
    BY <1>5 DEF File
  <2>3. g.peer \in [Host -> [db: Nat, cursor: Nat]]
    BY <1>9, <2>1, <2>2
  <2> QED
    BY <1>5, <1>7, <1>9, <2>2, <2>3 DEF File
<1>11. Rows(g) = Rows(e)
  BY <1>9 DEF Rows
<1>12. Orderly(t, now[h], g)
  <2>1. \A k \in Rows(g) : g.row[k].at.clock <= g.hlc \/ g.row[k].at.clock <= now[h] + MaxAhead
    BY <1>2, <1>5, <1>7, <1>9, <1>11 DEF Orderly
  <2> QED
    BY <1>2, <1>8, <1>9, <1>10, <1>11, <2>1 DEF Orderly
<1>13. /\ Continues(f, e) /\ f.hlc <= g.hlc /\ f.seq <= g.seq
       /\ g.id = f.id /\ g.served = f.served /\ g.handed = f.handed
       /\ g.peer = [f.peer EXCEPT ![p] = last]
  <2>1. Continues(f, e)
    BY <1>2 DEF Merged
  <2> QED
    BY <1>5, <1>7, <1>9, <2>1 DEF Continues
<1>14. ASSUME NEW k \in Key
       PROVE  \/ g.row[k] = f.row[k]
              \/ Touched(h, f, g, k)
              \/ /\ k \in Rows(g) /\ f.seq < g.row[k].seq
                 /\ \E m \in 1..n : rows[m].key = k /\ Plain(g.row[k]) = Plain(rows[m].v)
  <2>1. CASE Touched(h, f, e, k)
    BY <1>5, <1>7, <1>9, <1>11, <2>1 DEF Touched
  <2>2. CASE ~Touched(h, f, e, k)
    BY <1>2, <1>9, <1>11, <2>2 DEF Merged
  <2> QED
    BY <2>1, <2>2
<1>15. /\ \A k \in Rows(f) : k \in Rows(g) /\ NotBefore(g.row[k].at, f.row[k].at)
       /\ \A m \in 1..n : rows[m].key \in Rows(g) /\ NotBefore(g.row[rows[m].key].at, rows[m].v.at)
  BY <1>2, <1>9, <1>11 DEF Merged
<1>16. \A k \in Rows(g) : g.row[k].at.clock <= g.hlc
  <2> SUFFICES ASSUME NEW k \in Rows(g) PROVE g.row[k].at.clock <= g.hlc
    OBVIOUS
  <2>0. k \in Key /\ g.row[k].at.clock \in Nat /\ g.row[k] \in Version
    BY <1>5, <1>9, <1>11 DEF Rows
  <2>1. CASE g.row[k] = f.row[k]
    <3>1. k \in Rows(f)
      BY <2>0, <2>1 DEF Rows
    <3>2. f.row[k].at.clock <= f.hlc
      BY <3>1 DEF Proper
    <3> QED
      BY <1>5, <1>7, <1>9, <1>13, <2>0, <2>1, <3>2
  <2>2. CASE Touched(h, f, g, k)
    BY <2>2 DEF Touched
  <2>3. CASE \E m \in 1..n : rows[m].key = k /\ Plain(g.row[k]) = Plain(rows[m].v)
    <3>1. PICK m \in 1..n : rows[m].key = k /\ Plain(g.row[k]) = Plain(rows[m].v)
      BY <2>3
    <3>2. g.row[k].at = rows[m].v.at
      BY <1>3, <2>0, <3>1, PlainStamps
    <3> QED
      BY <1>7, <1>9, <3>2
  <2> QED
    BY <1>14, <2>0, <2>1, <2>2, <2>3
<1>17. IsPulled(h, t, f, p, page, g)
  BY <1>12, <1>13, <1>14, <1>15, <1>16 DEF IsPulled, Proper, rows, last
<1> QED
  BY <1>2, <1>5, <1>7, <1>9, <1>17 DEF e, g, rows, SameButAhead

-----------------------------------------------------------------------------
(* The invariant of every run, with restores or without.                   *)

Page == [db: Nat, rows: Seq(Row), next: Nat, more: BOOLEAN]
Pull == [pc: {"idle", "ask", "page"}, peer: Host, db: Nat, cursor: Nat, resets: Nat,
         page: Page \union {None}]

Types ==
  /\ TypeOK
  /\ pull \in [Host -> Pull]
  /\ \A h \in Host : pull[h].pc = "page" => pull[h].page \in Page
  /\ texts \in Seq(Text)

SoundPage(t, page) == \A i \in 1..Len(page.rows) : Sound(t, page.rows[i].key, page.rows[i].v)

FilesInOrder ==
  \A h \in Host :
    /\ Proper(texts, now[h], file[h])
    /\ backup[h] # None => Proper(texts, now[h], backup[h])
    /\ pull[h].pc = "page" => SoundPage(texts, pull[h].page)

(* The history follows the file. *)
TopFollows ==
  \A h \in Host : \A k \in Key :
    /\ file[h].row[k] # None => top[h][k] = file[h].row[k].at
    /\ top[h][k] # None => top[h][k].clock <= file[h].hlc

Inv == Types /\ FilesInOrder /\ TopFollows

(* A step that leaves every file as it is. *)
Quiet ==
  /\ UNCHANGED <<file, ids, texts, kept, top, lossy>>
  /\ now' \in [Host -> Nat] /\ \A h \in Host : now[h] <= now'[h]
  /\ backup' \in [Host -> File \union {None}] /\ \A h \in Host : backup'[h] \in {None, backup[h], file[h]}
  /\ left' \in [Kind -> Nat] /\ \A kind \in Kind : left'[kind] <= left[kind]
  /\ left'["restores"] = left["restores"]
  /\ pull' \in [Host -> Pull] /\ \A h \in Host : pull'[h] = pull[h] \/ pull'[h].pc # "page"

(* A host writes its own file. *)
WritesTo(h, g) ==
  /\ Proper(texts', now[h], g) /\ Written(h, file[h], g)
  /\ Saves(h, g) /\ LocalOnly
  /\ texts' \in Seq(Text) /\ More(texts, texts')
  /\ left' \in [Kind -> Nat] /\ \A kind \in Kind : left'[kind] <= left[kind]
  /\ left'["restores"] = left["restores"]

LEMMA SpendIs ==
  ASSUME left \in [Kind -> Nat], NEW kind \in Kind, Spend(kind)
  PROVE  /\ left' \in [Kind -> Nat] /\ \A other \in Kind : left'[other] <= left[other]
         /\ \A other \in Kind : other # kind => left'[other] = left[other]
BY DEF Spend

LEMMA LatestIs ==
  ASSUME NEW s \in Nat, NEW t \in Nat
  PROVE  Latest(s, t) \in Nat /\ s <= Latest(s, t) /\ t <= Latest(s, t)
BY DEF Latest

LEMMA IdlesIs ==
  ASSUME pull \in [Host -> Pull], NEW h \in Host
  PROVE  /\ Idles(h) \in [Host -> Pull]
         /\ Idles(h)[h].pc = "idle"
         /\ \A q \in Host : q # h => Idles(h)[q] = pull[q]
<1>1. pull[h] \in Pull
  OBVIOUS
<1> DEFINE x == [pull[h] EXCEPT !.pc = "idle", !.page = None, !.cursor = 0, !.resets = 0, !.db = 0]
<1>2. x \in Pull /\ x.pc = "idle"
  BY <1>1 DEF Pull
<1>3. Idles(h) = [pull EXCEPT ![h] = x]
  BY <1>1 DEF Idles, Pull
<1> HIDE DEF x
<1> QED
  BY <1>2, <1>3

(* What was said about a text stays true of it. *)
LEMMA TextsGrow ==
  ASSUME texts \in Seq(Text), NEW h \in Host, NEW k \in Key, NEW over, over = None \/ over \in DOMAIN texts,
         Wrote(h, k, over)
  PROVE  /\ texts' \in Seq(Text) /\ More(texts, texts')
         /\ Len(texts) \in Nat
         /\ Len(texts) + 1 \in DOMAIN texts' /\ texts'[Len(texts) + 1].key = k
         /\ DOMAIN texts' = DOMAIN texts \union {Len(texts) + 1}
<1> DEFINE o == IF over = None THEN {} ELSE {over} \union texts[over].over
           e == [by |-> h, key |-> k, over |-> o]
<1>1. DOMAIN texts = 1..Len(texts) /\ Len(texts) \in Nat /\ \A i \in 1..Len(texts) : texts[i] \in Text
  OBVIOUS
<1>2. o \in SUBSET Nat
  BY <1>1 DEF Text
<1>3. e \in Text /\ e.key = k
  BY <1>2 DEF Text
<1>4. texts' = Append(texts, e)
  BY DEF Wrote
<1> HIDE DEF e, o
<1>5. /\ texts' \in Seq(Text) /\ Len(texts') = Len(texts) + 1
      /\ \A i \in 1..Len(texts) : texts'[i] = texts[i]
      /\ texts'[Len(texts) + 1] = e
  BY <1>1, <1>3, <1>4
<1>6. DOMAIN texts' = 1..(Len(texts) + 1)
  BY <1>5
<1> QED
  BY <1>1, <1>3, <1>5, <1>6 DEF More

(* Text j is text i, or was written over it by one who saw it. *)
Over(t, j, i) == i = j \/ i \in t[j].over

Closed(t) ==
  /\ t \in Seq(Text)
  /\ \A j \in DOMAIN t : \A i \in t[j].over : i \in DOMAIN t /\ t[i].over \subseteq t[j].over

(* x is host h's next version of a row that it has as v, or that it did not have. *)
Goes(t, h, v, x) ==
  IF v = None THEN x.base = None ELSE x.base = BaseOf(h, v) /\ Over(t, x.text, v.text)

(* Host h makes of its file f, edit by edit, the file g; t: the texts. *)
Built(h, t, f, g, k) ==
  \/ g.row[k] = f.row[k]
  \/ Touched(h, f, g, k) /\ Goes(t, h, f.row[k], g.row[k])

Builds(h, t, f, g) == \A k \in Key : Built(h, t, f, g, k)

(* The texts u are the texts t with what the file g brings. *)
Adds(t, u, g) ==
  /\ DOMAIN t \subseteq DOMAIN u /\ \A i \in DOMAIN t : u[i] = t[i]
  /\ \A i \in DOMAIN u : i \in DOMAIN t \/ (u[i].key \in Rows(g) /\ g.row[u[i].key].text = i)
  /\ Closed(t) => Closed(u)

(* A text is written over what its writer saw. *)
LEMMA TextWritten ==
  ASSUME texts \in Seq(Text), NEW h \in Host, NEW k \in Key, NEW over, over = None \/ over \in DOMAIN texts,
         Wrote(h, k, over)
  PROVE  /\ over # None => Over(texts', Len(texts) + 1, over)
         /\ \A g : k \in Rows(g) /\ g.row[k].text = Len(texts) + 1 => Adds(texts, texts', g)
<1> DEFINE n == Len(texts) + 1
           o == IF over = None THEN {} ELSE {over} \union texts[over].over
           e == [by |-> h, key |-> k, over |-> o]
<1>1. DOMAIN texts = 1..Len(texts) /\ Len(texts) \in Nat /\ \A i \in 1..Len(texts) : texts[i] \in Text
  OBVIOUS
<1>2. o \in SUBSET Nat
  BY <1>1 DEF Text
<1>3. e \in Text /\ e.key = k /\ e.over = o
  BY <1>2 DEF Text
<1>4. texts' = Append(texts, e)
  BY DEF Wrote
<1>5. (over # None => over \in o) /\ (over \notin DOMAIN texts => o = {})
  OBVIOUS
<1>6. over \in DOMAIN texts => o = {over} \union texts[over].over
  BY <1>1, SyncAssumption DEF SyncAssumption
<1> HIDE DEF e, o
<1>7. /\ texts' \in Seq(Text) /\ DOMAIN texts' = DOMAIN texts \union {n} /\ n \notin DOMAIN texts
      /\ \A i \in DOMAIN texts : texts'[i] = texts[i]
      /\ texts'[n] = e
  BY <1>1, <1>3, <1>4
<1>8. ASSUME Closed(texts) PROVE Closed(texts')
  <2> SUFFICES ASSUME NEW j \in DOMAIN texts', NEW i \in texts'[j].over
               PROVE  i \in DOMAIN texts' /\ texts'[i].over \subseteq texts'[j].over
    BY <1>7 DEF Closed
  <2>1. CASE j \in DOMAIN texts
    BY <1>7, <1>8, <2>1 DEF Closed
  <2>2. CASE j = n
    <3>1. i \in o
      BY <1>3, <1>7, <2>2
    <3>2. over \in DOMAIN texts /\ o = {over} \union texts[over].over
      BY <1>5, <1>6, <3>1
    <3>3. i \in DOMAIN texts /\ texts[i].over \subseteq o
      BY <1>8, <3>1, <3>2 DEF Closed
    <3> QED
      BY <1>3, <1>7, <2>2, <3>3
  <2> QED
    BY <1>7, <2>1, <2>2
<1> HIDE DEF n
<1>9. over # None => Over(texts', n, over)
  BY <1>3, <1>5, <1>7 DEF Over
<1>10. ASSUME NEW g, k \in Rows(g), g.row[k].text = n PROVE Adds(texts, texts', g)
  BY <1>3, <1>7, <1>8, <1>10 DEF Adds
<1> QED
  BY <1>9, <1>10 DEF n

(* What an edit and a new row are built on. *)
LEMMA EditBuilds ==
  ASSUME NEW h \in Host, NEW t, now[h] \in Nat, NEW f, Proper(t, now[h], f),
         NEW k \in Rows(f), NEW v \in Version, v.text \in DOMAIN t, t[v.text].key = k,
         RowKind[k] = "upload" /\ ~v.dead => v.holds,
         v.holds => \A j \in Rows(f) : Shares(j, k) => ~f.row[j].holds,
         Over(t, v.text, f.row[k].text)
  PROVE  LET g == Edited(f, h, k, v)
         IN Builds(h, t, f, g) /\ k \in Rows(g) /\ g.row[k].text = v.text
<1> DEFINE g == Edited(f, h, k, v)
<1>1. /\ Touched(h, f, g, k) /\ \A j \in Key \ {k} : g.row[j] = f.row[j]
      /\ g.row[k].text = v.text
  BY EditedIs
<1>2. f \in File /\ k \in Key /\ f.row[k] # None
  BY DEF Proper, Orderly, Rows
<1>3. g.row[k].base = BaseOf(h, f.row[k])
  <2> DEFINE b == BaseOf(h, f.row[k])
             a == [clock |-> NextClock(h, f.hlc), origin |-> h]
             x == [v EXCEPT !.at = a, !.base = b, !.seq = f.seq + 1]
  <2>1. g.row[k] = x
    BY <1>2 DEF Edited, File
  <2> HIDE DEF a, b, g
  <2>2. x.base = b
    BY DEF Version
  <2> QED
    BY <2>1, <2>2 DEF b
<1> HIDE DEF g
<1>4. Goes(t, h, f.row[k], g.row[k])
  BY <1>1, <1>2, <1>3 DEF Goes
<1>5. k \in Rows(g)
  BY <1>1 DEF Touched
<1> QED
  BY <1>1, <1>4, <1>5 DEF Builds, Built, g

LEMMA InsertBuilds ==
  ASSUME NEW h \in Host, NEW t, now[h] \in Nat, NEW f, Proper(t, now[h], f),
         NEW k \in Key, f.row[k] = None,
         Len(texts) \in Nat, Len(texts) + 1 \in DOMAIN t, t[Len(texts) + 1].key = k,
         \A j \in Rows(f) : Shares(j, k) => ~f.row[j].holds
  PROVE  LET g == Inserted(f, h, k)
         IN Builds(h, t, f, g) /\ k \in Rows(g) /\ g.row[k].text = Len(texts) + 1
<1> DEFINE g == Inserted(f, h, k)
<1>1. /\ Touched(h, f, g, k) /\ \A j \in Key \ {k} : g.row[j] = f.row[j]
      /\ g.row[k].text = Len(texts) + 1
  BY InsertedIs
<1>2. f \in File
  BY DEF Proper, Orderly
<1>3. g.row[k].base = None
  BY <1>2 DEF Inserted, File
<1> HIDE DEF g
<1>4. Goes(t, h, f.row[k], g.row[k])
  BY <1>3 DEF Goes
<1>5. k \in Rows(g)
  BY <1>1 DEF Touched
<1> QED
  BY <1>1, <1>4, <1>5 DEF Builds, Built, g

(* Two edits of different rows. *)
LEMMA BuildsTwice ==
  ASSUME NEW h, NEW t, NEW f \in File, NEW g \in File, NEW e \in File,
         Continues(f, g), Continues(g, e), Builds(h, t, f, g), Builds(h, t, g, e),
         \A k \in Key : g.row[k] = f.row[k] \/ e.row[k] = g.row[k]
  PROVE  Builds(h, t, f, e)
<1>1. /\ f.hlc \in Nat /\ f.seq \in Nat /\ g.hlc \in Nat /\ g.seq \in Nat /\ e.hlc \in Nat /\ e.seq \in Nat
      /\ f.hlc <= g.hlc /\ g.hlc <= e.hlc /\ f.seq <= g.seq
  BY DEF File, Continues
<1>2. ASSUME NEW k \in Key PROVE Built(h, t, f, e, k)
  <2>1. CASE e.row[k] = g.row[k]
    <3>1. CASE g.row[k] = f.row[k]
      BY <2>1, <3>1 DEF Built
    <3>2. CASE Touched(h, f, g, k) /\ Goes(t, h, f.row[k], g.row[k])
      <4>1. g.row[k].at.clock \in Nat /\ k \in Rows(e)
        BY <2>1, <3>2 DEF Touched, Rows, File, Version, Stamp
      <4>2. Touched(h, f, e, k)
        BY <1>1, <2>1, <3>2, <4>1 DEF Touched
      <4> QED
        BY <2>1, <3>2, <4>2 DEF Built
    <3> QED
      BY <3>1, <3>2 DEF Builds, Built
  <2>2. CASE g.row[k] = f.row[k] /\ Touched(h, g, e, k) /\ Goes(t, h, g.row[k], e.row[k])
    <3>1. e.row[k].at.clock \in Nat /\ e.row[k].seq \in Nat
      BY <2>2 DEF Touched, Rows, File, Version, Stamp
    <3>2. Touched(h, f, e, k)
      BY <1>1, <2>2, <3>1 DEF Touched
    <3> QED
      BY <2>2, <3>2 DEF Built
  <2> QED
    BY <2>1, <2>2 DEF Builds, Built
<1> QED
  BY <1>2 DEF Builds

(* A row that was never made is in no file. *)
LEMMA FreshIsAbsent ==
  ASSUME Inv, NEW h \in Host, NEW k \in Fresh
  PROVE  k \in Key /\ file[h].row[k] = None
<1>1. file[h] \in File /\ Proper(texts, now[h], file[h]) /\ k \in Key
  BY DEF Inv, Types, TypeOK, FilesInOrder, Fresh
<1>2. ASSUME file[h].row[k] # None PROVE FALSE
  <2>1. k \in Rows(file[h])
    BY <1>1, <1>2 DEF Rows
  <2>2. Sound(texts, k, file[h].row[k])
    BY <1>1, <2>1 DEF Proper, Orderly
  <2> QED
    BY <2>2 DEF Sound, Fresh
<1> QED
  BY <1>1, <1>2

(* With v's field set to what it may be, the rest of it is as it was. *)
LEMMA FieldSet ==
  ASSUME NEW v \in Version
  PROVE  \A b \in BOOLEAN :
              /\ LET x == [v EXCEPT !.dead = b]
                 IN x \in Version /\ x.text = v.text /\ x.dead = b /\ x.holds = v.holds
              /\ LET x == [v EXCEPT !.holds = b]
                 IN x \in Version /\ x.text = v.text /\ x.dead = v.dead /\ x.holds = b
<1>1. v = [at |-> v.at, base |-> v.base, dead |-> v.dead, holds |-> v.holds, text |-> v.text, seq |-> v.seq]
  BY DEF Version
<1>2. /\ v.at \in Stamp /\ v.base \in Stamp \union {None} /\ v.dead \in BOOLEAN /\ v.holds \in BOOLEAN
      /\ v.text \in Nat /\ v.seq \in Nat
  BY DEF Version
<1>4. ASSUME NEW b \in BOOLEAN
      PROVE  LET x == [v EXCEPT !.dead = b]
             IN x \in Version /\ x.text = v.text /\ x.dead = b /\ x.holds = v.holds
  BY <1>1, <1>2 DEF Version
<1>5. ASSUME NEW b \in BOOLEAN
      PROVE  LET x == [v EXCEPT !.holds = b]
             IN x \in Version /\ x.text = v.text /\ x.dead = v.dead /\ x.holds = b
  BY <1>1, <1>2 DEF Version
<1> QED
  BY <1>4, <1>5

(* groceries() sets a tombstoned list aside: then no list holds the source. *)
LEMMA SetAside ==
  ASSUME NEW h \in Host, NEW t, now[h] \in Nat, NEW f, Proper(t, now[h], f),
         NEW j \in Rows(f), RowKind[j] = "list", f.row[j].holds, NEW v \in Version, v.text = f.row[j].text, ~v.holds
  PROVE  LET g == Edited(f, h, j, v)
         IN /\ Proper(t, now[h], g) /\ Written(h, f, g) /\ Builds(h, t, f, g)
            /\ \A k \in Key \ {j} : g.row[k] = f.row[k]
            /\ \A k \in Rows(g) : RowKind[k] = "list" => ~g.row[k].holds
<1> DEFINE g == Edited(f, h, j, v)
<1>1. f \in File /\ j \in Rows(f) /\ f.row[j] \in Version /\ RowKind[j] = "list" /\ f.row[j].holds
      /\ Rows(f) \subseteq Key /\ Sound(t, j, f.row[j])
  BY DEF Proper, Orderly, File, Rows
<1>3. v.text \in DOMAIN t /\ t[v.text].key = j
  BY <1>1 DEF Sound
<1>4. /\ Proper(t, now[h], g) /\ Written(h, f, g)
      /\ \A k \in Key \ {j} : g.row[k] = f.row[k]
      /\ g.row[j].holds = v.holds
  BY <1>1, <1>3, EditedIs
<1>6. Builds(h, t, f, g)
  <2>1. Over(t, v.text, f.row[j].text)
    BY DEF Over
  <2> HIDE DEF g
  <2> QED
    BY <1>1, <1>3, <2>1, EditBuilds DEF g
<1> HIDE DEF g
<1>5. ASSUME NEW k \in Rows(g), RowKind[k] = "list" PROVE ~g.row[k].holds
  <2>1. CASE k = j
    BY <1>4, <2>1
  <2>2. CASE k # j
    <3>1. k \in Rows(f) /\ g.row[k] = f.row[k]
      BY <1>4, <2>2 DEF Rows
    <3>2. Shares(j, k)
      BY <1>1, <1>5, <2>2 DEF Shares
    <3> QED
      BY <1>1, <3>1, <3>2 DEF Proper, Orderly
  <2> QED
    BY <2>1, <2>2
<1> QED
  BY <1>4, <1>5, <1>6 DEF g

(* What h writes is built on what it has. *)
Makes(h, g) == Builds(h, texts', file[h], g) /\ Adds(texts, texts', g)

LEMMA GroceriesWrites ==
  ASSUME Inv, NEW h \in Host, NEW k \in Key, Groceries(h, k)
  PROVE  \E g : WritesTo(h, g) /\ Makes(h, g)
<1> DEFINE f == file[h]
           lists == {j \in Rows(f) : RowKind[j] = "list"}
           found == {j \in lists : f.row[j].holds}
           set == {j \in Rows(f) : RowKind[j] = "list" /\ f.row[j].holds}
           aside == IF found = {} THEN f
                    ELSE LET j == CHOOSE j \in found : TRUE
                         IN Edited(f, h, j, [f.row[j] EXCEPT !.holds = FALSE])
           renamed == {j \in lists \ found : ~f.row[j].dead}
<1>1. /\ f \in File /\ now[h] \in Nat /\ Proper(texts, now[h], f) /\ texts \in Seq(Text)
      /\ left \in [Kind -> Nat] /\ file \in [Host -> File]
  BY DEF Inv, Types, TypeOK, FilesInOrder
<1>2. /\ RowKind[k] = "list" /\ LocalOnly /\ Spend("lists")
      /\ \/ /\ k \in renamed
            /\ Saves(h, Edited(aside, h, k, [f.row[k] EXCEPT !.holds = TRUE]))
            /\ UNCHANGED texts
         \/ /\ renamed = {} /\ k \in Fresh
            /\ Saves(h, Inserted(aside, h, k)) /\ Wrote(h, k, None)
  BY DEF Groceries
<1>3. /\ left' \in [Kind -> Nat] /\ \A kind \in Kind : left'[kind] <= left[kind]
      /\ left'["restores"] = left["restores"]
  BY <1>1, <1>2, SpendIs DEF Kind
<1>4. texts' \in Seq(Text) /\ More(texts, texts')
  <2>1. CASE UNCHANGED texts
    BY <1>1, <2>1 DEF More
  <2>2. CASE Wrote(h, k, None)
    BY <1>1, <2>2, TextsGrow
  <2> QED
    BY <1>2, <2>1, <2>2
<1>5. Proper(texts', now[h], f)
  BY <1>1, <1>4, ProperStays
<1>6. /\ Proper(texts', now[h], aside) /\ Written(h, f, aside) /\ Builds(h, texts', f, aside)
      /\ \A j \in Key : j \notin found => aside.row[j] = f.row[j]
      /\ \A j \in Rows(aside) : RowKind[j] = "list" => ~aside.row[j].holds
  <2>1. CASE found = {}
    <3>1. Written(h, f, f)
      BY <1>1 DEF Written, Continues, File
    <3>2. Builds(h, texts', f, f)
      BY DEF Builds, Built
    <3> QED
      BY <1>5, <2>1, <3>1, <3>2
  <2>2. CASE found # {}
    <3> DEFINE j == CHOOSE j \in found : TRUE
    <3>1. j \in found
      BY <2>2
    <3>2. aside = Edited(f, h, j, [f.row[j] EXCEPT !.holds = FALSE])
      BY <2>2
    <3>3. found = set
      OBVIOUS
    <3> HIDE DEF j, aside, found, f
    <3>4. found = {i \in Rows(f) : RowKind[i] = "list" /\ f.row[i].holds}
      BY <3>3 DEF f
    <3> HIDE DEF set
    <3> DEFINE v == [f.row[j] EXCEPT !.holds = FALSE]
               g == Edited(f, h, j, v)
    <3>5. g = aside
      BY <3>2
    <3>7. v \in Version /\ v.text = f.row[j].text /\ ~v.holds
      <4>1. j \in Rows(f) /\ f \in File
        BY <1>1, <3>1, <3>4
      <4>2. f.row[j] \in Version /\ f.row[j].text \in Nat
        BY <4>1 DEF File, Rows, Version
      <4> QED
        BY <4>2, FieldSet
    <3> HIDE DEF g, v
    <3>6. /\ Proper(texts', now[h], g) /\ Written(h, f, g) /\ Builds(h, texts', f, g)
          /\ \A i \in Key \ {j} : g.row[i] = f.row[i]
          /\ \A i \in Rows(g) : RowKind[i] = "list" => ~g.row[i].holds
      <4>1. j \in Rows(f) /\ RowKind[j] = "list" /\ f.row[j].holds
        BY <3>1, <3>4
      <4> QED
        BY <1>1, <1>5, <3>7, <4>1, SetAside DEF g
    <3> QED
      BY <3>1, <3>5, <3>6
  <2> HIDE DEF f, found, aside
  <2> QED
    BY <2>1, <2>2
<1> HIDE DEF aside
<1>7. aside \in File
  BY <1>6 DEF Proper, Orderly
<1>8. CASE k \in renamed /\ Saves(h, Edited(aside, h, k, [f.row[k] EXCEPT !.holds = TRUE]))
  <2> DEFINE v == [f.row[k] EXCEPT !.holds = TRUE]
             g == Edited(aside, h, k, v)
  <2>1. k \in Rows(f) /\ f.row[k] \in Version /\ k \notin found /\ Sound(texts', k, f.row[k])
    BY <1>1, <1>5, <1>8 DEF Proper, Orderly, File, Rows
  <2>2. v \in Version /\ v.text = f.row[k].text /\ v.dead = f.row[k].dead /\ v.holds
    <3>1. f.row[k].text \in Nat
      BY <2>1 DEF Version
    <3> QED
      BY <2>1, <3>1, FieldSet
  <2>3. k \in Rows(aside)
    BY <1>6, <2>1 DEF Rows
  <2> HIDE DEF v
  <2>4. v.text \in DOMAIN texts' /\ texts'[v.text].key = k
    BY <2>1, <2>2 DEF Sound
  <2>5. \A j \in Rows(aside) : Shares(j, k) => ~aside.row[j].holds
    BY <1>2, <1>6 DEF Shares
  <2>6. /\ Proper(texts', now[h], g) /\ Written(h, aside, g)
        /\ \A j \in Key \ {k} : g.row[j] = aside.row[j]
    BY <1>1, <1>6, <2>2, <2>3, <2>4, <2>5, EditedIs
  <2>10. aside.row[k] = f.row[k]
    BY <1>6, <2>1
  <2>11. Builds(h, texts', aside, g)
    <3>1. Over(texts', v.text, aside.row[k].text)
      BY <2>2, <2>10 DEF Over
    <3> HIDE DEF g
    <3> QED
      BY <1>1, <1>6, <2>2, <2>3, <2>4, <2>5, <3>1, EditBuilds DEF g
  <2> HIDE DEF g
  <2>7. g \in File
    BY <2>6 DEF Proper, Orderly
  <2>8. Written(h, f, g)
    BY <1>1, <1>6, <1>7, <2>6, <2>7, WrittenTwice
  <2>9. WritesTo(h, g)
    BY <1>2, <1>3, <1>4, <1>8, <2>6, <2>8 DEF WritesTo, g, v
  <2>12. UNCHANGED texts
    <3>1. k \notin Fresh
      BY <2>1, FreshIsAbsent DEF Rows
    <3> QED
      BY <1>2, <3>1
  <2>13. Builds(h, texts', f, g)
    BY <1>1, <1>6, <1>7, <2>6, <2>7, <2>10, <2>11, BuildsTwice DEF Written
  <2>14. Adds(texts, texts', g)
    BY <2>12 DEF Adds
  <2> QED
    BY <2>9, <2>13, <2>14 DEF Makes
<1>9. CASE k \in Fresh /\ Saves(h, Inserted(aside, h, k)) /\ Wrote(h, k, None)
  <2> DEFINE g == Inserted(aside, h, k)
  <2>1. f.row[k] = None
    BY <1>9, FreshIsAbsent
  <2>2. aside.row[k] = None
    <3>1. k \notin found
      BY <2>1 DEF Rows
    <3> QED
      BY <1>6, <2>1, <3>1
  <2>3. Len(texts) \in Nat /\ Len(texts) + 1 \in DOMAIN texts' /\ texts'[Len(texts) + 1].key = k
    BY <1>1, <1>9, TextsGrow
  <2>4. \A j \in Rows(aside) : Shares(j, k) => ~aside.row[j].holds
    BY <1>2, <1>6 DEF Shares
  <2>5. /\ Proper(texts', now[h], g) /\ Written(h, aside, g)
        /\ \A j \in Key \ {k} : g.row[j] = aside.row[j]
    BY <1>1, <1>6, <2>2, <2>3, <2>4, InsertedIs
  <2>9. Builds(h, texts', aside, g) /\ k \in Rows(g) /\ g.row[k].text = Len(texts) + 1
    BY <1>1, <1>6, <2>2, <2>3, <2>4, InsertBuilds
  <2> HIDE DEF g
  <2>6. g \in File
    BY <2>5 DEF Proper, Orderly
  <2>7. Written(h, f, g)
    BY <1>1, <1>6, <1>7, <2>5, <2>6, WrittenTwice
  <2>8. WritesTo(h, g)
    BY <1>2, <1>3, <1>4, <1>9, <2>5, <2>7 DEF WritesTo, g
  <2>10. Builds(h, texts', f, g)
    BY <1>1, <1>6, <1>7, <2>1, <2>2, <2>5, <2>6, <2>9, BuildsTwice DEF Written
  <2>11. Adds(texts, texts', g)
    BY <1>1, <1>9, <2>9, TextWritten
  <2> QED
    BY <2>8, <2>10, <2>11 DEF Makes
<1> QED
  BY <1>2, <1>8, <1>9

(* Every local write is a write of the host's own file. *)
LEMMA WritesAreWrites ==
  ASSUME Inv, NEW h \in Host, Writes(h)
  PROVE  \E g : WritesTo(h, g) /\ Makes(h, g)
<1> DEFINE f == file[h]
<1>1. /\ f \in File /\ now[h] \in Nat /\ Proper(texts, now[h], f) /\ texts \in Seq(Text)
      /\ left \in [Kind -> Nat] /\ file \in [Host -> File]
  BY DEF Inv, Types, TypeOK, FilesInOrder
<1>2. PICK k \in Key : \/ CreateNote(h, k) \/ InsertCapture(h, k) \/ Groceries(h, k)
                       \/ Update(h, k) \/ RemoveRow(h, k)
  BY DEF Writes
<1>3. CASE CreateNote(h, k) \/ InsertCapture(h, k)
  <2> DEFINE g == Inserted(f, h, k)
  <2>1. /\ k \in Fresh /\ Saves(h, g) /\ Wrote(h, k, None) /\ LocalOnly
        /\ \A j \in Rows(f) : Shares(j, k) => ~f.row[j].holds
    BY <1>3 DEF CreateNote, InsertCapture, Shares
  <2>2. /\ left' \in [Kind -> Nat] /\ \A kind \in Kind : left'[kind] <= left[kind]
        /\ left'["restores"] = left["restores"]
    <3>1. CASE CreateNote(h, k)
      BY <1>1, <3>1, SpendIs DEF Kind, CreateNote
    <3>2. CASE InsertCapture(h, k)
      BY <1>1, <3>2, SpendIs DEF Kind, InsertCapture
    <3> QED
      BY <1>3, <3>1, <3>2
  <2>3. f.row[k] = None
    BY <2>1, FreshIsAbsent
  <2>4. /\ texts' \in Seq(Text) /\ More(texts, texts')
        /\ Len(texts) \in Nat /\ Len(texts) + 1 \in DOMAIN texts' /\ texts'[Len(texts) + 1].key = k
    BY <1>1, <2>1, TextsGrow
  <2>5. Proper(texts', now[h], f)
    BY <1>1, <2>4, ProperStays
  <2> HIDE DEF f, g
  <2>6. Proper(texts', now[h], g) /\ Written(h, f, g)
    BY <1>1, <2>1, <2>3, <2>4, <2>5, InsertedIs DEF g
  <2>7. WritesTo(h, g)
    BY <2>1, <2>2, <2>4, <2>6 DEF WritesTo, f
  <2>8. Builds(h, texts', f, g) /\ k \in Rows(g) /\ g.row[k].text = Len(texts) + 1
    BY <1>1, <2>1, <2>3, <2>4, <2>5, InsertBuilds DEF g
  <2>9. Adds(texts, texts', g)
    BY <1>1, <2>1, <2>8, TextWritten
  <2> QED
    BY <2>7, <2>8, <2>9 DEF Makes, f
<1>4. CASE Groceries(h, k)
  BY <1>4, GroceriesWrites
<1>5. CASE Update(h, k)
  <2> DEFINE v == [f.row[k] EXCEPT !.text = Len(texts) + 1]
             g == Edited(f, h, k, v)
  <2>1. k \in Rows(f) /\ ~f.row[k].dead /\ Saves(h, g) /\ Wrote(h, k, f.row[k].text) /\ LocalOnly
        /\ Spend("edits")
    BY <1>5 DEF Update, Live
  <2>2. /\ left' \in [Kind -> Nat] /\ \A kind \in Kind : left'[kind] <= left[kind]
        /\ left'["restores"] = left["restores"]
    BY <1>1, <2>1, SpendIs DEF Kind
  <2>3. f.row[k] \in Version /\ Sound(texts, k, f.row[k])
    BY <1>1, <2>1 DEF Proper, Orderly, File, Rows
  <2>4. /\ texts' \in Seq(Text) /\ More(texts, texts')
        /\ Len(texts) \in Nat /\ Len(texts) + 1 \in DOMAIN texts' /\ texts'[Len(texts) + 1].key = k
    BY <1>1, <2>1, <2>3, TextsGrow DEF Sound
  <2>5. Proper(texts', now[h], f)
    BY <1>1, <2>4, ProperStays
  <2>6. v \in Version /\ v.text = Len(texts) + 1 /\ v.dead = f.row[k].dead /\ v.holds = f.row[k].holds
    <3> DEFINE i == Len(texts) + 1
               x == f.row[k]
    <3>1. i \in Nat
      BY <2>4
    <3>2. v = [x EXCEPT !.text = i] /\ x \in Version
      BY <2>3
    <3> HIDE DEF i, x, v
    <3>3. x = [at |-> x.at, base |-> x.base, dead |-> x.dead, holds |-> x.holds, text |-> x.text, seq |-> x.seq]
      BY <3>2 DEF Version
    <3>4. v \in Version /\ v.text = i /\ v.dead = x.dead /\ v.holds = x.holds
      BY <3>1, <3>2, <3>3 DEF Version
    <3> QED
      BY <3>4 DEF i, x
  <2> HIDE DEF f, v, g
  <2>7. /\ RowKind[k] = "upload" /\ ~v.dead => v.holds
        /\ v.holds => \A j \in Rows(f) : Shares(j, k) => ~f.row[j].holds
    BY <1>1, <2>1, <2>3, <2>6 DEF Sound, Proper, Orderly
  <2>8. Proper(texts', now[h], g) /\ Written(h, f, g)
    BY <1>1, <2>1, <2>4, <2>5, <2>6, <2>7, EditedIs DEF g
  <2>9. WritesTo(h, g)
    BY <2>1, <2>2, <2>4, <2>8 DEF WritesTo, f
  <2>10. f.row[k].text \in DOMAIN texts /\ f.row[k].text # None
    <3>1. f.row[k].text \in Nat
      BY <2>3 DEF Version
    <3> QED
      BY <2>3, <3>1, SyncAssumption DEF Sound, SyncAssumption
  <2>11. /\ Over(texts', v.text, f.row[k].text)
         /\ \A e : k \in Rows(e) /\ e.row[k].text = Len(texts) + 1 => Adds(texts, texts', e)
    BY <1>1, <2>1, <2>6, <2>10, TextWritten
  <2>12. Builds(h, texts', f, g) /\ k \in Rows(g) /\ g.row[k].text = v.text
    BY <1>1, <2>1, <2>4, <2>5, <2>6, <2>7, <2>11, EditBuilds DEF g
  <2> QED
    BY <2>6, <2>9, <2>11, <2>12 DEF Makes, f
<1>6. CASE RemoveRow(h, k)
  <2> DEFINE v == [f.row[k] EXCEPT !.dead = TRUE]
             g == Edited(f, h, k, v)
  <2>1. k \in Rows(f) /\ Saves(h, g) /\ UNCHANGED texts /\ LocalOnly /\ Spend("deletes")
    BY <1>6 DEF RemoveRow, Live
  <2>2. /\ left' \in [Kind -> Nat] /\ \A kind \in Kind : left'[kind] <= left[kind]
        /\ left'["restores"] = left["restores"]
    BY <1>1, <2>1, SpendIs DEF Kind
  <2>3. f.row[k] \in Version /\ Sound(texts, k, f.row[k]) /\ f.row[k].text \in Nat
    BY <1>1, <2>1 DEF Proper, Orderly, File, Rows, Version
  <2>4. texts' \in Seq(Text) /\ More(texts, texts')
    BY <1>1, <2>1 DEF More
  <2>5. Proper(texts', now[h], f)
    BY <1>1, <2>4, ProperStays
  <2>6. v \in Version /\ v.text = f.row[k].text /\ v.dead /\ v.holds = f.row[k].holds
    BY <2>3, FieldSet
  <2> HIDE DEF f, v, g
  <2>7. /\ v.text \in DOMAIN texts' /\ texts'[v.text].key = k
        /\ v.holds => \A j \in Rows(f) : Shares(j, k) => ~f.row[j].holds
    BY <1>1, <2>1, <2>3, <2>6 DEF Sound, Proper, Orderly
  <2>8. Proper(texts', now[h], g) /\ Written(h, f, g)
    BY <1>1, <2>1, <2>5, <2>6, <2>7, EditedIs DEF g
  <2>9. WritesTo(h, g)
    BY <2>1, <2>2, <2>4, <2>8 DEF WritesTo, f
  <2>10. Over(texts', v.text, f.row[k].text)
    BY <2>6 DEF Over
  <2>11. Builds(h, texts', f, g)
    BY <1>1, <2>1, <2>5, <2>6, <2>7, <2>10, EditBuilds DEF g
  <2>12. Adds(texts, texts', g)
    BY <2>1 DEF Adds
  <2> QED
    BY <2>9, <2>11, <2>12 DEF Makes, f
<1> QED
  BY <1>2, <1>3, <1>4, <1>5, <1>6

LEMMA SavesIs ==
  ASSUME Types, NEW h \in Host, NEW g \in File, Saves(h, g)
  PROVE  /\ file' \in [Host -> File] /\ file'[h] = g /\ \A p \in Host : p # h => file'[p] = file[p]
         /\ top' \in [Host -> [Key -> Stamp \union {None}]]
         /\ \A k \in Key : top'[h][k] = IF g.row[k] # None THEN g.row[k].at ELSE top[h][k]
         /\ \A p \in Host : p # h => top'[p] = top[p]
<1>1. file \in [Host -> File] /\ top \in [Host -> [Key -> Stamp \union {None}]]
  BY DEF Types, TypeOK
<1> DEFINE e == TopOf(g, top[h])
<1>2. e \in [Key -> Stamp \union {None}]
  <2>1. \A k \in Key : g.row[k] # None => g.row[k].at \in Stamp
    BY DEF File, Version
  <2>2. top[h] \in [Key -> Stamp \union {None}]
    BY <1>1
  <2> QED
    BY <2>1, <2>2 DEF TopOf
<1>3. \A k \in Key : e[k] = IF g.row[k] # None THEN g.row[k].at ELSE top[h][k]
  BY DEF TopOf
<1>4. file' = [file EXCEPT ![h] = g] /\ top' = [top EXCEPT ![h] = e]
  BY DEF Saves
<1> HIDE DEF e
<1> QED
  BY <1>1, <1>2, <1>3, <1>4

(* A write of a host's own keeps the invariant. *)
LEMMA WriteKeepsInv ==
  ASSUME Inv, NEW h \in Host, NEW g, WritesTo(h, g)
  PROVE  Inv'
<1>1. /\ Types /\ g \in File /\ Saves(h, g) /\ texts' \in Seq(Text) /\ More(texts, texts')
      /\ UNCHANGED <<backup, now, pull, ids, kept, lossy>> /\ left' \in [Kind -> Nat]
  BY DEF Inv, WritesTo, LocalOnly, Proper, Orderly
<1>2. /\ file' \in [Host -> File] /\ file'[h] = g /\ \A p \in Host : p # h => file'[p] = file[p]
      /\ top' \in [Host -> [Key -> Stamp \union {None}]]
      /\ \A k \in Key : top'[h][k] = IF g.row[k] # None THEN g.row[k].at ELSE top[h][k]
      /\ \A p \in Host : p # h => top'[p] = top[p]
  BY <1>1, SavesIs
<1>3. Types'
  <2>1. kept' \subseteq DOMAIN texts'
    BY <1>1 DEF Types, TypeOK, More
  <2> QED
    BY <1>1, <1>2, <2>1 DEF Types, TypeOK
<1>4. FilesInOrder'
  <2> SUFFICES ASSUME NEW p \in Host
               PROVE  /\ Proper(texts', now[p], file'[p])
                      /\ backup[p] # None => Proper(texts', now[p], backup[p])
                      /\ pull[p].pc = "page" => SoundPage(texts', pull[p].page)
    BY <1>1 DEF FilesInOrder
  <2>1. /\ Proper(texts, now[p], file[p]) /\ (backup[p] # None => Proper(texts, now[p], backup[p]))
        /\ pull[p].pc = "page" => SoundPage(texts, pull[p].page)
        /\ now[p] \in Nat
    BY DEF Inv, FilesInOrder, Types, TypeOK
  <2>2. Proper(texts', now[p], file'[p])
    <3>1. CASE p = h
      BY <1>2, <3>1 DEF WritesTo
    <3>2. CASE p # h
      BY <1>1, <1>2, <2>1, <3>2, ProperStays
    <3> QED
      BY <3>1, <3>2
  <2>3. backup[p] # None => Proper(texts', now[p], backup[p])
    BY <1>1, <2>1, ProperStays
  <2>4. pull[p].pc = "page" => SoundPage(texts', pull[p].page)
    BY <1>1, <2>1 DEF SoundPage, Sound, More
  <2> QED
    BY <2>2, <2>3, <2>4
<1>5. TopFollows'
  <2> SUFFICES ASSUME NEW p \in Host, NEW k \in Key
               PROVE  /\ file'[p].row[k] # None => top'[p][k] = file'[p].row[k].at
                      /\ top'[p][k] # None => top'[p][k].clock <= file'[p].hlc
    BY DEF TopFollows
  <2>1. CASE p = h
    <3>1. g.row[k] # None => g.row[k].at.clock <= g.hlc
      BY DEF WritesTo, Proper, Rows
    <3>2. top[h][k] # None => top[h][k].clock <= file[h].hlc
      BY DEF Inv, TopFollows
    <3>3. file[h].hlc <= g.hlc /\ file[h].hlc \in Nat /\ g.hlc \in Nat
      BY <1>1 DEF WritesTo, Written, Continues, Types, TypeOK, File
    <3>4. top[h][k] # None => top[h][k].clock \in Nat
      BY <1>1 DEF Types, TypeOK, Stamp
    <3> QED
      BY <1>2, <2>1, <3>1, <3>2, <3>3, <3>4
  <2>2. CASE p # h
    BY <1>2, <2>2 DEF Inv, TopFollows
  <2> QED
    BY <2>1, <2>2
<1> QED
  BY <1>3, <1>4, <1>5 DEF Inv

(* So does a step that leaves the files as they are. *)
LEMMA QuietKeepsInv ==
  ASSUME Inv, Quiet
  PROVE  Inv'
<1>1. Types'
  <2>1. \A h \in Host : pull'[h].pc = "page" => pull'[h].page \in Page
    BY DEF Inv, Types, Quiet
  <2> QED
    BY <2>1 DEF Inv, Types, TypeOK, Quiet
<1>2. FilesInOrder'
  <2> SUFFICES ASSUME NEW p \in Host
               PROVE  /\ Proper(texts, now'[p], file[p])
                      /\ backup'[p] # None => Proper(texts, now'[p], backup'[p])
                      /\ pull'[p].pc = "page" => SoundPage(texts, pull'[p].page)
    BY DEF FilesInOrder, Quiet
  <2>1. /\ Proper(texts, now[p], file[p]) /\ (backup[p] # None => Proper(texts, now[p], backup[p]))
        /\ pull[p].pc = "page" => SoundPage(texts, pull[p].page)
        /\ now[p] \in Nat /\ now'[p] \in Nat /\ now[p] <= now'[p] /\ More(texts, texts)
    BY DEF Inv, FilesInOrder, Types, TypeOK, Quiet, More
  <2>2. Proper(texts, now'[p], file[p]) /\ (backup[p] # None => Proper(texts, now'[p], backup[p]))
    BY <2>1, ProperStays
  <2>3. backup'[p] \in {None, backup[p], file[p]} /\ (pull'[p] = pull[p] \/ pull'[p].pc # "page")
    BY DEF Quiet
  <2> QED
    BY <2>1, <2>2, <2>3
<1>3. TopFollows'
  BY DEF Inv, TopFollows, Quiet
<1> QED
  BY <1>1, <1>2, <1>3 DEF Inv

(* What a pull may still ask for when nothing of it was served. *)
LEMMA HelloIs ==
  ASSUME Inv, NEW h \in Host, Hello(h)
  PROVE  /\ Quiet
         /\ \A q \in Host : q # h => pull'[q] = pull[q]
         /\ LET p == pull'[h].peer
            IN /\ pull'[h].pc = "ask" /\ p \in Peers(h) /\ pull'[h].db = file[p].id
               /\ pull'[h].cursor = IF file[h].peer[p].db = file[p].id THEN file[h].peer[p].cursor ELSE 0
<1> DEFINE p == NextPeer(h)
           known == file[h].peer[p]
           x == [pc |-> "ask", peer |-> p, db |-> file[p].id, resets |-> 0, page |-> None,
                 cursor |-> IF known.db = file[p].id THEN known.cursor ELSE 0]
<1>1. Types /\ file \in [Host -> File] /\ pull \in [Host -> Pull] /\ now \in [Host -> Nat]
      /\ backup \in [Host -> File \union {None}] /\ left \in [Kind -> Nat]
  BY DEF Inv, Types, TypeOK
<1>2. p \in Peers(h) /\ p \in Host
  BY NextPeerIs DEF Hello, Peers
<1> HIDE DEF p
<1>3. file[p].id \in Nat /\ known.cursor \in Nat
  BY <1>1, <1>2 DEF File
<1>4. x \in Pull
  BY <1>2, <1>3 DEF Pull
<1>5. pull' = [pull EXCEPT ![h] = x] /\ UNCHANGED <<file, backup, now, ids, texts, kept, top, lossy, left>>
  BY DEF Hello, p
<1>6. /\ x.pc = "ask" /\ x.peer = p /\ x.db = file[p].id
      /\ x.cursor = IF known.db = file[p].id THEN known.cursor ELSE 0
  OBVIOUS
<1> HIDE DEF x
<1>7. pull' \in [Host -> Pull] /\ pull'[h] = x /\ \A q \in Host : q # h => pull'[q] = pull[q]
  BY <1>1, <1>4, <1>5
<1>8. Quiet
  <2>1. \A q \in Host : pull'[q] = pull[q] \/ pull'[q].pc # "page"
    BY <1>6, <1>7
  <2>2. \A q \in Host : now[q] <= now[q]
    BY <1>1
  <2>3. \A kind \in Kind : left[kind] <= left[kind]
    BY <1>1
  <2> QED
    BY <1>1, <1>5, <1>7, <2>1, <2>2, <2>3 DEF Quiet
<1> QED
  BY <1>2, <1>6, <1>7, <1>8

(* A pull that ends. *)
LEMMA EndsIs ==
  ASSUME Inv, NEW h \in Host, Unreachable(h) \/ Refuse(h) \/ Restart(h)
  PROVE  Quiet /\ pull' = Idles(h)
<1>1. Types /\ file \in [Host -> File] /\ pull \in [Host -> Pull] /\ now \in [Host -> Nat]
      /\ backup \in [Host -> File \union {None}] /\ left \in [Kind -> Nat]
  BY DEF Inv, Types, TypeOK
<1>2. pull' = Idles(h) /\ UNCHANGED <<file, backup, now, ids, texts, kept, top, lossy>>
  BY DEF Unreachable, Refuse, Restart
<1>3. /\ left' \in [Kind -> Nat] /\ \A kind \in Kind : left'[kind] <= left[kind]
      /\ left'["restores"] = left["restores"]
  <2>1. CASE Unreachable(h)
    BY <1>1, <2>1, SpendIs DEF Unreachable, Kind
  <2>2. CASE Restart(h)
    BY <1>1, <2>2, SpendIs DEF Restart, Kind
  <2>3. CASE Refuse(h)
    BY <1>1, <2>3 DEF Refuse, Kind
  <2> QED
    BY <2>1, <2>2, <2>3
<1>4. pull' \in [Host -> Pull] /\ \A q \in Host : pull'[q] = pull[q] \/ pull'[q].pc # "page"
  BY <1>1, <1>2, IdlesIs
<1> QED
  BY <1>1, <1>2, <1>3, <1>4 DEF Quiet

LEMMA StartOverIs ==
  ASSUME Inv, NEW h \in Host, StartOver(h)
  PROVE  Quiet
<1>1. Types /\ file \in [Host -> File] /\ pull \in [Host -> Pull] /\ now \in [Host -> Nat]
      /\ backup \in [Host -> File \union {None}] /\ left \in [Kind -> Nat]
      /\ pull[h] \in Pull /\ pull[h].pc = "page" /\ pull[h].page \in Page
  BY DEF Inv, Types, TypeOK, StartOver
<1>2. UNCHANGED <<file, backup, now, ids, texts, kept, top, lossy, left>>
  BY DEF StartOver
<1>3. pull' \in [Host -> Pull] /\ \A q \in Host : pull'[q] = pull[q] \/ pull'[q].pc # "page"
  <2>1. CASE pull' = Idles(h)
    BY <1>1, <2>1, IdlesIs
  <2>2. CASE pull' # Idles(h)
    <3> DEFINE d == pull[h].page.db
               x == [pull[h] EXCEPT !.pc = "ask", !.db = d, !.cursor = 0, !.resets = 1, !.page = None]
    <3>1. d \in Nat
      BY <1>1 DEF Page
    <3>2. pull' = [pull EXCEPT ![h] = x]
      BY <1>1, <2>2 DEF StartOver, Pull
    <3> HIDE DEF d
    <3>3. x \in Pull /\ x.pc = "ask"
      BY <1>1, <3>1 DEF Pull
    <3> HIDE DEF x
    <3> QED
      BY <1>1, <3>2, <3>3
  <2> QED
    BY <2>1, <2>2
<1>4. (\A q \in Host : now[q] <= now[q]) /\ (\A kind \in Kind : left[kind] <= left[kind])
  BY <1>1
<1> QED
  BY <1>1, <1>2, <1>3, <1>4 DEF Quiet

(* The newest of what the hosts have is one of them, and none is newer. *)
LEMMA NewestOfHosts ==
  ASSUME NEW f \in [Host -> Nat], Host # {}
  PROVE  LET S == {f[h] : h \in Host}
         IN Newest(S) \in Nat /\ \A h \in Host : f[h] <= Newest(S)
<1> DEFINE S == {f[h] : h \in Host}
<1>1. f \in Surjection(Host, S)
  BY DEF Surjection
<1>2. IsFiniteSet(S)
  <2> HIDE DEF S
  <2> QED
    BY <1>1, SyncAssumption, FS_Surjection DEF SyncAssumption
<1>3. S \in SUBSET Nat /\ S # {}
  OBVIOUS
<1>4. \A h \in Host : f[h] \in S
  OBVIOUS
<1> HIDE DEF S
<1>5. Newest(S) \in S /\ \A d \in S : d <= Newest(S)
  BY <1>2, <1>3, GreatestNumber
<1> QED
  BY <1>3, <1>4, <1>5 DEF S

(* The clocks, and a backup. *)
LEMMA TimeIsQuiet ==
  ASSUME Inv, \/ TimePasses \/ YearsPass \/ \E h \in Host : Tick(h) \/ Skew(h) \/ Backup(h)
  PROVE  Quiet /\ pull' = pull
<1>1. Types /\ file \in [Host -> File] /\ pull \in [Host -> Pull] /\ now \in [Host -> Nat]
      /\ backup \in [Host -> File \union {None}] /\ left \in [Kind -> Nat]
  BY DEF Inv, Types, TypeOK
<1>2. MaxAhead \in Nat /\ Retention \in Nat
  BY SyncAssumption DEF SyncAssumption
<1>3. ASSUME UNCHANGED <<file, ids, texts, kept, top, lossy, pull>>,
             now' \in [Host -> Nat], \A h \in Host : now[h] <= now'[h],
             backup' \in [Host -> File \union {None}],
             \A h \in Host : backup'[h] \in {None, backup[h], file[h]},
             left' = left \/ \E kind \in Kind : kind # "restores" /\ Spend(kind)
      PROVE  Quiet
  <2>1. /\ left' \in [Kind -> Nat] /\ \A kind \in Kind : left'[kind] <= left[kind]
        /\ left'["restores"] = left["restores"]
    <3>1. CASE left' = left
      BY <1>1, <3>1
    <3>2. CASE \E kind \in Kind : kind # "restores" /\ Spend(kind)
      <4>1. "restores" \in Kind
        BY DEF Kind
      <4> QED
        BY <1>1, <3>2, <4>1, SpendIs
    <3> QED
      BY <1>3, <3>1, <3>2
  <2> QED
    BY <1>1, <1>3, <2>1 DEF Quiet
<1>4. CASE TimePasses
  <2> DEFINE S == {now[h] : h \in Host}
             most == Newest(S)
  <2>1. /\ UNCHANGED <<file, backup, pull, ids, texts, kept, top, lossy, left>>
        /\ now' = [h \in Host |-> most] /\ Host # {}
    BY <1>4 DEF TimePasses
  <2>2. most \in Nat /\ \A h \in Host : now[h] <= most
    BY <1>1, <2>1, NewestOfHosts
  <2> HIDE DEF most
  <2>3. now' \in [Host -> Nat] /\ \A h \in Host : now[h] <= now'[h]
    BY <2>1, <2>2
  <2>4. left' = left
    BY <2>1
  <2> QED
    BY <1>1, <1>3, <2>1, <2>3, <2>4
<1>5. CASE YearsPass
  <2>1. /\ UNCHANGED <<file, pull, ids, texts, kept, top, lossy>> /\ Spend("years")
        /\ now' = [h \in Host |-> now[h] + 2 * Retention]
        /\ backup' = [h \in Host |-> None]
    BY <1>5 DEF YearsPass
  <2>2. now' \in [Host -> Nat] /\ \A h \in Host : now[h] <= now'[h]
    BY <1>1, <1>2, <2>1
  <2>3. \E kind \in Kind : kind # "restores" /\ Spend(kind)
    BY <2>1 DEF Kind
  <2> QED
    BY <1>1, <1>3, <2>1, <2>2, <2>3
<1>6. ASSUME NEW h \in Host, Tick(h) \/ Skew(h) PROVE Quiet /\ pull' = pull
  <2>1. UNCHANGED <<file, backup, pull, ids, texts, kept, top, lossy>>
    BY <1>6 DEF Tick, Skew
  <2>2. now' \in [Host -> Nat] /\ \A q \in Host : now[q] <= now'[q]
    BY <1>1, <1>2, <1>6 DEF Tick, Skew
  <2>3. \E kind \in Kind : kind # "restores" /\ Spend(kind)
    BY <1>6 DEF Tick, Skew, Kind
  <2> QED
    BY <1>1, <1>3, <2>1, <2>2, <2>3
<1>7. ASSUME NEW h \in Host, Backup(h) PROVE Quiet /\ pull' = pull
  <2>1. UNCHANGED <<file, now, pull, ids, texts, kept, top, lossy>> /\ Spend("backups")
        /\ backup' = [backup EXCEPT ![h] = file[h]]
    BY <1>7 DEF Backup
  <2>2. /\ backup' \in [Host -> File \union {None}]
        /\ \A q \in Host : backup'[q] \in {None, backup[q], file[q]}
    BY <1>1, <2>1
  <2>3. \E kind \in Kind : kind # "restores" /\ Spend(kind)
    BY <2>1 DEF Kind
  <2>4. now' \in [Host -> Nat] /\ \A q \in Host : now[q] <= now'[q]
    BY <1>1, <2>1
  <2> QED
    BY <1>3, <2>1, <2>2, <2>3, <2>4
<1> QED
  BY <1>4, <1>5, <1>6, <1>7

(* A page is served: what the peer notes, and what the page holds. *)
Serves(h) ==
  LET p == pull[h].peer
      f == file[p]
      since == pull[h].cursor
      page == PageOf(f, since)
  IN /\ UNCHANGED <<backup, now, ids, texts, kept, top, lossy, left>>
     /\ p \in Host /\ since <= f.seq
     /\ file' = [file EXCEPT ![p].served[h] = since, ![p].handed[h] = Latest(@, page.next)]
     /\ pull' = [pull EXCEPT ![h].pc = "page", ![h].page = page]
     /\ pull'[h].page = page /\ pull'[h].pc = "page"
     /\ pull'[h].peer = p /\ pull'[h].db = pull[h].db /\ pull'[h].cursor = since
     /\ \A q \in Host : q # h => pull'[q] = pull[q]
     /\ pull' \in [Host -> Pull] /\ page \in Page
     /\ page.db = f.id /\ since <= page.next /\ page.next <= f.seq
     /\ \A i \in 1..Len(page.rows) :
          page.rows[i].key \in Rows(f) /\ page.rows[i].v = f.row[page.rows[i].key]
     /\ \A k \in Rows(f) : since < f.row[k].seq /\ f.row[k].seq <= page.next
          => \E i \in 1..Len(page.rows) : page.rows[i].key = k

(* The served file: its rows are as they were. *)
ServedFile(f, g) ==
  /\ g \in File /\ g.row = f.row /\ g.seq = f.seq /\ g.hlc = f.hlc
  /\ \A q \in Host : g.served[q] <= f.seq /\ g.handed[q] <= f.seq

LEMMA ServedStaysProper ==
  ASSUME NEW t, NEW n, NEW f, NEW g, Proper(t, n, f), ServedFile(f, g)
  PROVE  Proper(t, n, g)
<1>1. Rows(g) = Rows(f)
  BY DEF ServedFile, Rows
<1> QED
  BY <1>1 DEF Proper, Orderly, ServedFile

LEMMA ServesIs ==
  ASSUME Inv, NEW h \in Host, ServeChanges(h),
         ~Forgotten(file[pull[h].peer], h, pull[h].cursor)
  PROVE  Serves(h)
<1> DEFINE p == pull[h].peer
           f == file[p]
           since == pull[h].cursor
           page == PageOf(f, since)
<1>1. /\ file \in [Host -> File] /\ pull \in [Host -> Pull] /\ pull[h] \in Pull
      /\ p \in Host /\ f \in File /\ since \in Nat /\ f.seq \in Nat /\ f.id \in Nat
      /\ Proper(texts, now[p], f)
  BY DEF Inv, Types, TypeOK, FilesInOrder, Pull, File
<1>2. since <= f.seq
  BY <1>1 DEF Forgotten
<1>3. /\ page.db = f.id
      /\ page.rows \in Seq([key: Key, v: Version])
      /\ \A i \in 1..Len(page.rows) :
           page.rows[i].key \in Rows(f) /\ page.rows[i].v = f.row[page.rows[i].key]
      /\ page.next \in Nat /\ since <= page.next /\ page.next <= f.seq
      /\ page.more \in BOOLEAN
      /\ \A k \in Rows(f) : since < f.row[k].seq /\ f.row[k].seq <= page.next
           => \E i \in 1..Len(page.rows) : page.rows[i].key = k
  <2>1. /\ \A k \in Rows(f) : f.row[k].seq <= f.seq
        /\ \A j, k \in Rows(f) : f.row[j].seq = f.row[k].seq => j = k
    BY <1>1 DEF Proper, Orderly
  <2> HIDE DEF f, since
  <2> QED
    BY <1>1, <1>2, <2>1, PageIsComplete
<1>4. page = [db |-> page.db, rows |-> page.rows, next |-> page.next, more |-> page.more]
  BY DEF PageOf
<1>5. /\ file' = [file EXCEPT ![p].served[h] = since, ![p].handed[h] = Latest(@, page.next)]
      /\ pull' = [pull EXCEPT ![h].pc = "page", ![h].page = page]
      /\ UNCHANGED <<backup, now, ids, texts, kept, top, lossy, left>>
  BY DEF ServeChanges
<1> HIDE DEF page
<1>6. page \in Page
  BY <1>1, <1>3, <1>4 DEF Page, Row
<1>7. /\ pull'[h].page = page /\ pull'[h].pc = "page"
      /\ pull'[h].peer = p /\ pull'[h].db = pull[h].db /\ pull'[h].cursor = since
      /\ \A q \in Host : q # h => pull'[q] = pull[q]
      /\ pull' \in [Host -> Pull]
  <2> DEFINE x == [pull[h] EXCEPT !.pc = "page", !.page = page]
  <2>1. x \in Pull /\ x.page = page /\ x.pc = "page" /\ x.peer = p /\ x.db = pull[h].db /\ x.cursor = since
    BY <1>1, <1>6 DEF Pull
  <2>2. pull' = [pull EXCEPT ![h] = x]
    BY <1>1, <1>5 DEF Pull
  <2> HIDE DEF x, p, since
  <2> QED
    BY <1>1, <2>1, <2>2
<1> QED
  BY <1>1, <1>2, <1>3, <1>5, <1>6, <1>7 DEF Serves, page

LEMMA ServedFileIs ==
  ASSUME Inv, NEW h \in Host, Serves(h)
  PROVE  LET p == pull[h].peer
         IN /\ file' \in [Host -> File] /\ ServedFile(file[p], file'[p])
            /\ file'[p].id = file[p].id /\ file'[p].peer = file[p].peer
            /\ file'[p].served = [file[p].served EXCEPT ![h] = pull[h].cursor]
            /\ file'[p].handed = [file[p].handed EXCEPT ![h] = Latest(@, pull'[h].page.next)]
            /\ \A q \in Host : q # p => file'[q] = file[q]
<1> DEFINE p == pull[h].peer
           f == file[p]
           since == pull[h].cursor
           next == pull'[h].page.next
           last == Latest(f.handed[h], next)
           served == [f.served EXCEPT ![h] = since]
           handed == [f.handed EXCEPT ![h] = last]
           g == [f EXCEPT !.served = served, !.handed = handed]
<1>1. /\ file \in [Host -> File] /\ p \in Host /\ f \in File /\ since \in Nat /\ next \in Nat
      /\ since <= f.seq /\ next <= f.seq /\ f.seq \in Nat /\ f.hlc \in Nat
      /\ f.served \in [Host -> Nat] /\ f.handed \in [Host -> Nat]
      /\ \A q \in Host : f.served[q] <= f.seq /\ f.handed[q] <= f.seq
  BY DEF Inv, Types, TypeOK, Serves, Pull, Page, FilesInOrder, Proper, Orderly, File
<1>2. file' = [file EXCEPT ![p] = g]
  BY <1>1 DEF Serves, File
<1>3. f = [row |-> f.row, seq |-> f.seq, hlc |-> f.hlc, id |-> f.id, served |-> f.served,
           handed |-> f.handed, peer |-> f.peer]
  BY <1>1 DEF File
<1>4. last \in Nat /\ last <= f.seq
  BY <1>1 DEF Latest
<1> HIDE DEF last, since
<1>5. /\ served \in [Host -> Nat] /\ handed \in [Host -> Nat]
      /\ \A q \in Host : served[q] <= f.seq /\ handed[q] <= f.seq
  BY <1>1, <1>4
<1> HIDE DEF served, handed
<1>6. /\ g.row = f.row /\ g.seq = f.seq /\ g.hlc = f.hlc /\ g.id = f.id /\ g.peer = f.peer
      /\ g.served = served /\ g.handed = handed
      /\ g = [row |-> g.row, seq |-> g.seq, hlc |-> g.hlc, id |-> g.id, served |-> g.served,
              handed |-> g.handed, peer |-> g.peer]
  <2>1. g = [f EXCEPT !.served = served, !.handed = handed]
    OBVIOUS
  <2> HIDE DEF f, g
  <2> QED
    BY <1>3, <2>1
<1> HIDE DEF g
<1>7. g \in File
  <2>1. f.row \in [Key -> Version \union {None}] /\ f.id \in Nat /\ f.peer \in [Host -> [db: Nat, cursor: Nat]]
    BY <1>1 DEF File
  <2> QED
    BY <1>1, <1>5, <1>6, <2>1 DEF File
<1>8. ServedFile(f, g)
  BY <1>5, <1>6, <1>7 DEF ServedFile
<1> QED
  BY <1>1, <1>2, <1>6, <1>7, <1>8 DEF served, handed, last, since

(* The file was replaced by an older one: it gets a new id. *)
LEMMA ForgottenIs ==
  ASSUME Inv, NEW h \in Host, ServeChanges(h),
         Forgotten(file[pull[h].peer], h, pull[h].cursor)
  PROVE  LET p == pull[h].peer
         IN /\ UNCHANGED <<backup, now, texts, kept, top, lossy, left>>
            /\ p \in Host /\ ids' \in Nat
            /\ file' \in [Host -> File] /\ ServedFile(file[p], file'[p])
            /\ \A q \in Host : q # p => file'[q] = file[q]
            /\ pull' \in [Host -> Pull] /\ \A q \in Host : q # h => pull'[q] = pull[q]
            /\ pull'[h].page \in Page /\ SoundPage(texts, pull'[h].page) /\ pull'[h].page.rows = <<>>
<1> DEFINE p == pull[h].peer
           f == file[p]
           served == [q \in Host |-> 0]
           g == [f EXCEPT !.id = ids + 1, !.served = served, !.handed = served]
           page == [db |-> ids + 1, rows |-> <<>>, next |-> 0, more |-> FALSE]
<1>1. /\ file \in [Host -> File] /\ pull \in [Host -> Pull] /\ pull[h] \in Pull
      /\ p \in Host /\ f \in File /\ ids \in Nat /\ f.seq \in Nat /\ f.hlc \in Nat
  BY DEF Inv, Types, TypeOK, Pull, File
<1>2. /\ file' = [file EXCEPT ![p] = g] /\ ids' = ids + 1
      /\ pull' = [pull EXCEPT ![h].pc = "page", ![h].page = page]
      /\ UNCHANGED <<backup, now, texts, kept, top, lossy, left>>
  BY DEF ServeChanges, Reset
<1>3. f = [row |-> f.row, seq |-> f.seq, hlc |-> f.hlc, id |-> f.id, served |-> f.served,
           handed |-> f.handed, peer |-> f.peer]
  BY <1>1 DEF File
<1>4. served \in [Host -> Nat] /\ (\A q \in Host : served[q] <= f.seq) /\ ids + 1 \in Nat
  BY <1>1
<1> HIDE DEF served
<1>5. /\ g.row = f.row /\ g.seq = f.seq /\ g.hlc = f.hlc /\ g.id = ids + 1 /\ g.peer = f.peer
      /\ g.served = served /\ g.handed = served
      /\ g = [row |-> g.row, seq |-> g.seq, hlc |-> g.hlc, id |-> g.id, served |-> g.served,
              handed |-> g.handed, peer |-> g.peer]
  <2> DEFINE new == ids + 1
  <2>1. g = [f EXCEPT !.id = new, !.served = served, !.handed = served]
    OBVIOUS
  <2> HIDE DEF f, g, new
  <2>2. /\ g.row = f.row /\ g.seq = f.seq /\ g.hlc = f.hlc /\ g.id = new /\ g.peer = f.peer
        /\ g.served = served /\ g.handed = served
        /\ g = [row |-> g.row, seq |-> g.seq, hlc |-> g.hlc, id |-> g.id, served |-> g.served,
                handed |-> g.handed, peer |-> g.peer]
    BY <1>3, <2>1
  <2> QED
    BY <2>2 DEF new
<1> HIDE DEF g
<1>6. g \in File
  <2>1. f.row \in [Key -> Version \union {None}] /\ f.peer \in [Host -> [db: Nat, cursor: Nat]]
    BY <1>1 DEF File
  <2> QED
    BY <1>1, <1>4, <1>5, <2>1 DEF File
<1>7. ServedFile(f, g)
  BY <1>4, <1>5, <1>6 DEF ServedFile
<1>8. page \in Page /\ SoundPage(texts, page) /\ page.rows = <<>>
  <2>1. <<>> \in Seq(Row) /\ Len(<<>>) = 0
    OBVIOUS
  <2> QED
    BY <1>4, <2>1 DEF Page, SoundPage
<1> HIDE DEF page
<1>9. /\ pull' \in [Host -> Pull] /\ pull'[h].page = page
      /\ \A q \in Host : q # h => pull'[q] = pull[q]
  <2> DEFINE x == [pull[h] EXCEPT !.pc = "page", !.page = page]
  <2>1. x \in Pull /\ x.page = page
    BY <1>1, <1>8 DEF Pull
  <2>2. pull' = [pull EXCEPT ![h] = x]
    BY <1>1, <1>2 DEF Pull
  <2> HIDE DEF x
  <2> QED
    BY <1>1, <2>1, <2>2
<1> QED
  BY <1>1, <1>2, <1>4, <1>6, <1>7, <1>8, <1>9

LEMMA ServeKeepsInv ==
  ASSUME Inv, NEW h \in Host, ServeChanges(h)
  PROVE  Inv'
<1> DEFINE p == pull[h].peer
<1>1. /\ UNCHANGED <<backup, now, texts, kept, top, lossy, left>>
      /\ p \in Host /\ ids' \in Nat
      /\ file' \in [Host -> File] /\ ServedFile(file[p], file'[p])
      /\ \A q \in Host : q # p => file'[q] = file[q]
      /\ pull' \in [Host -> Pull] /\ \A q \in Host : q # h => pull'[q] = pull[q]
      /\ pull'[h].page \in Page /\ SoundPage(texts, pull'[h].page)
  <2>1. CASE Forgotten(file[p], h, pull[h].cursor)
    BY <2>1, ForgottenIs
  <2>2. CASE ~Forgotten(file[p], h, pull[h].cursor)
    <3>1. Serves(h)
      BY <2>2, ServesIs
    <3>2. /\ p \in Host
          /\ file' \in [Host -> File] /\ ServedFile(file[p], file'[p])
          /\ \A q \in Host : q # p => file'[q] = file[q]
      BY <3>1, ServedFileIs DEF Serves
    <3>3. /\ \A i \in 1..Len(pull'[h].page.rows) :
               /\ pull'[h].page.rows[i].key \in Rows(file[p])
               /\ pull'[h].page.rows[i].v = file[p].row[pull'[h].page.rows[i].key]
          /\ pull'[h].page \in Page
      <4> DEFINE page == PageOf(file[p], pull[h].cursor)
      <4>1. /\ pull'[h].page = page /\ page \in Page
            /\ \A i \in 1..Len(page.rows) :
                 page.rows[i].key \in Rows(file[p]) /\ page.rows[i].v = file[p].row[page.rows[i].key]
        BY <3>1 DEF Serves
      <4> HIDE DEF page
      <4> QED
        BY <4>1
    <3>4. \A k \in Rows(file[p]) : Sound(texts, k, file[p].row[k])
      BY <3>2 DEF Inv, FilesInOrder, Proper, Orderly
    <3>5. SoundPage(texts, pull'[h].page)
      BY <3>3, <3>4 DEF SoundPage
    <3> QED
      BY <3>1, <3>2, <3>3, <3>5 DEF Serves, Inv, Types, TypeOK
  <2> QED
    BY <2>1, <2>2
<1>2. Types'
  <2>1. \A q \in Host : pull'[q].pc = "page" => pull'[q].page \in Page
    BY <1>1 DEF Inv, Types
  <2> QED
    BY <1>1, <2>1 DEF Inv, Types, TypeOK
<1>3. FilesInOrder'
  <2> SUFFICES ASSUME NEW q \in Host
               PROVE  /\ Proper(texts, now[q], file'[q])
                      /\ backup[q] # None => Proper(texts, now[q], backup[q])
                      /\ pull'[q].pc = "page" => SoundPage(texts, pull'[q].page)
    BY <1>1 DEF FilesInOrder
  <2>1. Proper(texts, now[q], file[q]) /\ (backup[q] # None => Proper(texts, now[q], backup[q]))
    BY DEF Inv, FilesInOrder
  <2>2. Proper(texts, now[q], file'[q])
    BY <1>1, <2>1, ServedStaysProper
  <2>3. pull'[q].pc = "page" => SoundPage(texts, pull'[q].page)
    BY <1>1 DEF Inv, FilesInOrder
  <2> QED
    BY <2>1, <2>2, <2>3
<1>4. TopFollows'
  <2>1. \A q \in Host : file'[q].row = file[q].row /\ file'[q].hlc = file[q].hlc
    BY <1>1 DEF ServedFile
  <2> QED
    BY <1>1, <2>1 DEF Inv, TopFollows
<1> QED
  BY <1>2, <1>3, <1>4 DEF Inv

(* A page is applied. *)
Applies(h, g) ==
  LET p == pull[h].peer
      page == pull[h].page
  IN /\ UNCHANGED <<backup, now, ids, texts, lossy, left>> /\ kept' \subseteq DOMAIN texts
     /\ g \in File /\ IsPulled(h, texts, file[h], p, page, g) /\ Saves(h, g)
     /\ p \in Host /\ page \in Page /\ page.db = pull[h].db
     /\ pull[h].pc = "page"
     /\ pull' \in [Host -> Pull] /\ \A q \in Host : q # h => pull'[q] = pull[q]
     /\ \/ pull'[h].pc = "idle"
        \/ pull'[h].pc = "ask" /\ pull'[h].peer = p /\ pull'[h].db = pull[h].db /\ pull'[h].cursor = page.next

LEMMA PageToApply ==
  ASSUME Inv, NEW h \in Host, ApplyPage(h)
  PROVE  LET p == pull[h].peer
             page == pull[h].page
         IN /\ file \in [Host -> File] /\ pull \in [Host -> Pull] /\ pull[h] \in Pull
            /\ p \in Host /\ now \in [Host -> Nat] /\ now[h] \in Nat
            /\ Proper(texts, now[h], file[h]) /\ kept \subseteq DOMAIN texts
            /\ pull[h].pc = "page" /\ page.db = pull[h].db /\ ~ClockAhead(h, page.rows)
            /\ Saves(h, Pulled(h, file[h], p, page))
            /\ kept' = ApplyRows(h, file[h], page.rows).kept
            /\ UNCHANGED <<backup, now, ids, texts, lossy, left>>
            /\ pull' = IF page.more
                       THEN [pull EXCEPT ![h].pc = "ask", ![h].cursor = page.next, ![h].page = None]
                       ELSE Idles(h)
            /\ page \in Page /\ page.rows \in Seq(Row) /\ page.db \in Nat /\ page.next \in Nat
            /\ \A i \in 1..Len(page.rows) : /\ Sound(texts, page.rows[i].key, page.rows[i].v)
                                             /\ page.rows[i].v.at.clock <= now[h] + MaxAhead
<1> DEFINE p == pull[h].peer
           page == pull[h].page
           g == Pulled(h, file[h], p, page)
<1>1. /\ file \in [Host -> File] /\ pull \in [Host -> Pull] /\ pull[h] \in Pull
      /\ p \in Host /\ now \in [Host -> Nat] /\ now[h] \in Nat
      /\ Proper(texts, now[h], file[h]) /\ kept \subseteq DOMAIN texts
  BY DEF Inv, Types, TypeOK, FilesInOrder, Pull
<1>2. /\ pull[h].pc = "page" /\ page.db = pull[h].db /\ ~ClockAhead(h, page.rows)
      /\ Saves(h, g)
      /\ kept' = ApplyRows(h, file[h], page.rows).kept
      /\ UNCHANGED <<backup, now, ids, texts, lossy, left>>
      /\ pull' = IF page.more
                 THEN [pull EXCEPT ![h].pc = "ask", ![h].cursor = page.next, ![h].page = None]
                 ELSE Idles(h)
  BY DEF ApplyPage, Pulled
<1>3. /\ page \in Page /\ page.rows \in Seq(Row) /\ page.db \in Nat /\ page.next \in Nat
      /\ SoundPage(texts, page)
  BY <1>2 DEF Inv, Types, FilesInOrder, Page
<1>4. \A i \in 1..Len(page.rows) : /\ Sound(texts, page.rows[i].key, page.rows[i].v)
                                   /\ page.rows[i].v.at.clock <= now[h] + MaxAhead
  <2> SUFFICES ASSUME NEW i \in 1..Len(page.rows)
               PROVE  /\ Sound(texts, page.rows[i].key, page.rows[i].v)
                      /\ page.rows[i].v.at.clock <= now[h] + MaxAhead
    OBVIOUS
  <2>1. i \in DOMAIN page.rows /\ page.rows[i] \in Row
    BY <1>3
  <2>2. page.rows[i].v.at.clock \in Nat /\ now[h] + MaxAhead \in Nat
    <3>1. MaxAhead \in Nat
      BY SyncAssumption DEF SyncAssumption
    <3>2. page.rows[i].v \in Version
      BY <2>1 DEF Row
    <3>3. page.rows[i].v.at.clock \in Nat
      <4> HIDE DEF page
      <4> QED
        BY <3>2 DEF Version, Stamp
    <3>4. now[h] \in Nat
      BY <1>1
    <3> QED
      BY <3>1, <3>3, <3>4
  <2>3. ~(page.rows[i].v.at.clock > now[h] + MaxAhead)
    BY <1>2, <2>1 DEF ClockAhead
  <2>4. Sound(texts, page.rows[i].key, page.rows[i].v)
    <3>1. SoundPage(texts, page)
      BY <1>3
    <3> HIDE DEF page
    <3> QED
      BY <3>1 DEF SoundPage
  <2>5. page.rows[i].v.at.clock <= now[h] + MaxAhead
    BY <2>2, <2>3
  <2> QED
    BY <2>4, <2>5
<1> HIDE DEF g
<1> QED
  BY <1>1, <1>2, <1>3, <1>4 DEF g

LEMMA AppliesIs ==
  ASSUME Inv, NEW h \in Host, ApplyPage(h)
  PROVE  \E g : Applies(h, g)
<1> DEFINE p == pull[h].peer
           page == pull[h].page
           g == Pulled(h, file[h], p, page)
<1>1. /\ file \in [Host -> File] /\ pull \in [Host -> Pull] /\ pull[h] \in Pull
      /\ p \in Host /\ now \in [Host -> Nat] /\ now[h] \in Nat
      /\ Proper(texts, now[h], file[h]) /\ kept \subseteq DOMAIN texts
  BY PageToApply
<1>2. /\ pull[h].pc = "page" /\ page.db = pull[h].db
      /\ Saves(h, g)
      /\ kept' = ApplyRows(h, file[h], page.rows).kept
      /\ UNCHANGED <<backup, now, ids, texts, lossy, left>>
      /\ pull' = IF page.more
                 THEN [pull EXCEPT ![h].pc = "ask", ![h].cursor = page.next, ![h].page = None]
                 ELSE Idles(h)
  BY PageToApply
<1>3. page \in Page /\ page.rows \in Seq(Row) /\ page.db \in Nat /\ page.next \in Nat
  BY PageToApply
<1>4. \A i \in 1..Len(page.rows) : /\ Sound(texts, page.rows[i].key, page.rows[i].v)
                                   /\ page.rows[i].v.at.clock <= now[h] + MaxAhead
  BY PageToApply
<1>5. /\ IsPulled(h, texts, file[h], p, page, g)
      /\ kept' \subseteq kept \union DOMAIN texts
  <2> HIDE DEF page, p
  <2> QED
    BY <1>1, <1>2, <1>3, <1>4, PulledIs
<1> HIDE DEF g
<1>6. g \in File
  BY <1>5 DEF IsPulled, Proper, Orderly
<1>7. /\ pull' \in [Host -> Pull] /\ \A q \in Host : q # h => pull'[q] = pull[q]
      /\ \/ pull'[h].pc = "idle"
         \/ pull'[h].pc = "ask" /\ pull'[h].peer = p /\ pull'[h].db = pull[h].db /\ pull'[h].cursor = page.next
  <2>1. CASE page.more
    <3> DEFINE c == page.next
               x == [pull[h] EXCEPT !.pc = "ask", !.cursor = c, !.page = None]
    <3>1. pull' = [pull EXCEPT ![h] = x] /\ c \in Nat
      BY <1>1, <1>2, <1>3, <2>1 DEF Pull
    <3> HIDE DEF c
    <3>2. x \in Pull /\ x.pc = "ask" /\ x.peer = p /\ x.db = pull[h].db /\ x.cursor = c
      BY <1>1, <3>1 DEF Pull
    <3> HIDE DEF x, p
    <3>3. /\ pull' \in [Host -> Pull] /\ (\A q \in Host : q # h => pull'[q] = pull[q])
          /\ pull'[h] = x
      BY <1>1, <3>1, <3>2
    <3> QED
      BY <3>2, <3>3 DEF c
  <2>2. CASE ~page.more
    BY <1>1, <1>2, <2>2, IdlesIs
  <2> QED
    BY <2>1, <2>2
<1>8. kept' \subseteq DOMAIN texts
  BY <1>1, <1>5
<1>9. Applies(h, g)
  BY <1>1, <1>2, <1>3, <1>5, <1>6, <1>7, <1>8 DEF Applies
<1> QED
  BY <1>9

LEMMA ApplyKeepsInv ==
  ASSUME Inv, NEW h \in Host, NEW g, Applies(h, g)
  PROVE  Inv'
<1>1. /\ Types /\ UNCHANGED <<backup, now, ids, texts, lossy, left>> /\ kept' \subseteq DOMAIN texts
      /\ g \in File /\ Saves(h, g) /\ pull' \in [Host -> Pull]
      /\ \A q \in Host : q # h => pull'[q] = pull[q]
      /\ pull'[h].pc # "page" /\ Proper(texts, now[h], g)
      /\ file[h].hlc <= g.hlc /\ file[h].hlc \in Nat /\ g.hlc \in Nat
  BY DEF Inv, Applies, IsPulled, Types, TypeOK, File
<1>2. /\ file' \in [Host -> File] /\ file'[h] = g /\ \A p \in Host : p # h => file'[p] = file[p]
      /\ top' \in [Host -> [Key -> Stamp \union {None}]]
      /\ \A k \in Key : top'[h][k] = IF g.row[k] # None THEN g.row[k].at ELSE top[h][k]
      /\ \A p \in Host : p # h => top'[p] = top[p]
  BY <1>1, SavesIs
<1>3. Types'
  <2>1. \A q \in Host : pull'[q].pc = "page" => pull'[q].page \in Page
    BY <1>1 DEF Types
  <2> QED
    BY <1>1, <1>2, <2>1 DEF Types, TypeOK
<1>4. FilesInOrder'
  BY <1>1, <1>2 DEF Inv, FilesInOrder
<1>5. TopFollows'
  <2> SUFFICES ASSUME NEW p \in Host, NEW k \in Key
               PROVE  /\ file'[p].row[k] # None => top'[p][k] = file'[p].row[k].at
                      /\ top'[p][k] # None => top'[p][k].clock <= file'[p].hlc
    BY DEF TopFollows
  <2>1. CASE p = h
    <3>1. g.row[k] # None => g.row[k].at.clock <= g.hlc
      BY <1>1 DEF Proper, Rows
    <3>2. top[h][k] # None => top[h][k].clock <= file[h].hlc
      BY DEF Inv, TopFollows
    <3>3. top[h][k] # None => top[h][k].clock \in Nat
      BY <1>1 DEF Types, TypeOK, Stamp
    <3> QED
      BY <1>1, <1>2, <2>1, <3>1, <3>2, <3>3
  <2>2. CASE p # h
    BY <1>2, <2>2 DEF Inv, TopFollows
  <2> QED
    BY <2>1, <2>2
<1> QED
  BY <1>3, <1>4, <1>5 DEF Inv

(* Rows that are dropped leave the rest of the file as it is. *)
Purges(h) ==
  /\ UNCHANGED <<backup, now, pull, ids, texts, kept, top, lossy>>
  /\ Idle(h)
  /\ file' \in [Host -> File]
  /\ \A q \in Host :
       /\ file'[q].seq = file[q].seq /\ file'[q].hlc = file[q].hlc /\ file'[q].id = file[q].id
       /\ file'[q].served = file[q].served /\ file'[q].handed = file[q].handed
       /\ file'[q].peer = file[q].peer
       /\ q # h => file'[q] = file[q]
  /\ \A k \in Key : file'[h].row[k] = IF k \in Purgeable(h) THEN None ELSE file[h].row[k]
  /\ left' \in [Kind -> Nat] /\ \A kind \in Kind : left'[kind] <= left[kind]
  /\ left'["restores"] = left["restores"] /\ left["purges"] > 0

LEMMA PurgesIs ==
  ASSUME Inv, NEW h \in Host, PurgeTombstones(h)
  PROVE  Purges(h)
<1> DEFINE f == file[h]
           row == [k \in Key |-> IF k \in Purgeable(h) THEN None ELSE f.row[k]]
           g == [f EXCEPT !.row = row]
<1>1. file \in [Host -> File] /\ f \in File /\ left \in [Kind -> Nat]
  BY DEF Inv, Types, TypeOK
<1>2. /\ UNCHANGED <<backup, now, pull, ids, texts, kept, top, lossy>>
      /\ Idle(h) /\ Spend("purges") /\ file' = [file EXCEPT ![h] = g]
  BY <1>1 DEF PurgeTombstones
<1>3. /\ left' \in [Kind -> Nat] /\ \A kind \in Kind : left'[kind] <= left[kind]
      /\ left'["restores"] = left["restores"] /\ left["purges"] > 0
  BY <1>1, <1>2, SpendIs DEF Kind, Spend
<1>4. row \in [Key -> Version \union {None}]
  BY <1>1 DEF File
<1>5. \A k \in Key : row[k] = IF k \in Purgeable(h) THEN None ELSE file[h].row[k]
  OBVIOUS
<1> HIDE DEF row
<1>6. /\ g \in File /\ g.row = row /\ g.seq = f.seq /\ g.hlc = f.hlc /\ g.id = f.id
      /\ g.served = f.served /\ g.handed = f.handed /\ g.peer = f.peer
  <2>1. g = [f EXCEPT !.row = row]
    OBVIOUS
  <2> HIDE DEF f, g
  <2> QED
    BY <1>1, <1>4, <2>1 DEF File
<1> HIDE DEF g
<1> QED
  BY <1>1, <1>2, <1>3, <1>5, <1>6 DEF Purges

LEMMA PurgeKeepsInv ==
  ASSUME Inv, NEW h \in Host, Purges(h)
  PROVE  Inv'
<1>1. Types'
  BY DEF Inv, Types, TypeOK, Purges
<1>2. \A q \in Host : \A k \in Key : file'[q].row[k] = None \/ file'[q].row[k] = file[q].row[k]
  BY DEF Purges
<1>3. FilesInOrder'
  <2> SUFFICES ASSUME NEW q \in Host
               PROVE  Proper(texts, now[q], file'[q])
    BY DEF Inv, FilesInOrder, Purges
  <2> DEFINE f == file[q]
             g == file'[q]
  <2>1. Proper(texts, now[q], f)
    BY DEF Inv, FilesInOrder
  <2>2. /\ g \in File /\ g.seq = f.seq /\ g.hlc = f.hlc
        /\ g.served = f.served /\ g.handed = f.handed
    BY DEF Purges
  <2>3. \A k \in Rows(g) : k \in Rows(f) /\ g.row[k] = f.row[k]
    BY <1>2 DEF Rows
  <2> HIDE DEF f, g
  <2>4. Proper(texts, now[q], g)
    BY <2>1, <2>2, <2>3 DEF Proper, Orderly
  <2> QED
    BY <2>4 DEF g
<1>4. TopFollows'
  <2>1. top' = top /\ \A q \in Host : file'[q].hlc = file[q].hlc
    BY DEF Purges
  <2> QED
    BY <1>2, <2>1 DEF Inv, TopFollows
<1> QED
  BY <1>1, <1>3, <1>4 DEF Inv

LEMMA RestoreKeepsInv ==
  ASSUME Inv, NEW h \in Host, Restore(h)
  PROVE  Inv'
<1>1. /\ file \in [Host -> File] /\ pull \in [Host -> Pull] /\ now \in [Host -> Nat]
      /\ backup \in [Host -> File \union {None}] /\ left \in [Kind -> Nat]
      /\ top \in [Host -> [Key -> Stamp \union {None}]]
      /\ texts \in Seq(Text) /\ lossy \subseteq Host /\ ids \in Nat /\ kept \subseteq DOMAIN texts
  BY DEF Inv, Types, TypeOK
<1> DEFINE g == backup[h]
           none == [k \in Key |-> None]
           e == TopOf(g, none)
<1>2. /\ g # None /\ Spend("restores")
      /\ file' = [file EXCEPT ![h] = g]
      /\ backup' = [backup EXCEPT ![h] = None]
      /\ top' = [top EXCEPT ![h] = e]
      /\ lossy' = lossy \union {h}
      /\ pull' = Idles(h)
      /\ UNCHANGED <<ids, texts, kept>>
  BY DEF Restore
<1>3. g \in File /\ Proper(texts, now[h], g)
  BY <1>1, <1>2 DEF Inv, FilesInOrder
<1>4. left' \in [Kind -> Nat]
  BY <1>1, <1>2, SpendIs DEF Kind
<1>5. now' \in [Host -> Nat] /\ \A q \in Host : now[q] <= now'[q]
  <2>1. CASE ~LateRestore
    <3>1. now' = now
      BY <2>1 DEF Restore
    <3> QED
      BY <1>1, <3>1
  <2>2. CASE LateRestore
    <3> DEFINE hlcs == [p \in Host |-> file[p].hlc]
               n == Newest({hlcs[p] : p \in Host})
               m == Latest(now[h], 1 + n)
    <3>1. hlcs \in [Host -> Nat]
      BY <1>1 DEF File
    <3>2. n \in Nat
      <4> HIDE DEF hlcs
      <4> QED
        BY <3>1, NewestOfHosts
    <3>3. {hlcs[p] : p \in Host} = {file[p].hlc : p \in Host}
      OBVIOUS
    <3>4. now' = [now EXCEPT ![h] = m]
      BY <2>2, <3>3 DEF Restore
    <3> HIDE DEF n
    <3>5. m \in Nat /\ now[h] <= m
      BY <1>1, <3>2 DEF Latest
    <3> HIDE DEF m
    <3> QED
      BY <1>1, <3>4, <3>5
  <2> QED
    BY <2>1, <2>2
<1>6. /\ pull' \in [Host -> Pull]
      /\ \A q \in Host : pull'[q] = pull[q] \/ pull'[q].pc # "page"
  BY <1>1, <1>2, IdlesIs
<1>7. e \in [Key -> Stamp \union {None}] /\ \A k \in Key : e[k] = IF g.row[k] # None THEN g.row[k].at ELSE None
  BY <1>3 DEF TopOf, File, Version
<1> HIDE DEF e, g
<1>8. Types'
  <2>1. \A q \in Host : pull'[q].pc = "page" => pull'[q].page \in Page
    BY <1>6 DEF Inv, Types
  <2>2. /\ file' \in [Host -> File] /\ backup' \in [Host -> File \union {None}]
        /\ top' \in [Host -> [Key -> Stamp \union {None}]]
    BY <1>1, <1>2, <1>3, <1>7
  <2>3. kept' \subseteq DOMAIN texts' /\ lossy' \subseteq Host /\ ids' \in Nat /\ texts' \in Seq(Text)
    BY <1>1, <1>2
  <2> QED
    BY <1>4, <1>5, <1>6, <2>1, <2>2, <2>3 DEF Types, TypeOK
<1>9. FilesInOrder'
  <2> SUFFICES ASSUME NEW q \in Host
               PROVE  /\ Proper(texts, now'[q], file'[q])
                      /\ backup'[q] # None => Proper(texts, now'[q], backup'[q])
                      /\ pull'[q].pc = "page" => SoundPage(texts, pull'[q].page)
    BY <1>2 DEF FilesInOrder
  <2>1. /\ Proper(texts, now[q], file[q]) /\ (backup[q] # None => Proper(texts, now[q], backup[q]))
        /\ pull[q].pc = "page" => SoundPage(texts, pull[q].page)
        /\ now[q] \in Nat /\ now'[q] \in Nat /\ now[q] <= now'[q] /\ More(texts, texts)
    BY <1>1, <1>5 DEF Inv, FilesInOrder, More
  <2>2. \A f : Proper(texts, now[q], f) => Proper(texts, now'[q], f)
    BY <2>1, ProperStays
  <2>3. file'[q] = file[q] \/ (q = h /\ file'[q] = g)
    BY <1>1, <1>2
  <2>4. backup'[q] = backup[q] \/ backup'[q] = None
    BY <1>1, <1>2
  <2> QED
    BY <1>3, <1>6, <2>1, <2>2, <2>3, <2>4
<1>10. TopFollows'
  <2> SUFFICES ASSUME NEW p \in Host, NEW k \in Key
               PROVE  /\ file'[p].row[k] # None => top'[p][k] = file'[p].row[k].at
                      /\ top'[p][k] # None => top'[p][k].clock <= file'[p].hlc
    BY DEF TopFollows
  <2>1. CASE p = h
    <3>1. g.row[k] # None => g.row[k].at.clock <= g.hlc
      BY <1>3 DEF Proper, Rows
    <3>2. file'[h] = g /\ top'[h] = e
      BY <1>1, <1>2
    <3> QED
      BY <1>7, <2>1, <3>1, <3>2
  <2>2. CASE p # h
    <3>1. file'[p] = file[p] /\ top'[p] = top[p]
      BY <1>1, <1>2, <2>2
    <3> QED
      BY <3>1 DEF Inv, TopFollows
  <2> QED
    BY <2>1, <2>2
<1> QED
  BY <1>8, <1>9, <1>10 DEF Inv

LEMMA InitInv == Init => Inv
<1> SUFFICES ASSUME Init PROVE Inv
  OBVIOUS
<1> DEFINE row == [k \in Key |-> None]
           zero == [p \in Host |-> 0]
           known == [p \in Host |-> [db |-> 0, cursor |-> 0]]
           f(h) == [row |-> row, seq |-> 0, hlc |-> 0, id |-> h, served |-> zero, handed |-> zero, peer |-> known]
<1>1. file = [h \in Host |-> f(h)]
  BY DEF Init
<1>2. row \in [Key -> Version \union {None}] /\ zero \in [Host -> Nat] /\ known \in [Host -> [db: Nat, cursor: Nat]]
  OBVIOUS
<1>3. (\A k \in Key : row[k] = None) /\ (\A p \in Host : zero[p] = 0)
  OBVIOUS
<1> HIDE DEF row, zero, known
<1>4. \A h \in Host : /\ f(h) \in File /\ f(h).row = row /\ f(h).seq = 0 /\ f(h).hlc = 0
                      /\ f(h).served = zero /\ f(h).handed = zero
  BY <1>2, SyncAssumption DEF File, SyncAssumption
<1> HIDE DEF f
<1>5. Cardinality(Host) \in Nat /\ MaxAhead \in Nat
  BY SyncAssumption, FS_CardinalityType DEF SyncAssumption
<1>6. /\ backup = [h \in Host |-> None] /\ now = [h \in Host |-> 1]
      /\ pull = [h \in Host |-> [pc |-> "idle", peer |-> h, db |-> 0, cursor |-> 0, resets |-> 0, page |-> None]]
      /\ ids = Cardinality(Host) /\ texts = <<>> /\ kept = {}
      /\ top = [h \in Host |-> row] /\ lossy = {} /\ left \in Budgets
  BY DEF Init, row
<1>7. Types
  <2>1. left \in [Kind -> Nat]
    BY <1>6, SyncAssumption DEF SyncAssumption
  <2>2. pull \in [Host -> Pull] /\ \A h \in Host : pull[h].pc = "idle"
    BY <1>6 DEF Pull
  <2>3. texts \in Seq(Text) /\ kept \subseteq DOMAIN texts
    BY <1>6
  <2>4. top \in [Host -> [Key -> Stamp \union {None}]]
    BY <1>3, <1>2, <1>6 DEF row
  <2>5. file \in [Host -> File] /\ backup \in [Host -> File \union {None}] /\ now \in [Host -> Nat]
    BY <1>1, <1>4, <1>6
  <2> QED
    BY <1>5, <1>6, <2>1, <2>2, <2>3, <2>4, <2>5 DEF Types, TypeOK
<1>8. FilesInOrder
  <2> SUFFICES ASSUME NEW h \in Host PROVE Proper(texts, now[h], file[h])
    BY <1>6 DEF FilesInOrder
  <2>1. Rows(f(h)) = {}
    BY <1>3, <1>4 DEF Rows
  <2>2. Proper(texts, 1, f(h))
    BY <1>3, <1>4, <1>5, <2>1 DEF Proper, Orderly
  <2> QED
    BY <1>1, <1>6, <2>2
<1>9. TopFollows
  BY <1>1, <1>3, <1>4, <1>6 DEF TopFollows
<1> QED
  BY <1>7, <1>8, <1>9 DEF Inv

LEMMA NextInv == Inv /\ [Next]_vars => Inv'
<1> SUFFICES ASSUME Inv, [Next]_vars PROVE Inv'
  OBVIOUS
<1>1. CASE UNCHANGED vars
  BY <1>1 DEF vars, Inv, Types, TypeOK, FilesInOrder, TopFollows
<1>2. CASE TimePasses \/ YearsPass
  BY <1>2, TimeIsQuiet, QuietKeepsInv
<1>3. ASSUME NEW h \in Host, Writes(h) PROVE Inv'
  BY <1>3, WritesAreWrites, WriteKeepsInv
<1>4. ASSUME NEW h \in Host, Pulls(h) PROVE Inv'
  <2>1. CASE Hello(h)
    BY <2>1, HelloIs, QuietKeepsInv
  <2>2. CASE ServeChanges(h)
    BY <2>2, ServeKeepsInv
  <2>3. CASE StartOver(h)
    BY <2>3, StartOverIs, QuietKeepsInv
  <2>4. CASE Refuse(h)
    BY <2>4, EndsIs, QuietKeepsInv
  <2>5. CASE ApplyPage(h)
    BY <2>5, AppliesIs, ApplyKeepsInv
  <2> QED
    BY <1>4, <2>1, <2>2, <2>3, <2>4, <2>5 DEF Pulls
<1>5. ASSUME NEW h \in Host, World(h) PROVE Inv'
  <2>1. CASE Unreachable(h) \/ Restart(h)
    BY <2>1, EndsIs, QuietKeepsInv
  <2>2. CASE Tick(h) \/ Skew(h) \/ Backup(h)
    BY <2>2, TimeIsQuiet, QuietKeepsInv
  <2>3. CASE PurgeTombstones(h)
    BY <2>3, PurgesIs, PurgeKeepsInv
  <2>4. CASE Restore(h)
    BY <2>4, RestoreKeepsInv
  <2> QED
    BY <1>5, <2>1, <2>2, <2>3, <2>4 DEF World
<1> QED
  BY <1>1, <1>2, <1>3, <1>4, <1>5 DEF Next

LEMMA AlwaysInv == Spec => []Inv
BY InitInv, NextInv, PTL DEF Spec

(* Whatever the hosts do, and whatever is restored: types, clocks near the
   wall clock, and one holder of a unique value. *)
THEOREM SyncTypeCorrect == Spec => [](TypeOK /\ ClocksAreNear /\ OneHolds)
<1>1. Inv => TypeOK /\ ClocksAreNear /\ OneHolds
  BY DEF Inv, Types, FilesInOrder, Proper, Orderly, ClocksAreNear, OneHolds
<1> QED
  BY <1>1, AlwaysInv, PTL

-----------------------------------------------------------------------------
(* The invariant of a run without restores: what the cursors promise.      *)

(* v is a version of row k on the way to host h. *)
InPage(h, k, v) ==
  /\ pull[h].pc = "page"
  /\ \E i \in 1..Len(pull[h].page.rows) : pull[h].page.rows[i].key = k /\ pull[h].page.rows[i].v = v

(* v is a version of row k that some host has, or that is on the way. *)
About(k, v) == \E h \in Host : file[h].row[k] = v \/ InPage(h, k, v)

(* The clock of the host that gave a stamp is past it. *)
Given ==
  \A k \in Key :
    /\ \A v \in Version : About(k, v) => v.at.clock <= file[v.at.origin].hlc
    /\ \A h \in Host : top[h][k] # None => top[h][k].clock <= file[top[h][k].origin].hlc

(* A stamp is given once. *)
Unique ==
  \A k \in Key : \A v, w \in Version :
    About(k, v) /\ About(k, w) /\ v.at = w.at => Plain(v) = Plain(w)

(* A host whose newest stamps are t has had all that f holds up to c. *)
Upto(f, t, c) == \A k \in Rows(f) : f.row[k].seq <= c => t[k] # None /\ NotBefore(t[k], f.row[k].at)

(* A host has what its cursor says, and what the peer was told it has. *)
Cursors ==
  \A h \in Host :
    /\ file[h].id = h
    /\ \A p \in Peers(h) :
         /\ file[h].peer[p].cursor <= file[p].handed[h]
         /\ Upto(file[p], top[h], file[h].peer[p].cursor)
         /\ Upto(file[p], top[h], file[p].served[h])

(* What is not in the page the host has had. *)
Covers(h, page, p) ==
  /\ page.db = p /\ page.next <= file[p].handed[h]
  /\ \A k \in Rows(file[p]) : file[p].row[k].seq <= page.next =>
       \/ top[h][k] # None /\ NotBefore(top[h][k], file[p].row[k].at)
       \/ \E v \in Version : InPage(h, k, v) /\ NotBefore(v.at, file[p].row[k].at)

Asking(h) ==
  LET p == pull[h].peer
  IN /\ p \in Peers(h) /\ pull[h].db = p
     /\ pull[h].cursor <= file[p].handed[h]
     /\ Upto(file[p], top[h], pull[h].cursor)

Pulling(h) ==
  /\ ~Idle(h) => Asking(h)
  /\ pull[h].pc = "page" => Covers(h, pull[h].page, pull[h].peer)

Purged(h, k) == file[h].row[k] = None /\ top[h][k] # None

(* A tombstone is dropped when every host has it or something newer. *)
Tombs(h, k) ==
  Purged(h, k) =>
    /\ \A p \in Host : top[p][k] # None /\ NotBefore(top[p][k], top[h][k])
    /\ \A v \in Version : InPage(h, k, v) => NotBefore(v.at, top[h][k])
    /\ \A v \in Version : About(k, v) /\ v.at = top[h][k] => v.dead

Calm ==
  /\ left["restores"] = 0 /\ Given /\ Unique /\ Cursors
  /\ \A h \in Host : Pulling(h) /\ \A k \in Key : Tombs(h, k)

(* The host that gave v its stamp made it in this step. *)
Made(k, v) ==
  /\ file[v.at.origin].hlc < v.at.clock /\ v.at.clock <= file'[v.at.origin].hlc
  /\ file'[v.at.origin].row[k] = v

(* A step in which no host goes back. *)
Forward ==
  /\ \A h \in Host :
       /\ file[h].hlc <= file'[h].hlc /\ file'[h].id = file[h].id
       /\ \A k \in Key :
            /\ file'[h].row[k] # None =>
                 file'[h].row[k] = file[h].row[k] \/ file'[h].row[k].seq > file[h].seq
            /\ \/ top'[h][k] = top[h][k]
               \/ file'[h].row[k] # None /\ top'[h][k] = file'[h].row[k].at
            /\ top[h][k] # None => top'[h][k] # None /\ NotBefore(top'[h][k], top[h][k])
  /\ \A k \in Key : \A v \in Version :
       About(k, v)' => Made(k, v) \/ \E w \in Version : About(k, w) /\ Plain(w) = Plain(v)

LEMMA RowIs ==
  ASSUME NEW f \in File
  PROVE  /\ f.hlc \in Nat /\ f.seq \in Nat
         /\ \A k \in Key : f.row[k] # None =>
              f.row[k] \in Version /\ f.row[k].seq \in Nat /\ f.row[k].at \in Stamp /\ k \in Rows(f)
BY DEF File, Version, Rows

LEMMA RowTypes ==
  ASSUME Types, NEW h \in Host, NEW k \in Key
  PROVE  /\ file[h] \in File /\ file[h].hlc \in Nat /\ file[h].seq \in Nat
         /\ file[h].row[k] # None =>
              /\ file[h].row[k] \in Version /\ file[h].row[k].seq \in Nat
              /\ file[h].row[k].at \in Stamp /\ k \in Rows(file[h])
         /\ top[h][k] # None => top[h][k] \in Stamp
BY DEF Types, TypeOK, File, Version, Rows

LEMMA StampIs ==
  ASSUME NEW v \in Version
  PROVE  v.at \in Stamp /\ v.at.clock \in Nat /\ v.at.origin \in Host
BY DEF Version, Stamp

(* Stamps stay given and unique. *)
LEMMA ForwardStamps ==
  ASSUME Inv, Inv', Calm, Forward
  PROVE  Given' /\ Unique'
<1>1. ASSUME NEW k \in Key, NEW v \in Version, About(k, v)'
      PROVE  v.at.clock <= file'[v.at.origin].hlc
  <2>0. v.at.clock \in Nat /\ v.at.origin \in Host
    BY StampIs
  <2>1. CASE Made(k, v)
    BY <2>1 DEF Made
  <2>2. ASSUME NEW w \in Version, About(k, w), Plain(w) = Plain(v)
        PROVE  v.at.clock <= file'[v.at.origin].hlc
    <3>1. w.at = v.at
      BY <2>2, PlainStamps
    <3>2. v.at.clock <= file[v.at.origin].hlc
      BY <2>2, <3>1 DEF Calm, Given
    <3>3. file[v.at.origin].hlc <= file'[v.at.origin].hlc
      BY <2>0 DEF Forward
    <3>4. file[v.at.origin].hlc \in Nat /\ file'[v.at.origin].hlc \in Nat
      BY <2>0 DEF Inv, Types, TypeOK, File
    <3> QED
      BY <2>0, <3>2, <3>3, <3>4
  <2> QED
    BY <1>1, <2>1, <2>2 DEF Forward
<1>2. ASSUME NEW h \in Host, NEW k \in Key, top'[h][k] # None
      PROVE  top'[h][k].clock <= file'[top'[h][k].origin].hlc
  <2>1. CASE top'[h][k] = top[h][k]
    <3>1. top[h][k] \in Stamp
      BY <1>2, <2>1, RowTypes DEF Inv
    <3> DEFINE s == top[h][k]
    <3>2. s.clock <= file[s.origin].hlc
      BY <1>2, <2>1 DEF Calm, Given
    <3>3. s.clock \in Nat /\ s.origin \in Host
      BY <3>1 DEF Stamp
    <3>4. file[s.origin].hlc <= file'[s.origin].hlc
      BY <3>3 DEF Forward
    <3>5. file[s.origin].hlc \in Nat /\ file'[s.origin].hlc \in Nat
      BY <3>3 DEF Inv, Types, TypeOK, File
    <3> QED
      BY <2>1, <3>2, <3>3, <3>4, <3>5
  <2>2. CASE file'[h].row[k] # None /\ top'[h][k] = file'[h].row[k].at
    <3>1. file'[h].row[k] \in Version
      BY <2>2 DEF Inv, Types, TypeOK, File
    <3>2. PICK v \in Version : v = file'[h].row[k]
      BY <3>1
    <3>3. About(k, v)'
      BY <3>2 DEF About
    <3> QED
      BY <1>1, <2>2, <3>2, <3>3
  <2> QED
    BY <2>1, <2>2 DEF Forward
<1>3. ASSUME NEW k \in Key, NEW v \in Version, NEW w \in Version,
             About(k, v)', About(k, w)', v.at = w.at
      PROVE  Plain(v) = Plain(w)
  <2>1. ASSUME NEW x \in Version, NEW y \in Version, x.at = y.at, Made(k, x),
               NEW z \in Version, About(k, z), Plain(z) = Plain(y)
        PROVE  FALSE
    <3>1. z.at = x.at
      BY <2>1, PlainStamps
    <3>2. x.at.clock <= file[x.at.origin].hlc
      BY <2>1, <3>1 DEF Calm, Given
    <3>3. file[x.at.origin].hlc \in Nat /\ x.at.clock \in Nat
      BY StampIs DEF Inv, Types, TypeOK, File
    <3> QED
      BY <2>1, <3>2, <3>3 DEF Made
  <2>2. Made(k, v) \/ \E z \in Version : About(k, z) /\ Plain(z) = Plain(v)
    BY <1>3 DEF Forward
  <2>3. Made(k, w) \/ \E z \in Version : About(k, z) /\ Plain(z) = Plain(w)
    BY <1>3 DEF Forward
  <2>4. CASE Made(k, v) /\ Made(k, w)
    BY <1>3, <2>4 DEF Made
  <2>5. CASE ~Made(k, v) /\ ~Made(k, w)
    <3>1. PICK y \in Version : About(k, y) /\ Plain(y) = Plain(v)
      BY <2>2, <2>5
    <3>2. PICK z \in Version : About(k, z) /\ Plain(z) = Plain(w)
      BY <2>3, <2>5
    <3>3. y.at = z.at
      BY <1>3, <3>1, <3>2, PlainStamps
    <3>4. Plain(y) = Plain(z)
      BY <3>1, <3>2, <3>3 DEF Calm, Unique
    <3> QED
      BY <3>1, <3>2, <3>4
  <2> QED
    BY <1>3, <2>1, <2>2, <2>3, <2>4, <2>5
<1>4. Given'
  BY <1>1, <1>2 DEF Given
<1>5. Unique'
  BY <1>3 DEF Unique
<1> QED
  BY <1>4, <1>5

(* A host does not lose what it had had: rows that change get change numbers
   past every cursor. *)
LEMMA ForwardUpto ==
  ASSUME Inv, Inv', Forward, NEW h \in Host, NEW p \in Host, NEW c \in Nat, c <= file[p].seq,
         Upto(file[p], top[h], c)
  PROVE  Upto(file'[p], top'[h], c)
<1> SUFFICES ASSUME NEW k \in Rows(file'[p]), file'[p].row[k].seq <= c
             PROVE  top'[h][k] # None /\ NotBefore(top'[h][k], file'[p].row[k].at)
  BY DEF Upto
<1>1. k \in Key /\ file'[p].row[k] # None
  BY DEF Rows
<1>2. file'[p].row[k].seq \in Nat /\ file[p].seq \in Nat
  <2>1. file[p] \in File /\ file'[p] \in File
    BY DEF Inv, Types, TypeOK
  <2> QED
    BY <1>1, <2>1, RowIs
<1>3. file'[p].row[k] = file[p].row[k]
  BY <1>1, <1>2 DEF Forward
<1>4. k \in Rows(file[p]) /\ file[p].row[k].at \in Stamp
  BY <1>1, <1>3, RowTypes DEF Inv
<1>5. top[h][k] # None /\ NotBefore(top[h][k], file[p].row[k].at)
  BY <1>3, <1>4 DEF Upto
<1>6. top'[h][k] # None /\ NotBefore(top'[h][k], top[h][k])
  BY <1>1, <1>5 DEF Forward
<1>7. top[h][k] \in Stamp /\ top'[h][k] \in Stamp
  BY <1>1, <1>5, <1>6 DEF Inv, Types, TypeOK
<1> QED
  BY <1>3, <1>4, <1>5, <1>6, <1>7, NotBeforeIsOrder

(* A row that was dropped before the step: nothing older comes back. *)
LEMMA ForwardTombs ==
  ASSUME Inv, Inv', Calm, Forward, NEW h \in Host, NEW k \in Key, file[h].row[k] = None,
         \A v \in Version : InPage(h, k, v)' => InPage(h, k, v) \/ \E p \in Host : file[p].row[k] = v
  PROVE  Tombs(h, k)'
<1> SUFFICES ASSUME file'[h].row[k] = None, top'[h][k] # None
             PROVE  /\ \A p \in Host : top'[p][k] # None /\ NotBefore(top'[p][k], top'[h][k])
                    /\ \A v \in Version : InPage(h, k, v)' => NotBefore(v.at, top'[h][k])
                    /\ \A v \in Version : About(k, v)' /\ v.at = top'[h][k] => v.dead
  BY DEF Tombs, Purged
<1>1. top'[h][k] = top[h][k]
  BY DEF Forward
<1>2. Purged(h, k) /\ Tombs(h, k)
  BY <1>1 DEF Calm, Purged
<1>3. ASSUME NEW p \in Host PROVE top'[p][k] # None /\ NotBefore(top'[p][k], top'[h][k])
  <2>1. top[p][k] # None /\ NotBefore(top[p][k], top[h][k])
    BY <1>2 DEF Tombs
  <2>2. top'[p][k] # None /\ NotBefore(top'[p][k], top[p][k])
    BY <2>1 DEF Forward
  <2>3. top[p][k] \in Stamp /\ top'[p][k] \in Stamp /\ top[h][k] \in Stamp
    BY <1>1, <2>1, <2>2 DEF Inv, Types, TypeOK
  <2> QED
    BY <1>1, <2>1, <2>2, <2>3, NotBeforeIsOrder
<1>4. ASSUME NEW v \in Version, InPage(h, k, v)' PROVE NotBefore(v.at, top'[h][k])
  <2>1. CASE InPage(h, k, v)
    BY <1>1, <1>2, <2>1 DEF Tombs
  <2>2. ASSUME NEW p \in Host, file[p].row[k] = v PROVE NotBefore(v.at, top[h][k])
    <3>1. top[p][k] = v.at
      BY <2>2, SyncAssumption DEF Inv, TopFollows, SyncAssumption
    <3> QED
      BY <1>2, <3>1 DEF Tombs
  <2> QED
    BY <1>1, <1>4, <2>1, <2>2
<1>5. ASSUME NEW v \in Version, About(k, v)', v.at = top'[h][k] PROVE v.dead
  <2>1. ~Made(k, v)
    <3>1. v.at.clock <= file[v.at.origin].hlc
      BY <1>1, <1>5 DEF Calm, Given
    <3>2. v.at.clock \in Nat /\ file[v.at.origin].hlc \in Nat
      BY StampIs DEF Inv, Types, TypeOK, File
    <3> QED
      BY <3>1, <3>2 DEF Made
  <2>2. PICK w \in Version : About(k, w) /\ Plain(w) = Plain(v)
    BY <1>5, <2>1 DEF Forward
  <2>3. w.at = v.at /\ w.dead = v.dead
    BY <2>2, PlainStamps
  <2> QED
    BY <1>1, <1>2, <1>5, <2>2, <2>3 DEF Tombs
<1> QED
  BY <1>3, <1>4, <1>5

(* A row that a host has is no dropped one. *)
LEMMA NotPurged ==
  ASSUME NEW h \in Host, NEW k \in Key, file'[h].row[k] # None
  PROVE  Tombs(h, k)'
BY DEF Tombs, Purged

(* A pull that this step leaves alone. *)
LEMMA ForwardPulling ==
  ASSUME Inv, Inv', Calm, Forward, NEW h \in Host, pull'[h] = pull[h],
         \A p \in Host : file[p].handed[h] <= file'[p].handed[h]
  PROVE  Pulling(h)'
<1> DEFINE p == pull[h].peer
<1>1. pull[h] \in Pull /\ p \in Host /\ pull[h].cursor \in Nat
  BY DEF Inv, Types, Pull
<1>2. /\ file[p].handed[h] \in Nat /\ file'[p].handed[h] \in Nat /\ file[p].seq \in Nat
      /\ file[p].handed[h] <= file'[p].handed[h] /\ file[p].handed[h] <= file[p].seq
  <2>1. file[p] \in File /\ file'[p] \in File
    BY <1>1 DEF Inv, Types, TypeOK
  <2>2. Proper(texts, now[p], file[p])
    BY <1>1 DEF Inv, FilesInOrder
  <2> HIDE DEF p
  <2> QED
    BY <1>1, <2>1, <2>2 DEF File, Proper, Orderly
<1>3. Pulling(h)
  BY DEF Calm
<1>4. ASSUME ~Idle(h)' PROVE Asking(h)'
  <2>1. Asking(h)
    BY <1>3, <1>4 DEF Pulling, Idle
  <2>2. pull[h].cursor <= file[p].seq
    BY <1>1, <1>2, <2>1 DEF Asking
  <2>3. Upto(file'[p], top'[h], pull[h].cursor)
    BY <1>1, <2>1, <2>2, ForwardUpto DEF Asking
  <2> QED
    BY <1>1, <1>2, <2>1, <2>3 DEF Asking
<1>5. ASSUME pull[h].pc = "page" PROVE Covers(h, pull[h].page, p)'
  <2> DEFINE page == pull[h].page
  <2>1. Covers(h, page, p) /\ page.next \in Nat
    BY <1>3, <1>5 DEF Pulling, Inv, Types, Page
  <2>2. page.next <= file[p].seq
    BY <1>2, <2>1 DEF Covers
  <2>3. ASSUME NEW k \in Rows(file'[p]), file'[p].row[k].seq <= page.next
        PROVE  \/ top'[h][k] # None /\ NotBefore(top'[h][k], file'[p].row[k].at)
               \/ \E v \in Version : InPage(h, k, v)' /\ NotBefore(v.at, file'[p].row[k].at)
    <3>1. k \in Key /\ file'[p].row[k] # None
      BY DEF Rows
    <3>2. file'[p].row[k].seq \in Nat
      <4>1. file'[p] \in File
        BY <1>1 DEF Inv, Types, TypeOK
      <4> QED
        BY <3>1, <4>1, RowIs
    <3>3. file'[p].row[k] = file[p].row[k]
      BY <1>1, <1>2, <2>1, <2>2, <2>3, <3>1, <3>2 DEF Forward
    <3>4. k \in Rows(file[p]) /\ file[p].row[k].at \in Stamp
      BY <1>1, <3>1, <3>3, RowTypes DEF Inv
    <3>5. CASE top[h][k] # None /\ NotBefore(top[h][k], file[p].row[k].at)
      <4>1. top'[h][k] # None /\ NotBefore(top'[h][k], top[h][k])
        BY <3>1, <3>5 DEF Forward
      <4>2. top[h][k] \in Stamp /\ top'[h][k] \in Stamp
        BY <3>1, <3>5, <4>1 DEF Inv, Types, TypeOK
      <4> QED
        BY <3>3, <3>4, <3>5, <4>1, <4>2, NotBeforeIsOrder
    <3>6. CASE \E v \in Version : InPage(h, k, v) /\ NotBefore(v.at, file[p].row[k].at)
      BY <3>3, <3>6 DEF InPage
    <3> QED
      BY <2>1, <2>3, <3>3, <3>4, <3>5, <3>6 DEF Covers
  <2>4. page.next <= file'[p].handed[h] /\ page.db = p
    BY <1>2, <2>1 DEF Covers
  <2> HIDE DEF page, p
  <2>5. Covers(h, page, p)'
    BY <2>3, <2>4 DEF Covers, page, p
  <2> QED
    BY <2>5 DEF page, p
<1> QED
  BY <1>4, <1>5 DEF Pulling

LEMMA Counters ==
  ASSUME Inv, NEW p \in Host, NEW q \in Host
  PROVE  /\ file[p].handed[q] \in Nat /\ file[p].served[q] \in Nat /\ file[p].seq \in Nat
         /\ file[p].handed[q] <= file[p].seq /\ file[p].served[q] <= file[p].seq
         /\ file[p].handed[q] <= file[p].handed[q]
         /\ file[q].peer[p].cursor \in Nat
<1>1. file[p] \in File /\ file[q] \in File
  BY DEF Inv, Types, TypeOK
<1>2. file[p].served[q] <= file[p].seq /\ file[p].handed[q] <= file[p].seq
  BY DEF Inv, FilesInOrder, Proper, Orderly
<1>3. file[p].handed[q] \in Nat /\ file[p].served[q] \in Nat /\ file[p].seq \in Nat
  BY <1>1 DEF File
<1> QED
  BY <1>1, <1>2, <1>3 DEF File

(* A pull that asks from the cursor its host keeps. *)
Greets(h) ==
  LET p == pull'[h].peer
  IN /\ pull'[h].pc = "ask" /\ p \in Peers(h) /\ pull'[h].db = file[p].id
     /\ pull'[h].cursor = IF file[h].peer[p].db = file[p].id THEN file[h].peer[p].cursor ELSE 0

LEMMA QuietForward ==
  ASSUME Inv, Quiet
  PROVE  /\ Forward
         /\ \A h \in Host : \A k \in Key : \A v \in Version : InPage(h, k, v)' => InPage(h, k, v)
<1>1. \A h \in Host : \A k \in Key : \A v \in Version : InPage(h, k, v)' => InPage(h, k, v)
  BY DEF Quiet, InPage
<1>2. \A k \in Key : \A v \in Version : About(k, v)' => About(k, v)
  BY <1>1 DEF About, Quiet
<1>3. \A h \in Host : file[h].hlc <= file[h].hlc
  BY DEF Inv, Types, TypeOK, File
<1>4. ASSUME NEW h \in Host, NEW k \in Key, top[h][k] # None PROVE NotBefore(top[h][k], top[h][k])
  BY <1>4, RowTypes, NotBeforeIsOrder DEF Inv
<1>5. Forward
  BY <1>2, <1>3, <1>4 DEF Forward, Quiet
<1> QED
  BY <1>1, <1>5

LEMMA QuietCalm ==
  ASSUME Inv, Inv', Calm, Quiet,
         \A h \in Host : pull'[h] = pull[h] \/ pull'[h].pc = "idle" \/ Greets(h)
  PROVE  Calm'
<1>1. /\ Forward
      /\ \A h \in Host : \A k \in Key : \A v \in Version : InPage(h, k, v)' => InPage(h, k, v)
  BY QuietForward
<1>2. Given' /\ Unique'
  BY <1>1, ForwardStamps
<1>3. Cursors'
  BY DEF Cursors, Calm, Quiet
<1>4. ASSUME NEW h \in Host, NEW k \in Key PROVE Tombs(h, k)'
  <2>1. CASE file[h].row[k] = None
    BY <1>1, <2>1, ForwardTombs
  <2>2. CASE file[h].row[k] # None
    BY <2>2 DEF Tombs, Purged, Quiet
  <2> QED
    BY <2>1, <2>2
<1>5. ASSUME NEW h \in Host PROVE Pulling(h)'
  <2>1. CASE pull'[h] = pull[h]
    <3>1. \A p \in Host : file[p].handed[h] <= file'[p].handed[h]
      BY DEF Quiet, Inv, Types, TypeOK, File
    <3> QED
      BY <1>1, <2>1, <3>1, ForwardPulling
  <2>2. CASE pull'[h].pc = "idle"
    BY <2>2 DEF Pulling, Idle
  <2>3. CASE Greets(h)
    <3> DEFINE p == pull'[h].peer
               c == pull'[h].cursor
               known == file[h].peer[p]
    <3>1. p \in Peers(h) /\ p \in Host /\ pull'[h].pc = "ask" /\ pull'[h].db = file[p].id
      BY <2>3 DEF Greets, Peers
    <3>2. /\ file[p].id = p /\ known.cursor <= file[p].handed[h]
          /\ Upto(file[p], top[h], known.cursor)
      BY <3>1 DEF Calm, Cursors
    <3>3. known.cursor \in Nat /\ file[p].handed[h] \in Nat /\ file[p] \in File
      BY <3>1 DEF Inv, Types, TypeOK, File
    <3>4. c = known.cursor \/ c = 0
      BY <2>3 DEF Greets
    <3>5. c <= file[p].handed[h] /\ c <= known.cursor /\ c \in Nat
      BY <3>2, <3>3, <3>4
    <3> HIDE DEF c
    <3>6. Upto(file[p], top[h], c)
      <4> SUFFICES ASSUME NEW k \in Rows(file[p]), file[p].row[k].seq <= c
                   PROVE  top[h][k] # None /\ NotBefore(top[h][k], file[p].row[k].at)
        BY DEF Upto
      <4>1. file[p].row[k].seq \in Nat
        BY <3>3, RowIs DEF Rows
      <4>2. file[p].row[k].seq <= known.cursor
        BY <3>3, <3>5, <4>1
      <4> QED
        BY <3>2, <4>2 DEF Upto
    <3>7. file' = file /\ top' = top
      BY DEF Quiet
    <3>8. Asking(h)'
      BY <3>1, <3>2, <3>5, <3>6, <3>7 DEF Asking, c
    <3> QED
      BY <3>1, <3>8 DEF Pulling
  <2> QED
    BY <2>1, <2>2, <2>3
<1>6. left'["restores"] = 0
  BY DEF Calm, Quiet
<1> QED
  BY <1>2, <1>3, <1>4, <1>5, <1>6 DEF Calm

(* A host's file after a write or a page of its own: no host goes back. *)
LEMMA SavesForward ==
  ASSUME Inv, Inv', Calm, NEW h \in Host, NEW g \in File, Saves(h, g),
         file[h].hlc <= g.hlc, g.id = file[h].id,
         \A q \in Host : \A k \in Key : \A v \in Version : InPage(q, k, v)' => InPage(q, k, v),
         \A k \in Key :
           \/ g.row[k] = file[h].row[k]
           \/ Touched(h, file[h], g, k)
           \/ /\ k \in Rows(g) /\ file[h].seq < g.row[k].seq
              /\ \E v \in Version : InPage(h, k, v) /\ Plain(g.row[k]) = Plain(v),
         \A k \in Rows(file[h]) : k \in Rows(g) /\ NotBefore(g.row[k].at, file[h].row[k].at)
  PROVE  Forward
<1>1. /\ file' \in [Host -> File] /\ file'[h] = g /\ \A p \in Host : p # h => file'[p] = file[p]
      /\ top' \in [Host -> [Key -> Stamp \union {None}]]
      /\ \A k \in Key : top'[h][k] = IF g.row[k] # None THEN g.row[k].at ELSE top[h][k]
      /\ \A p \in Host : p # h => top'[p] = top[p]
  BY SavesIs DEF Inv
<1>2. file[h] \in File /\ file[h].hlc \in Nat
  BY RowIs DEF Inv, Types, TypeOK
<1>3. \A p \in Host : file[p].hlc <= file'[p].hlc /\ file'[p].id = file[p].id
  <2>1. \A p \in Host : file[p].hlc \in Nat
    BY DEF Inv, Types, TypeOK, File
  <2> QED
    BY <1>1, <2>1
<1>4. ASSUME NEW p \in Host, NEW k \in Key, file'[p].row[k] # None
      PROVE  file'[p].row[k] = file[p].row[k] \/ file'[p].row[k].seq > file[p].seq
  <2>1. CASE p # h
    BY <1>1, <2>1
  <2>2. CASE p = h
    BY <1>1, <2>2 DEF Touched
  <2> QED
    BY <2>1, <2>2
<1>5. \A p \in Host : \A k \in Key : \/ top'[p][k] = top[p][k]
                                     \/ file'[p].row[k] # None /\ top'[p][k] = file'[p].row[k].at
  BY <1>1
<1>6. ASSUME NEW p \in Host, NEW k \in Key, top[p][k] # None
      PROVE  top'[p][k] # None /\ NotBefore(top'[p][k], top[p][k])
  <2>0. top[p][k] \in Stamp
    BY <1>6, RowTypes DEF Inv
  <2>1. CASE top'[p][k] = top[p][k]
    BY <1>6, <2>0, <2>1, NotBeforeIsOrder
  <2>2. CASE p = h /\ g.row[k] # None
    <3>1. top'[h][k] = g.row[k].at /\ g.row[k].at \in Stamp /\ g.row[k] \in Version /\ g.row[k].at # None
      BY <1>1, <2>2, RowIs, SyncAssumption DEF SyncAssumption
    <3>2. CASE file[h].row[k] # None
      <4>1. top[h][k] = file[h].row[k].at
        BY <3>2 DEF Inv, TopFollows
      <4>2. k \in Rows(file[h])
        BY <3>2 DEF Rows
      <4> QED
        BY <2>2, <3>1, <4>1, <4>2
    <3>3. CASE file[h].row[k] = None
      <4>1. CASE Touched(h, file[h], g, k)
        <5>1. top[h][k].clock <= file[h].hlc
          BY <1>6, <2>2 DEF Inv, TopFollows
        <5>2. g.row[k].at.clock > top[h][k].clock
          BY <1>2, <2>0, <2>2, <3>1, <4>1, <5>1 DEF Touched, Stamp
        <5> QED
          BY <2>0, <2>2, <3>1, <5>2, NotBeforeIsOrder
      <4>2. CASE \E v \in Version : InPage(h, k, v) /\ Plain(g.row[k]) = Plain(v)
        <5>1. PICK v \in Version : InPage(h, k, v) /\ Plain(g.row[k]) = Plain(v)
          BY <4>2
        <5>2. v.at = g.row[k].at
          BY <3>1, <5>1, PlainStamps
        <5>3. Purged(h, k) /\ Tombs(h, k)
          BY <1>6, <2>2, <3>3 DEF Purged, Calm
        <5>4. NotBefore(v.at, top[h][k])
          BY <5>1, <5>3 DEF Tombs
        <5> QED
          BY <2>2, <3>1, <5>2, <5>4
      <4> QED
        BY <2>2, <3>3, <4>1, <4>2
    <3> QED
      BY <3>2, <3>3
  <2> QED
    BY <1>1, <2>1, <2>2
<1>7. ASSUME NEW k \in Key, NEW v \in Version, About(k, v)'
      PROVE  Made(k, v) \/ \E w \in Version : About(k, w) /\ Plain(w) = Plain(v)
  <2>1. PICK q \in Host : file'[q].row[k] = v \/ InPage(q, k, v)'
    BY <1>7 DEF About
  <2>0. v # None
    BY SyncAssumption DEF SyncAssumption
  <2>2. CASE InPage(q, k, v)'
    BY <2>2 DEF About
  <2>3. CASE file'[q].row[k] = v /\ q # h
    BY <1>1, <2>3 DEF About
  <2>4. CASE file'[q].row[k] = v /\ q = h
    <3>1. g.row[k] = v
      BY <1>1, <2>4
    <3>2. CASE g.row[k] = file[h].row[k]
      BY <3>1, <3>2 DEF About
    <3>3. CASE Touched(h, file[h], g, k)
      BY <1>1, <3>1, <3>3 DEF Touched, Made
    <3>4. CASE \E w \in Version : InPage(h, k, w) /\ Plain(g.row[k]) = Plain(w)
      BY <3>1, <3>4 DEF About
    <3> QED
      BY <3>2, <3>3, <3>4
  <2> QED
    BY <2>1, <2>2, <2>3, <2>4
<1> QED
  BY <1>3, <1>4, <1>5, <1>6, <1>7 DEF Forward

LEMMA WriteForward ==
  ASSUME Inv, Inv', Calm, NEW h \in Host, NEW g, WritesTo(h, g)
  PROVE  Forward
<1>1. /\ g \in File /\ Saves(h, g) /\ pull' = pull /\ Written(h, file[h], g)
      /\ file[h].hlc <= g.hlc /\ g.id = file[h].id
  BY DEF WritesTo, LocalOnly, Proper, Orderly, Written, Continues
<1>2. \A q \in Host : \A k \in Key : \A v \in Version : InPage(q, k, v)' => InPage(q, k, v)
  BY <1>1 DEF InPage
<1>3. \A k \in Rows(file[h]) : k \in Rows(g) /\ NotBefore(g.row[k].at, file[h].row[k].at)
  <2> SUFFICES ASSUME NEW k \in Rows(file[h])
               PROVE  k \in Rows(g) /\ NotBefore(g.row[k].at, file[h].row[k].at)
    OBVIOUS
  <2>0. file[h] \in File /\ k \in Key /\ file[h].row[k] # None /\ file[h].row[k].at \in Stamp /\ file[h].hlc \in Nat
    BY RowIs DEF Inv, Types, TypeOK, Rows
  <2>1. CASE g.row[k] = file[h].row[k]
    BY <2>0, <2>1, NotBeforeIsOrder DEF Rows
  <2>2. CASE Touched(h, file[h], g, k)
    <3>1. file[h].row[k].at.clock <= file[h].hlc
      BY DEF Inv, FilesInOrder, Proper
    <3>2. k \in Rows(g) /\ g.row[k].at \in Stamp
      BY <1>1, <2>0, <2>2, RowIs DEF Touched, Rows
    <3>3. g.row[k].at.clock > file[h].row[k].at.clock
      BY <2>0, <2>2, <3>1, <3>2 DEF Touched, Stamp
    <3> QED
      BY <2>0, <3>2, <3>3, NotBeforeIsOrder
  <2> QED
    BY <1>1, <2>0, <2>1, <2>2 DEF Written
<1> QED
  BY <1>1, <1>2, <1>3, SavesForward DEF Written

LEMMA WriteCalm ==
  ASSUME Inv, Inv', Calm, NEW h \in Host, NEW g, WritesTo(h, g)
  PROVE  Calm'
<1>1. Forward
  BY WriteForward
<1>2. Given' /\ Unique'
  BY <1>1, ForwardStamps
<1>3. /\ Types /\ g \in File /\ Saves(h, g) /\ pull' = pull /\ left'["restores"] = 0
      /\ g.id = file[h].id /\ g.served = file[h].served /\ g.handed = file[h].handed /\ g.peer = file[h].peer
  BY DEF Inv, WritesTo, LocalOnly, Proper, Orderly, Written, Continues, Calm
<1>4. file'[h] = g /\ \A p \in Host : p # h => file'[p] = file[p]
  BY <1>3, SavesIs
<1>5. \A p \in Host : /\ file'[p].id = file[p].id /\ file'[p].served = file[p].served
                      /\ file'[p].handed = file[p].handed /\ file'[p].peer = file[p].peer
  BY <1>3, <1>4
<1>6. Cursors'
  <2> SUFFICES ASSUME NEW q \in Host
               PROVE  /\ file'[q].id = q
                      /\ \A p \in Peers(q) :
                           /\ file'[q].peer[p].cursor <= file'[p].handed[q]
                           /\ Upto(file'[p], top'[q], file'[q].peer[p].cursor)
                           /\ Upto(file'[p], top'[q], file'[p].served[q])
    BY DEF Cursors
  <2>1. file'[q].id = q
    BY <1>5 DEF Calm, Cursors
  <2>2. ASSUME NEW p \in Peers(q)
        PROVE  /\ file'[q].peer[p].cursor <= file'[p].handed[q]
               /\ Upto(file'[p], top'[q], file'[q].peer[p].cursor)
               /\ Upto(file'[p], top'[q], file'[p].served[q])
    <3>1. p \in Host
      BY DEF Peers
    <3> DEFINE c == file[q].peer[p].cursor
               s == file[p].served[q]
    <3>2. c <= file[p].handed[q] /\ Upto(file[p], top[q], c) /\ Upto(file[p], top[q], s)
      BY DEF Calm, Cursors
    <3>3. c \in Nat /\ s \in Nat /\ file[p].handed[q] \in Nat /\ file[p].seq \in Nat
          /\ file[p].handed[q] <= file[p].seq /\ s <= file[p].seq
      BY <3>1, Counters
    <3>4. c <= file[p].seq
      BY <3>2, <3>3
    <3>5. file'[q].peer[p].cursor = c /\ file'[p].served[q] = s /\ file'[p].handed[q] = file[p].handed[q]
      BY <1>5, <3>1
    <3> HIDE DEF c, s
    <3>6. Upto(file'[p], top'[q], c) /\ Upto(file'[p], top'[q], s)
      BY <1>1, <3>1, <3>2, <3>3, <3>4, ForwardUpto
    <3> QED
      BY <3>2, <3>5, <3>6
  <2> QED
    BY <2>1, <2>2
<1>7. ASSUME NEW q \in Host PROVE Pulling(q)'
  <2>1. \A p \in Host : file[p].handed[q] <= file'[p].handed[q]
    BY <1>5, Counters
  <2> QED
    BY <1>1, <1>3, <2>1, ForwardPulling
<1>8. ASSUME NEW q \in Host, NEW k \in Key PROVE Tombs(q, k)'
  <2>1. CASE file[q].row[k] = None
    <3>1. \A v \in Version : InPage(q, k, v)' => InPage(q, k, v)
      BY <1>3 DEF InPage
    <3> QED
      BY <1>1, <2>1, <3>1, ForwardTombs
  <2>2. CASE file[q].row[k] # None
    <3>1. file'[q].row[k] # None
      <4>1. CASE q = h
        <5>1. Written(h, file[h], g)
          BY DEF WritesTo
        <5> QED
          BY <1>4, <2>2, <4>1, <5>1 DEF Written, Touched, Rows
      <4> QED
        BY <1>4, <2>2, <4>1
    <3> QED
      BY <3>1, NotPurged
  <2> QED
    BY <2>1, <2>2
<1> QED
  BY <1>2, <1>3, <1>6, <1>7, <1>8 DEF Calm

LEMMA ServeCalm ==
  ASSUME Inv, Inv', Calm, NEW h \in Host, ServeChanges(h)
  PROVE  Forward /\ Calm'
<1> DEFINE p == pull[h].peer
           since == pull[h].cursor
           page == PageOf(file[p], since)
<1>1. Pulling(h) /\ pull[h].pc = "ask" /\ Asking(h)
  BY DEF Calm, Pulling, Idle, ServeChanges
<1>2. p \in Peers(h) /\ p \in Host /\ pull[h].db = p /\ since <= file[p].handed[h] /\ since \in Nat
      /\ Upto(file[p], top[h], since)
  BY <1>1 DEF Asking, Peers, Inv, Types, Pull
<1>3. since <= file[p].seq
  BY <1>2, Counters
<1>4. ~Forgotten(file[p], h, since)
  BY <1>2, <1>3, Counters DEF Forgotten
<1>5. Serves(h)
  BY <1>4, ServesIs
<1>6. /\ file' \in [Host -> File] /\ ServedFile(file[p], file'[p])
      /\ file'[p].id = file[p].id /\ file'[p].peer = file[p].peer
      /\ file'[p].served = [file[p].served EXCEPT ![h] = since]
      /\ file'[p].handed = [file[p].handed EXCEPT ![h] = Latest(@, pull'[h].page.next)]
      /\ \A q \in Host : q # p => file'[q] = file[q]
  BY <1>5, ServedFileIs
<1>7. /\ top' = top /\ left' = left
      /\ pull'[h].page = page /\ pull'[h].pc = "page" /\ pull'[h].peer = p /\ pull'[h].db = p
      /\ pull'[h].cursor = since
      /\ \A q \in Host : q # h => pull'[q] = pull[q]
      /\ page \in Page /\ page.db = file[p].id /\ since <= page.next /\ page.next <= file[p].seq
      /\ page.next \in Nat /\ Len(page.rows) \in Nat
      /\ \A i \in 1..Len(page.rows) :
           page.rows[i].key \in Rows(file[p]) /\ page.rows[i].v = file[p].row[page.rows[i].key]
      /\ \A k \in Rows(file[p]) : since < file[p].row[k].seq /\ file[p].row[k].seq <= page.next
           => \E i \in 1..Len(page.rows) : page.rows[i].key = k
  <2>1. /\ top' = top /\ left' = left
        /\ pull'[h].page = page /\ pull'[h].pc = "page" /\ pull'[h].peer = p /\ pull'[h].db = pull[h].db
        /\ pull'[h].cursor = since
        /\ \A q \in Host : q # h => pull'[q] = pull[q]
        /\ page \in Page /\ page.db = file[p].id /\ since <= page.next /\ page.next <= file[p].seq
        /\ \A i \in 1..Len(page.rows) :
             page.rows[i].key \in Rows(file[p]) /\ page.rows[i].v = file[p].row[page.rows[i].key]
        /\ \A k \in Rows(file[p]) : since < file[p].row[k].seq /\ file[p].row[k].seq <= page.next
             => \E i \in 1..Len(page.rows) : page.rows[i].key = k
    BY <1>5 DEF Serves
  <2> HIDE DEF page
  <2>2. page.next \in Nat /\ Len(page.rows) \in Nat
    BY <2>1 DEF Page
  <2> QED
    BY <1>2, <2>1, <2>2
<1> HIDE DEF page
<1>8. \A q \in Host : /\ file'[q].row = file[q].row /\ file'[q].hlc = file[q].hlc /\ file'[q].id = file[q].id
                      /\ file'[q].peer = file[q].peer /\ file'[q].seq = file[q].seq
  BY <1>6 DEF ServedFile
<1>9. \A q \in Host, r \in Host : /\ file[q].handed[r] <= file'[q].handed[r]
                                  /\ file'[q].served[r] = file[q].served[r] \/ (q = p /\ r = h /\ file'[q].served[r] = since)
  <2> SUFFICES ASSUME NEW q \in Host, NEW r \in Host
               PROVE  /\ file[q].handed[r] <= file'[q].handed[r]
                      /\ \/ file'[q].served[r] = file[q].served[r]
                         \/ q = p /\ r = h /\ file'[q].served[r] = since
    OBVIOUS
  <2>1. file[q].handed[r] \in Nat /\ file[q].served \in [Host -> Nat] /\ file[q].handed \in [Host -> Nat]
    BY DEF Inv, Types, TypeOK, File
  <2>2. CASE q # p
    BY <1>6, <2>1, <2>2
  <2>3. CASE q = p /\ r # h
    BY <1>6, <2>1, <2>3
  <2>4. CASE q = p /\ r = h
    <3>1. file'[q].handed[r] = Latest(file[q].handed[r], page.next) /\ file'[q].served[r] = since
      BY <1>6, <1>7, <2>1, <2>4
    <3>2. page.next \in Nat
      BY <1>7
    <3> QED
      BY <2>1, <2>4, <3>1, <3>2 DEF Latest
  <2> QED
    BY <2>2, <2>3, <2>4
<1>10. file'[p].handed[h] >= page.next
  <2>1. file[p].handed[h] \in Nat /\ file[p].handed \in [Host -> Nat]
    BY <1>2 DEF Inv, Types, TypeOK, File
  <2>2. file'[p].handed[h] = Latest(file[p].handed[h], page.next)
    BY <1>6, <1>7, <2>1
  <2> QED
    BY <1>7, <2>1, <2>2, LatestIs
<1>11. ASSUME NEW q \in Host, NEW k \in Key, NEW v \in Version, InPage(q, k, v)'
       PROVE  InPage(q, k, v) \/ (q = h /\ file[p].row[k] = v)
  <2>1. CASE q # h
    BY <1>7, <1>11, <2>1 DEF InPage
  <2>2. CASE q = h
    BY <1>7, <1>11, <2>2 DEF InPage
  <2> QED
    BY <2>1, <2>2
<1>12. Forward
  <2>1. \A q \in Host : file[q].hlc <= file'[q].hlc
    BY <1>8 DEF Inv, Types, TypeOK, File
  <2>2. ASSUME NEW q \in Host, NEW k \in Key, top[q][k] # None PROVE NotBefore(top[q][k], top[q][k])
    BY <2>2, RowTypes, NotBeforeIsOrder DEF Inv
  <2>3. ASSUME NEW k \in Key, NEW v \in Version, About(k, v)' PROVE About(k, v)
    BY <1>2, <1>8, <1>11, <2>3 DEF About
  <2> QED
    BY <1>7, <1>8, <2>1, <2>2, <2>3 DEF Forward
<1>13. Given' /\ Unique'
  BY <1>12, ForwardStamps
<1>14. Cursors'
  <2> SUFFICES ASSUME NEW q \in Host, NEW r \in Peers(q)
               PROVE  /\ file'[q].id = q
                      /\ file'[q].peer[r].cursor <= file'[r].handed[q]
                      /\ Upto(file'[r], top'[q], file'[q].peer[r].cursor)
                      /\ Upto(file'[r], top'[q], file'[r].served[q])
    <3>1. \A q \in Host : file'[q].id = q
      BY <1>8 DEF Calm, Cursors
    <3> QED
      BY <3>1 DEF Cursors
  <2>0. r \in Host
    BY DEF Peers
  <2> DEFINE c == file[q].peer[r].cursor
             s == file'[r].served[q]
  <2>1. c <= file[r].handed[q] /\ Upto(file[r], top[q], c) /\ Upto(file[r], top[q], file[r].served[q])
    BY DEF Calm, Cursors
  <2>2. /\ c \in Nat /\ file[r].handed[q] \in Nat /\ file[r].seq \in Nat
        /\ file[r].served[q] <= file[r].seq /\ file[r].handed[q] <= file[r].seq
        /\ file[r].served[q] \in Nat
    BY <2>0, Counters
  <2>3. Upto(file[r], top[q], s) /\ s \in Nat /\ s <= file[r].seq
    <3>1. s = file[r].served[q] \/ (r = p /\ q = h /\ s = since)
      BY <1>9, <2>0
    <3> QED
      BY <1>2, <1>3, <2>1, <2>2, <3>1
  <2>4. c <= file[r].seq
    BY <2>1, <2>2
  <2> HIDE DEF s
  <2>5. Upto(file'[r], top'[q], s) /\ Upto(file'[r], top'[q], c)
    BY <1>12, <2>0, <2>1, <2>2, <2>3, <2>4, ForwardUpto
  <2>6. file'[q].peer[r].cursor = c /\ file'[q].id = q
    BY <1>8 DEF Calm, Cursors
  <2>7. c <= file'[r].handed[q]
    <3>1. file'[r].handed[q] \in Nat /\ file[r].handed[q] <= file'[r].handed[q]
      BY <1>6, <1>9, <2>0 DEF File
    <3> QED
      BY <2>1, <2>2, <3>1
  <2> QED
    BY <2>5, <2>6, <2>7 DEF s
<1>15. Pulling(h)'
  <2>1. Upto(file'[p], top'[h], since)
    BY <1>2, <1>3, <1>12, ForwardUpto
  <2>2. since <= file'[p].handed[h]
    <3>1. file'[p].handed[h] \in Nat
      BY <1>2, <1>6 DEF File
    <3> QED
      BY <1>2, <1>7, <1>10, <3>1
  <2>3. Asking(h)'
    BY <1>2, <1>7, <2>1, <2>2 DEF Asking
  <2>4. file[p].id = p
    BY <1>2 DEF Calm, Cursors
  <2>5. ASSUME NEW k \in Rows(file'[p]), file'[p].row[k].seq <= page.next
        PROVE  \/ top'[h][k] # None /\ NotBefore(top'[h][k], file'[p].row[k].at)
               \/ \E v \in Version : InPage(h, k, v)' /\ NotBefore(v.at, file'[p].row[k].at)
    <3>1. k \in Rows(file[p]) /\ k \in Key /\ file'[p].row[k] = file[p].row[k] /\ file[p].row[k] # None
      BY <1>2, <1>8 DEF Rows
    <3>2. file[p].row[k] \in Version /\ file[p].row[k].seq \in Nat /\ file[p].row[k].at \in Stamp
      BY <1>2, <3>1, RowTypes DEF Inv
    <3>3. CASE file[p].row[k].seq <= since
      BY <1>2, <1>7, <3>1, <3>3 DEF Upto
    <3>4. CASE since < file[p].row[k].seq
      <4>1. PICK i \in 1..Len(page.rows) : page.rows[i].key = k
        BY <1>7, <2>5, <3>1, <3>4
      <4>2. page.rows[i].v = file[p].row[k]
        BY <1>7, <4>1
      <4>3. PICK v \in Version : v = file[p].row[k]
        BY <3>2
      <4>4. InPage(h, k, v)'
        BY <1>7, <4>1, <4>2, <4>3 DEF InPage
      <4>5. NotBefore(v.at, file'[p].row[k].at)
        BY <3>1, <3>2, <4>3, NotBeforeIsOrder
      <4> QED
        BY <4>4, <4>5
    <3> QED
      BY <1>2, <3>2, <3>3, <3>4
  <2>6. Covers(h, pull[h].page, pull[h].peer)'
    BY <1>7, <1>10, <2>4, <2>5 DEF Covers
  <2> QED
    BY <2>3, <2>6 DEF Pulling
<1>16. ASSUME NEW q \in Host PROVE Pulling(q)'
  <2>1. CASE q = h
    BY <1>15, <2>1
  <2>2. CASE q # h
    <3>1. pull'[q] = pull[q] /\ \A r \in Host : file[r].handed[q] <= file'[r].handed[q]
      BY <1>7, <1>9, <2>2
    <3> QED
      BY <1>12, <3>1, ForwardPulling
  <2> QED
    BY <2>1, <2>2
<1>17. ASSUME NEW q \in Host, NEW k \in Key PROVE Tombs(q, k)'
  <2>1. CASE file[q].row[k] = None
    <3>1. \A v \in Version : InPage(q, k, v)' => InPage(q, k, v) \/ \E r \in Host : file[r].row[k] = v
      BY <1>2, <1>11
    <3> QED
      BY <1>12, <2>1, <3>1, ForwardTombs
  <2>2. CASE file[q].row[k] # None
    <3>1. file'[q].row[k] # None
      BY <1>8, <2>2
    <3> QED
      BY <3>1, NotPurged
  <2> QED
    BY <2>1, <2>2
<1> QED
  BY <1>7, <1>12, <1>13, <1>14, <1>16, <1>17 DEF Calm

LEMMA ApplyCalm ==
  ASSUME Inv, Inv', Calm, NEW h \in Host, NEW g, Applies(h, g)
  PROVE  Forward /\ Calm'
<1> DEFINE p == pull[h].peer
           page == pull[h].page
<1>1. /\ Types /\ g \in File /\ Saves(h, g) /\ left' = left
      /\ page \in Page /\ pull[h].pc = "page" /\ page.next \in Nat /\ page.rows \in Seq(Row) /\ p \in Host
      /\ \A q \in Host : q # h => pull'[q] = pull[q]
      /\ \/ pull'[h].pc = "idle"
         \/ pull'[h].pc = "ask" /\ pull'[h].peer = p /\ pull'[h].db = pull[h].db /\ pull'[h].cursor = page.next
  BY DEF Inv, Applies, Page
<1>2. /\ file[h].hlc <= g.hlc
      /\ g.id = file[h].id /\ g.served = file[h].served /\ g.handed = file[h].handed
      /\ g.peer = [file[h].peer EXCEPT ![p] = [db |-> page.db, cursor |-> page.next]]
      /\ \A k \in Key :
           \/ g.row[k] = file[h].row[k]
           \/ Touched(h, file[h], g, k)
           \/ /\ k \in Rows(g) /\ file[h].seq < g.row[k].seq
              /\ \E m \in 1..Len(page.rows) :
                   page.rows[m].key = k /\ Plain(g.row[k]) = Plain(page.rows[m].v)
      /\ \A k \in Rows(file[h]) : k \in Rows(g) /\ NotBefore(g.row[k].at, file[h].row[k].at)
      /\ \A m \in 1..Len(page.rows) :
           page.rows[m].key \in Rows(g) /\ NotBefore(g.row[page.rows[m].key].at, page.rows[m].v.at)
  BY DEF Applies, IsPulled
<1>3. Asking(h) /\ Covers(h, page, p) /\ p \in Peers(h) /\ p # h /\ pull[h].db = p
  BY <1>1 DEF Calm, Pulling, Idle, Asking, Peers
<1>4. /\ file' \in [Host -> File] /\ file'[h] = g /\ \A q \in Host : q # h => file'[q] = file[q]
      /\ \A k \in Key : top'[h][k] = IF g.row[k] # None THEN g.row[k].at ELSE top[h][k]
      /\ \A q \in Host : q # h => top'[q] = top[q]
  BY <1>1, SavesIs
<1>5. \A m \in 1..Len(page.rows) : page.rows[m] \in Row /\ page.rows[m].key \in Key /\ page.rows[m].v \in Version
                                   /\ InPage(h, page.rows[m].key, page.rows[m].v)
  <2>1. \A m \in 1..Len(page.rows) : page.rows[m] \in Row
    BY <1>1
  <2> QED
    BY <1>1, <2>1 DEF Row, InPage
<1> HIDE DEF p, page
<1>6. Forward
  <2>1. \A q \in Host : \A k \in Key : \A v \in Version : InPage(q, k, v)' => InPage(q, k, v)
    BY <1>1 DEF InPage
  <2>2. \A k \in Key :
           \/ g.row[k] = file[h].row[k]
           \/ Touched(h, file[h], g, k)
           \/ /\ k \in Rows(g) /\ file[h].seq < g.row[k].seq
              /\ \E v \in Version : InPage(h, k, v) /\ Plain(g.row[k]) = Plain(v)
    BY <1>2, <1>5
  <2> QED
    BY <1>1, <1>2, <2>1, <2>2, SavesForward
<1>7. Given' /\ Unique'
  BY <1>6, ForwardStamps
<1>8. \A q \in Host : /\ file'[q].id = file[q].id /\ file'[q].served = file[q].served
                      /\ file'[q].handed = file[q].handed
  BY <1>2, <1>4
(* What was in the page the host has now; the rest it had. *)
<1>9. Upto(file'[p], top'[h], page.next)
  <2> SUFFICES ASSUME NEW k \in Rows(file[p]), file[p].row[k].seq <= page.next
               PROVE  top'[h][k] # None /\ NotBefore(top'[h][k], file[p].row[k].at)
    BY <1>1, <1>3, <1>4 DEF Upto
  <2>1. k \in Key /\ file[p].row[k] # None
    BY DEF Rows
  <2>2. file[p].row[k].at \in Stamp
    BY <1>1, <2>1, RowTypes
  <2>3. CASE top[h][k] # None /\ NotBefore(top[h][k], file[p].row[k].at)
    <3>1. top'[h][k] # None /\ NotBefore(top'[h][k], top[h][k])
      BY <1>6, <2>1, <2>3 DEF Forward
    <3>2. top[h][k] \in Stamp /\ top'[h][k] \in Stamp
      BY <2>1, <2>3, <3>1 DEF Inv, Types, TypeOK
    <3> QED
      BY <2>2, <2>3, <3>1, <3>2, NotBeforeIsOrder
  <2>4. ASSUME NEW v \in Version, InPage(h, k, v), NotBefore(v.at, file[p].row[k].at)
        PROVE  top'[h][k] # None /\ NotBefore(top'[h][k], file[p].row[k].at)
    <3>1. PICK m \in 1..Len(page.rows) : page.rows[m].key = k /\ page.rows[m].v = v
      BY <2>4 DEF InPage, page
    <3>2. k \in Rows(g) /\ NotBefore(g.row[k].at, v.at)
      BY <1>2, <3>1
    <3>3. g.row[k] # None /\ g.row[k].at \in Stamp /\ top'[h][k] = g.row[k].at
      BY <1>1, <1>4, <2>1, <3>2, RowIs DEF Rows
    <3>4. v.at \in Stamp /\ g.row[k].at # None
      BY <3>3, StampIs, SyncAssumption DEF SyncAssumption
    <3> QED
      BY <2>2, <2>4, <3>2, <3>3, <3>4, NotBeforeIsOrder
  <2> QED
    BY <1>3, <2>3, <2>4 DEF Covers
<1>10. Cursors'
  <2> SUFFICES ASSUME NEW q \in Host, NEW r \in Peers(q)
               PROVE  /\ file'[q].id = q
                      /\ file'[q].peer[r].cursor <= file'[r].handed[q]
                      /\ Upto(file'[r], top'[q], file'[q].peer[r].cursor)
                      /\ Upto(file'[r], top'[q], file'[r].served[q])
    <3>1. \A q \in Host : file'[q].id = q
      BY <1>8 DEF Calm, Cursors
    <3> QED
      BY <3>1 DEF Cursors
  <2>0. r \in Host
    BY DEF Peers
  <2>1. file'[q].id = q
    BY <1>8 DEF Calm, Cursors
  <2>2. Upto(file'[r], top'[q], file'[r].served[q])
    <3> DEFINE s == file[r].served[q]
    <3>1. Upto(file[r], top[q], s)
      BY DEF Calm, Cursors
    <3>2. s \in Nat /\ s <= file[r].seq
      BY <2>0, Counters
    <3>3. file'[r].served[q] = s
      BY <1>8, <2>0
    <3> HIDE DEF s
    <3>4. Upto(file'[r], top'[q], s)
      BY <1>6, <2>0, <3>1, <3>2, ForwardUpto
    <3> QED
      BY <3>3, <3>4
  <2>3. CASE q = h /\ r = p
    <3>1. file'[q].peer[r].cursor = page.next
      <4>1. file[h].peer \in [Host -> [db: Nat, cursor: Nat]]
        BY DEF Inv, Types, TypeOK, File
      <4> QED
        BY <1>1, <1>2, <1>4, <2>3, <4>1
    <3>2. page.next <= file'[r].handed[q]
      BY <1>3, <1>8, <2>0, <2>3 DEF Covers
    <3> QED
      BY <1>9, <2>1, <2>2, <2>3, <3>1, <3>2
  <2>4. CASE ~(q = h /\ r = p)
    <3> DEFINE c == file[q].peer[r].cursor
    <3>1. file'[q].peer[r].cursor = c
      <4>1. file[h].peer \in [Host -> [db: Nat, cursor: Nat]]
        BY DEF Inv, Types, TypeOK, File
      <4>2. CASE q = h
        BY <1>2, <1>4, <2>0, <2>4, <4>1, <4>2
      <4>3. CASE q # h
        BY <1>4, <4>3
      <4> QED
        BY <4>2, <4>3
    <3>2. Upto(file[r], top[q], c) /\ c <= file[r].handed[q]
      BY DEF Calm, Cursors
    <3>3. c \in Nat /\ c <= file[r].seq
      BY <2>0, <3>2, Counters
    <3> HIDE DEF c
    <3>4. Upto(file'[r], top'[q], c)
      BY <1>6, <2>0, <3>2, <3>3, ForwardUpto
    <3> QED
      BY <1>8, <2>0, <2>1, <2>2, <3>1, <3>2, <3>4
  <2> QED
    BY <2>3, <2>4
<1>11. ASSUME NEW q \in Host PROVE Pulling(q)'
  <2>1. CASE q # h
    <3>1. \A r \in Host : file[r].handed[q] <= file'[r].handed[q]
      BY <1>8, Counters
    <3> QED
      BY <1>1, <1>6, <2>1, <3>1, ForwardPulling
  <2>2. CASE q = h /\ pull'[h].pc = "idle"
    BY <2>2 DEF Pulling, Idle
  <2>3. CASE q = h /\ pull'[h].pc = "ask" /\ pull'[h].peer = p /\ pull'[h].db = pull[h].db /\ pull'[h].cursor = page.next
    <3>1. page.next <= file'[p].handed[h]
      BY <1>1, <1>3, <1>8 DEF Covers
    <3>2. Asking(h)'
      BY <1>3, <1>9, <2>3, <3>1 DEF Asking
    <3> QED
      BY <2>3, <3>2 DEF Pulling
  <2> QED
    BY <1>1, <2>1, <2>2, <2>3
<1>12. ASSUME NEW q \in Host, NEW k \in Key PROVE Tombs(q, k)'
  <2>1. CASE file[q].row[k] = None
    <3>1. \A v \in Version : InPage(q, k, v)' => InPage(q, k, v)
      BY <1>1 DEF InPage
    <3> QED
      BY <1>6, <2>1, <3>1, ForwardTombs
  <2>2. CASE file[q].row[k] # None
    <3>1. file'[q].row[k] # None
      BY <1>2, <1>4, <2>2 DEF Rows
    <3> QED
      BY <3>1, NotPurged
  <2> QED
    BY <2>1, <2>2
<1>13. left'["restores"] = 0
  BY <1>1 DEF Calm
<1> QED
  BY <1>6, <1>7, <1>10, <1>11, <1>12, <1>13 DEF Calm

LEMMA PurgeCalm ==
  ASSUME Inv, Inv', Calm, NEW h \in Host, Purges(h)
  PROVE  Forward /\ Calm'
<1>1. /\ top' = top /\ pull' = pull /\ Idle(h) /\ left'["restores"] = left["restores"]
      /\ \A q \in Host :
           /\ file'[q].seq = file[q].seq /\ file'[q].hlc = file[q].hlc /\ file'[q].id = file[q].id
           /\ file'[q].served = file[q].served /\ file'[q].handed = file[q].handed
           /\ file'[q].peer = file[q].peer
           /\ q # h => file'[q] = file[q]
      /\ \A k \in Key : file'[h].row[k] = IF k \in Purgeable(h) THEN None ELSE file[h].row[k]
  BY DEF Purges
<1>2. \A q \in Host : \A k \in Key : \A v \in Version : InPage(q, k, v)' => InPage(q, k, v)
  BY <1>1 DEF InPage
<1>3. \A q \in Host : \A k \in Key : file'[q].row[k] = None \/ file'[q].row[k] = file[q].row[k]
  BY <1>1
<1>4. \A k \in Key : \A v \in Version : About(k, v)' => About(k, v)
  <2>1. \A v \in Version : v # None
    BY SyncAssumption DEF SyncAssumption
  <2> QED
    BY <1>2, <1>3, <2>1 DEF About
<1>5. Forward
  <2>1. \A q \in Host : file[q].hlc <= file'[q].hlc
    BY <1>1 DEF Inv, Types, TypeOK, File
  <2>2. ASSUME NEW q \in Host, NEW k \in Key, top[q][k] # None PROVE NotBefore(top[q][k], top[q][k])
    BY <2>2, RowTypes, NotBeforeIsOrder DEF Inv
  <2> QED
    BY <1>1, <1>3, <1>4, <2>1, <2>2 DEF Forward
<1>6. Given' /\ Unique'
  BY <1>5, ForwardStamps
<1>7. Cursors'
  <2> SUFFICES ASSUME NEW q \in Host, NEW r \in Peers(q)
               PROVE  /\ file'[q].id = q
                      /\ file'[q].peer[r].cursor <= file'[r].handed[q]
                      /\ Upto(file'[r], top'[q], file'[q].peer[r].cursor)
                      /\ Upto(file'[r], top'[q], file'[r].served[q])
    <3>1. \A q \in Host : file'[q].id = q
      BY <1>1 DEF Calm, Cursors
    <3> QED
      BY <3>1 DEF Cursors
  <2>0. r \in Host
    BY DEF Peers
  <2> DEFINE c == file[q].peer[r].cursor
             s == file[r].served[q]
  <2>1. c <= file[r].handed[q] /\ Upto(file[r], top[q], c) /\ Upto(file[r], top[q], s)
    BY DEF Calm, Cursors
  <2>2. c \in Nat /\ s \in Nat /\ s <= file[r].seq /\ c <= file[r].seq
    BY <2>0, <2>1, Counters
  <2>3. file'[q].id = q /\ file'[q].peer[r].cursor = c /\ file'[r].served[q] = s
        /\ file'[r].handed[q] = file[r].handed[q]
    BY <1>1, <2>0 DEF Calm, Cursors
  <2> HIDE DEF c, s
  <2>4. Upto(file'[r], top'[q], c) /\ Upto(file'[r], top'[q], s)
    BY <1>5, <2>0, <2>1, <2>2, ForwardUpto
  <2> QED
    BY <2>1, <2>3, <2>4
<1>8. ASSUME NEW q \in Host PROVE Pulling(q)'
  <2>1. \A r \in Host : file[r].handed[q] <= file'[r].handed[q]
    BY <1>1, Counters
  <2> QED
    BY <1>1, <1>5, <2>1, ForwardPulling
<1>9. ASSUME NEW q \in Host, NEW k \in Key PROVE Tombs(q, k)'
  <2>1. CASE file[q].row[k] = None
    BY <1>2, <1>5, <2>1, ForwardTombs
  <2>2. CASE file'[q].row[k] # None
    BY <2>2, NotPurged
  <2>3. CASE file[q].row[k] # None /\ file'[q].row[k] = None
    <3> DEFINE v == file[h].row[k]
    <3>1. q = h /\ k \in Purgeable(h)
      BY <1>1, <2>3
    <3>2. v.dead /\ \A p \in Peers(h) : v.seq <= file[h].served[p]
      BY <3>1 DEF Purgeable
    <3>3. v \in Version /\ v.at \in Stamp /\ k \in Rows(file[h]) /\ v # None
      BY <2>3, <3>1, RowTypes DEF Inv
    <3>4. top[h][k] = v.at
      BY <3>3 DEF Inv, TopFollows
    <3>5. ASSUME NEW p \in Host PROVE top[p][k] # None /\ NotBefore(top[p][k], top[h][k])
      <4>1. CASE p = h
        <5>1. v.at # None
          BY <3>3, SyncAssumption DEF SyncAssumption
        <5> QED
          BY <3>3, <3>4, <4>1, <5>1, NotBeforeIsOrder
      <4>2. CASE p # h
        <5>1. p \in Peers(h) /\ h \in Peers(p)
          BY <4>2 DEF Peers
        <5>2. Upto(file[h], top[p], file[h].served[p])
          BY <5>1 DEF Calm, Cursors
        <5> QED
          BY <3>2, <3>3, <3>4, <5>1, <5>2 DEF Upto
      <4> QED
        BY <4>1, <4>2
    <3>6. \A w \in Version : ~InPage(h, k, w)'
      BY <1>1 DEF InPage, Idle
    <3>7. ASSUME NEW w \in Version, About(k, w)', w.at = top[h][k] PROVE w.dead
      <4>1. About(k, w) /\ About(k, v)
        BY <1>4, <3>7 DEF About
      <4>2. Plain(w) = Plain(v)
        BY <3>3, <3>4, <3>7, <4>1 DEF Calm, Unique
      <4> QED
        BY <3>2, <3>3, <4>2, PlainStamps
    <3> QED
      BY <1>1, <3>1, <3>5, <3>6, <3>7 DEF Tombs
  <2> QED
    BY <2>1, <2>2, <2>3
<1> QED
  BY <1>1, <1>5, <1>6, <1>7, <1>8, <1>9 DEF Calm

(* Without restores every step goes forward and keeps what the cursors promise. *)
LEMMA InitCalm ==
  ASSUME Init, left["restores"] = 0
  PROVE  Calm
<1>1. Inv
  BY InitInv
<1>2. /\ left["restores"] = 0
      /\ \A h \in Host :
           /\ pull[h].pc = "idle" /\ file[h].id = h
           /\ \A k \in Key : file[h].row[k] = None /\ top[h][k] = None
           /\ \A p \in Host : file[h].peer[p].cursor = 0 /\ file[h].served[p] = 0 /\ file[h].handed[p] = 0
  BY DEF Init
<1>3. \A h \in Host : Rows(file[h]) = {}
  BY <1>2 DEF Rows
<1>4. \A h \in Host : \A k \in Key : \A v \in Version : ~InPage(h, k, v)
  BY <1>2 DEF InPage
<1>5. ASSUME NEW k \in Key, NEW v \in Version PROVE ~About(k, v)
  <2>1. v # None
    BY SyncAssumption DEF SyncAssumption
  <2>2. \A h \in Host : file[h].row[k] # v /\ ~InPage(h, k, v)
    BY <1>2, <1>4, <2>1
  <2> QED
    BY <2>2 DEF About
<1>6. Given /\ Unique
  BY <1>2, <1>5 DEF Given, Unique
<1>7. Cursors
  <2>1. \A h, p \in Host : \A c \in Nat : Upto(file[p], top[h], c)
    BY <1>3 DEF Upto
  <2>2. \A h \in Host : \A p \in Peers(h) : p \in Host
    BY DEF Peers
  <2>3. 0 <= 0 /\ 0 \in Nat
    OBVIOUS
  <2> QED
    BY <1>2, <2>1, <2>2, <2>3 DEF Cursors
<1>8. \A h \in Host : Pulling(h)
  BY <1>2 DEF Pulling, Idle
<1>9. \A h \in Host : \A k \in Key : Tombs(h, k)
  BY <1>2 DEF Tombs, Purged
<1> QED
  BY <1>2, <1>6, <1>7, <1>8, <1>9 DEF Calm

LEMMA NextCalm ==
  ASSUME Inv, Inv', Calm, [Next]_vars
  PROVE  Forward /\ Calm'
<1>1. /\ pull \in [Host -> Pull] /\ now \in [Host -> Nat] /\ left \in [Kind -> Nat]
      /\ backup \in [Host -> File \union {None}]
  BY DEF Inv, Types, TypeOK
<1>2. ASSUME Quiet, \A h \in Host : pull'[h] = pull[h] \/ pull'[h].pc = "idle" \/ Greets(h)
      PROVE  Forward /\ Calm'
  BY <1>2, QuietForward, QuietCalm
<1>3. CASE UNCHANGED vars
  <2>1. /\ \A h \in Host : now[h] <= now[h] /\ backup[h] \in {None, backup[h], file[h]}
        /\ \A kind \in Kind : left[kind] <= left[kind]
    BY <1>1
  <2>2. Quiet
    BY <1>1, <1>3, <2>1 DEF vars, Quiet
  <2> QED
    BY <1>2, <1>3, <2>2 DEF vars
<1>4. CASE TimePasses \/ YearsPass
  BY <1>2, <1>4, TimeIsQuiet
<1>5. ASSUME NEW h \in Host, Writes(h) PROVE Forward /\ Calm'
  <2>1. PICK g : WritesTo(h, g)
    BY <1>5, WritesAreWrites
  <2> QED
    BY <2>1, WriteForward, WriteCalm
<1>6. ASSUME NEW h \in Host, Unreachable(h) \/ Refuse(h) \/ Restart(h) PROVE Forward /\ Calm'
  <2>1. Quiet /\ pull' = Idles(h)
    BY <1>6, EndsIs
  <2>2. \A q \in Host : pull'[q] = pull[q] \/ pull'[q].pc = "idle"
    BY <1>1, <2>1, IdlesIs
  <2> QED
    BY <1>2, <2>1, <2>2
<1>7. ASSUME NEW h \in Host, Pulls(h) PROVE Forward /\ Calm'
  <2>1. CASE Hello(h)
    <3>1. Quiet /\ Greets(h) /\ \A q \in Host : q # h => pull'[q] = pull[q]
      BY <2>1, HelloIs DEF Greets
    <3> QED
      BY <1>2, <3>1
  <2>2. CASE ServeChanges(h)
    BY <2>2, ServeCalm
  <2>3. CASE StartOver(h)
    <3>1. pull[h].pc = "page" /\ pull[h].page.db # pull[h].db
      BY <2>3 DEF StartOver
    <3>2. pull[h].db = pull[h].peer /\ pull[h].page.db = pull[h].peer
      BY <3>1 DEF Calm, Pulling, Idle, Asking, Covers
    <3> QED
      BY <3>1, <3>2
  <2>4. CASE Refuse(h)
    BY <1>6, <2>4
  <2>5. CASE ApplyPage(h)
    <3>1. PICK g : Applies(h, g)
      BY <2>5, AppliesIs
    <3> QED
      BY <3>1, ApplyCalm
  <2> QED
    BY <1>7, <2>1, <2>2, <2>3, <2>4, <2>5 DEF Pulls
<1>8. ASSUME NEW h \in Host, World(h) PROVE Forward /\ Calm'
  <2>1. CASE Unreachable(h) \/ Restart(h)
    BY <1>6, <2>1
  <2>2. CASE Tick(h) \/ Skew(h) \/ Backup(h)
    <3>1. Quiet /\ pull' = pull
      BY <2>2, TimeIsQuiet
    <3> QED
      BY <1>2, <3>1
  <2>3. CASE PurgeTombstones(h)
    BY <2>3, PurgesIs, PurgeCalm
  <2>4. CASE Restore(h)
    <3>1. left["restores"] > 0
      BY <2>4 DEF Restore, Spend
    <3> QED
      BY <3>1 DEF Calm
  <2> QED
    BY <1>8, <2>1, <2>2, <2>3, <2>4 DEF World
<1> QED
  BY <1>3, <1>4, <1>5, <1>7, <1>8 DEF Next

LEMMA AlwaysCalm ==
  ASSUME \A b \in Budgets : b["restores"] = 0
  PROVE  Spec => [](Inv /\ Calm)
<1>1. Init => Inv /\ Calm
  BY InitInv, InitCalm DEF Init
<1>2. Inv /\ Calm /\ [Next]_vars => (Inv /\ Calm)'
  BY NextInv, NextCalm
<1> QED
  BY <1>1, <1>2, PTL DEF Spec

(* Of a row that has reached every host the hosts have one version, or what
   is left of it is a tombstone. *)
LEMMA SettledRows ==
  ASSUME Inv, Calm, Settled, NEW h \in Host, NEW p \in Host, NEW k \in Key
  PROVE  Seen(file[h], k) = Seen(file[p], k)
<1> DEFINE v(q) == file[q].row[k]
<1>1. ASSUME NEW q \in Host, NEW r \in Peers(q), v(r) # None
      PROVE  /\ v(r) \in Version /\ v(r).at \in Stamp /\ top[r][k] = v(r).at
             /\ top[q][k] \in Stamp /\ top[q][k] # None /\ NotBefore(top[q][k], v(r).at)
  <2>1. r \in Host
    BY DEF Peers
  <2>2. v(r) \in Version /\ v(r).at \in Stamp /\ top[r][k] = v(r).at /\ k \in Rows(file[r])
    BY <1>1, <2>1, RowTypes DEF Inv, TopFollows
  <2>3. file[r].row[k].seq <= file[q].peer[r].cursor
    BY <2>2 DEF Settled, HasAll
  <2>4. Upto(file[r], top[q], file[q].peer[r].cursor)
    BY DEF Calm, Cursors
  <2>5. top[q][k] # None /\ NotBefore(top[q][k], v(r).at)
    BY <2>2, <2>3, <2>4 DEF Upto
  <2>6. top[q][k] \in Stamp
    BY <2>5, RowTypes DEF Inv
  <2> QED
    BY <2>2, <2>5, <2>6
<1>2. ASSUME NEW q \in Host, NEW r \in Peers(q), v(r) # None, v(q) # None
      PROVE  Seen(file[q], k) = Seen(file[r], k)
  <2>1. r \in Host /\ q \in Peers(r)
    BY DEF Peers
  <2>2. /\ v(r) \in Version /\ v(q) \in Version /\ v(r).at \in Stamp /\ v(q).at \in Stamp
        /\ NotBefore(v(q).at, v(r).at) /\ NotBefore(v(r).at, v(q).at)
    BY <1>1, <1>2, <2>1
  <2>3. v(q).at = v(r).at
    BY <2>2, NotBeforeIsOrder
  <2>4. Plain(v(q)) = Plain(v(r))
    <3>1. About(k, v(q)) /\ About(k, v(r))
      BY <2>1 DEF About
    <3> HIDE DEF v
    <3> QED
      BY <2>2, <2>3, <3>1 DEF Calm, Unique
  <2>5. v(q).dead = v(r).dead
    BY <2>2, <2>4, PlainStamps
  <2> QED
    BY <1>2, <2>4, <2>5 DEF Seen, Plain
<1>3. ASSUME NEW q \in Host, NEW r \in Peers(q), v(r) # None, v(q) = None
      PROVE  Seen(file[q], k) = Seen(file[r], k)
  <2>1. r \in Host
    BY DEF Peers
  <2>2. /\ v(r) \in Version /\ v(r).at \in Stamp /\ top[r][k] = v(r).at
        /\ top[q][k] \in Stamp /\ top[q][k] # None /\ NotBefore(top[q][k], v(r).at)
    BY <1>1, <1>3
  <2>3. Purged(q, k) /\ Tombs(q, k)
    BY <1>3, <2>2 DEF Calm, Purged
  <2>4. NotBefore(v(r).at, top[q][k])
    BY <2>1, <2>2, <2>3 DEF Tombs
  <2>5. v(r).at = top[q][k]
    BY <2>2, <2>4, NotBeforeIsOrder
  <2>6. v(r).dead
    <3>1. About(k, v(r))
      BY <2>1 DEF About
    <3> HIDE DEF v
    <3> QED
      BY <2>2, <2>3, <2>5, <3>1 DEF Tombs
  <2> QED
    BY <1>3, <2>6 DEF Seen
<1>4. CASE h = p
  BY <1>4
<1>5. CASE h # p
  <2>1. h \in Peers(p) /\ p \in Peers(h)
    BY <1>5 DEF Peers
  <2>2. CASE v(h) = None /\ v(p) = None
    BY <2>2 DEF Seen
  <2>3. CASE v(p) # None
    BY <1>2, <1>3, <2>1, <2>3
  <2>4. CASE v(h) # None
    BY <1>2, <1>3, <2>1, <2>4
  <2> QED
    BY <2>2, <2>3, <2>4
<1> QED
  BY <1>4, <1>5

LEMMA SettledAgree ==
  ASSUME Inv, Calm
  PROVE  Agree
<1>1. TypeOK /\ ClocksAreNear /\ OneHolds
  BY DEF Inv, Types, FilesInOrder, Proper, Orderly, ClocksAreNear, OneHolds
<1>2. ASSUME Settled PROVE SameRows
  <2>1. \A h, p \in Host : \A k \in Key : Seen(file[h], k) = Seen(file[p], k)
    BY <1>2, SettledRows
  <2>2. ASSUME NEW h \in Host, NEW j \in Live(file[h]), NEW k \in Live(file[h]), Shares(j, k)
        PROVE  RowKind[k] = "list"
    <3>1. /\ j \in Rows(file[h]) /\ k \in Rows(file[h]) /\ k \in Key
          /\ ~file[h].row[j].dead /\ ~file[h].row[k].dead
      BY DEF Live, Rows
    <3>2. RowKind[k] \in {"note", "list", "upload"} /\ RowKind[j] = RowKind[k] /\ RowKind[k] # "note"
      BY <2>2, <3>1, SyncAssumption DEF SyncAssumption, Shares
    <3>3. ~(file[h].row[j].holds /\ file[h].row[k].holds)
      BY <1>1, <2>2, <3>1 DEF OneHolds
    <3>4. Sound(texts, j, file[h].row[j]) /\ Sound(texts, k, file[h].row[k])
      BY <3>1 DEF Inv, FilesInOrder, Proper, Orderly
    <3> QED
      BY <3>1, <3>2, <3>3, <3>4 DEF Sound
  <2> QED
    BY <2>1, <2>2 DEF SameRows
<1> QED
  BY <1>1, <1>2 DEF Agree

(* Without restores the exchange loses and mixes up nothing: when every host
   has every other's changes, all show the same rows, and of an upload that
   reached several hosts one capture is left; for any number of hosts, rows and
   writes, with purges, lost requests and restarts, whatever the clocks show
   (applyRow, claimUnique, serveChanges, purgeTombstones). *)
THEOREM SettledHostsAgree ==
  ASSUME \A b \in Budgets : b["restores"] = 0
  PROVE  Spec => []Agree
<1>1. Inv /\ Calm => Agree
  BY SettledAgree
<1> QED
  BY <1>1, AlwaysCalm, PTL

-----------------------------------------------------------------------------
(* No row goes back.                                                       *)

(* Without purges a host that has had a row has it. *)
Kept ==
  /\ left["purges"] = 0
  /\ \A h \in Host : \A k \in Key : file[h].row[k] = None => top[h][k] = None

NoneBack ==
  \A h \in Host : \A k \in Key :
    top[h][k] # None /\ file'[h].row[k] # None /\ left'["restores"] = left["restores"]
      => ~Later(top[h][k], file'[h].row[k].at)

(* A step that keeps the rows there are, and at most writes later versions of them. *)
LEMMA RowsStay ==
  ASSUME Inv, Kept, NEW h \in Host, NEW g \in File, Saves(h, g), left'["purges"] <= left["purges"],
         left'["purges"] \in Nat,
         \A k \in Rows(file[h]) : k \in Rows(g) /\ NotBefore(g.row[k].at, file[h].row[k].at)
  PROVE  Kept' /\ NoneBack
<1>1. /\ file'[h] = g /\ \A p \in Host : p # h => file'[p] = file[p]
      /\ \A k \in Key : top'[h][k] = IF g.row[k] # None THEN g.row[k].at ELSE top[h][k]
      /\ \A p \in Host : p # h => top'[p] = top[p]
  BY SavesIs DEF Inv
<1>2. ASSUME NEW p \in Host, NEW k \in Key, file'[p].row[k] = None PROVE top'[p][k] = None
  <2>1. CASE p # h
    BY <1>1, <1>2, <2>1 DEF Kept
  <2>2. CASE p = h
    <3>1. file[h].row[k] = None
      BY <1>1, <1>2, <2>2 DEF Rows
    <3> QED
      BY <1>1, <1>2, <2>2, <3>1 DEF Kept
  <2> QED
    BY <2>1, <2>2
<1>3. ASSUME NEW p \in Host, NEW k \in Key, top[p][k] # None
      PROVE  ~Later(top[p][k], file'[p].row[k].at)
  <2>1. file[p].row[k] # None /\ top[p][k] = file[p].row[k].at /\ k \in Rows(file[p])
    BY <1>3 DEF Kept, Inv, TopFollows, Rows
  <2>2. file[p].row[k].at \in Stamp
    BY <2>1, RowTypes DEF Inv
  <2>3. CASE p # h
    BY <1>1, <2>1, <2>2, <2>3, NotBeforeIsOrder DEF NotBefore
  <2>4. CASE p = h
    BY <1>1, <2>1, <2>4 DEF NotBefore
  <2> QED
    BY <2>3, <2>4
<1>4. left'["purges"] = 0
  BY DEF Kept
<1> QED
  BY <1>2, <1>3, <1>4 DEF Kept, NoneBack

LEMMA RowsSame ==
  ASSUME Inv, Kept, left'["purges"] = 0, top' = top,
         \A h \in Host : file'[h].row = file[h].row
  PROVE  Kept' /\ NoneBack
<1>1. ASSUME NEW p \in Host, NEW k \in Key, top[p][k] # None
      PROVE  ~Later(top[p][k], file'[p].row[k].at)
  <2>1. file[p].row[k] # None /\ top[p][k] = file[p].row[k].at
    BY <1>1 DEF Kept, Inv, TopFollows
  <2>2. file[p].row[k].at \in Stamp
    BY <2>1, RowTypes DEF Inv
  <2> QED
    BY <2>1, <2>2, NotBeforeIsOrder DEF NotBefore
<1> QED
  BY <1>1 DEF Kept, NoneBack

LEMMA QuietStays ==
  ASSUME Inv, Kept, Quiet
  PROVE  Kept' /\ NoneBack
<1>1. left'["purges"] = 0
  <2>1. left'["purges"] \in Nat /\ left'["purges"] <= left["purges"] /\ left["purges"] = 0
    BY DEF Quiet, Kept, Kind
  <2> QED
    BY <2>1
<1> QED
  BY <1>1, RowsSame DEF Quiet

LEMMA WrittenKeeps ==
  ASSUME Inv, NEW h \in Host, NEW g \in File, Written(h, file[h], g)
  PROVE  \A k \in Rows(file[h]) : k \in Rows(g) /\ NotBefore(g.row[k].at, file[h].row[k].at)
<1> SUFFICES ASSUME NEW k \in Rows(file[h])
             PROVE  k \in Rows(g) /\ NotBefore(g.row[k].at, file[h].row[k].at)
  OBVIOUS
<1>0. file[h] \in File /\ k \in Key /\ file[h].row[k] # None /\ file[h].row[k].at \in Stamp /\ file[h].hlc \in Nat
  BY RowIs DEF Inv, Types, TypeOK, Rows
<1>1. CASE g.row[k] = file[h].row[k]
  BY <1>0, <1>1, NotBeforeIsOrder DEF Rows
<1>2. CASE Touched(h, file[h], g, k)
  <2>1. file[h].row[k].at.clock <= file[h].hlc
    BY DEF Inv, FilesInOrder, Proper
  <2>2. k \in Rows(g) /\ g.row[k].at \in Stamp
    BY <1>0, <1>2, RowIs DEF Touched, Rows
  <2>3. g.row[k].at.clock > file[h].row[k].at.clock
    BY <1>0, <1>2, <2>1, <2>2 DEF Touched, Stamp
  <2> QED
    BY <1>0, <2>2, <2>3, NotBeforeIsOrder
<1> QED
  BY <1>0, <1>1, <1>2 DEF Written

LEMMA NextKept ==
  ASSUME Inv, Kept, [Next]_vars
  PROVE  Kept' /\ NoneBack
<1>1. /\ pull \in [Host -> Pull] /\ now \in [Host -> Nat] /\ left \in [Kind -> Nat]
      /\ file \in [Host -> File] /\ top \in [Host -> [Key -> Stamp \union {None}]]
      /\ backup \in [Host -> File \union {None}] /\ left["purges"] = 0 /\ "purges" \in Kind
  BY DEF Inv, Types, TypeOK, Kept, Kind
<1>2. CASE UNCHANGED vars
  BY <1>1, <1>2, RowsSame DEF vars
<1>3. CASE TimePasses \/ YearsPass
  BY <1>3, TimeIsQuiet, QuietStays
<1>4. ASSUME NEW h \in Host, Writes(h) PROVE Kept' /\ NoneBack
  <2>1. PICK g : WritesTo(h, g)
    BY <1>4, WritesAreWrites
  <2>2. /\ g \in File /\ Saves(h, g) /\ Written(h, file[h], g)
        /\ left'["purges"] \in Nat /\ left'["purges"] <= left["purges"]
    BY <1>1, <2>1 DEF WritesTo, Proper, Orderly
  <2> QED
    BY <2>2, WrittenKeeps, RowsStay
<1>5. ASSUME NEW h \in Host, Pulls(h) PROVE Kept' /\ NoneBack
  <2>1. CASE Hello(h)
    BY <2>1, HelloIs, QuietStays
  <2>2. CASE ServeChanges(h)
    <3>1. top' = top /\ left' = left /\ \A q \in Host : file'[q].row = file[q].row
      <4>1. CASE Forgotten(file[pull[h].peer], h, pull[h].cursor)
        BY <2>2, <4>1, ForgottenIs DEF ServedFile
      <4>2. CASE ~Forgotten(file[pull[h].peer], h, pull[h].cursor)
        <5>1. Serves(h)
          BY <2>2, <4>2, ServesIs
        <5> DEFINE p == pull[h].peer
        <5>2. /\ ServedFile(file[p], file'[p]) /\ \A q \in Host : q # p => file'[q] = file[q]
              /\ top' = top /\ left' = left
          BY <5>1, ServedFileIs DEF Serves
        <5> HIDE DEF p
        <5> QED
          BY <5>2 DEF ServedFile
      <4> QED
        BY <4>1, <4>2
    <3> QED
      BY <1>1, <3>1, RowsSame
  <2>3. CASE StartOver(h)
    BY <2>3, StartOverIs, QuietStays
  <2>4. CASE Refuse(h)
    BY <2>4, EndsIs, QuietStays
  <2>5. CASE ApplyPage(h)
    <3>1. PICK g : Applies(h, g)
      BY <2>5, AppliesIs
    <3>2. /\ g \in File /\ Saves(h, g) /\ left' = left
          /\ \A k \in Rows(file[h]) : k \in Rows(g) /\ NotBefore(g.row[k].at, file[h].row[k].at)
      BY <3>1 DEF Applies, IsPulled
    <3> QED
      BY <1>1, <3>2, RowsStay
  <2> QED
    BY <1>5, <2>1, <2>2, <2>3, <2>4, <2>5 DEF Pulls
<1>6. ASSUME NEW h \in Host, World(h) PROVE Kept' /\ NoneBack
  <2>1. CASE Unreachable(h) \/ Restart(h)
    BY <2>1, EndsIs, QuietStays
  <2>2. CASE Tick(h) \/ Skew(h) \/ Backup(h)
    BY <2>2, TimeIsQuiet, QuietStays
  <2>3. CASE PurgeTombstones(h)
    <3>1. left["purges"] > 0
      BY <2>3 DEF PurgeTombstones, Spend
    <3> QED
      BY <1>1, <3>1
  <2>4. CASE Restore(h)
    <3>1. /\ Spend("restores") /\ file' = [file EXCEPT ![h] = backup[h]]
          /\ top' = [top EXCEPT ![h] = TopOf(backup[h], [k \in Key |-> None])]
      BY <2>4 DEF Restore
    <3>2. left'["purges"] = 0 /\ left'["restores"] # left["restores"]
      BY <1>1, <3>1 DEF Spend, Kind
    <3>3. ASSUME NEW p \in Host, NEW k \in Key, file'[p].row[k] = None PROVE top'[p][k] = None
      <4>1. CASE p = h
        BY <1>1, <3>1, <3>3, <4>1 DEF TopOf
      <4>2. CASE p # h
        BY <1>1, <3>1, <3>3, <4>2 DEF Kept
      <4> QED
        BY <4>1, <4>2
    <3> QED
      BY <3>2, <3>3 DEF Kept, NoneBack
  <2> QED
    BY <1>6, <2>1, <2>2, <2>3, <2>4 DEF World
<1> QED
  BY <1>2, <1>3, <1>4, <1>5, <1>6 DEF Next

(* In a step that goes forward no row goes back. *)
LEMMA ForwardRows ==
  ASSUME Inv, Inv', Forward
  PROVE  NoneBack
<1> SUFFICES ASSUME NEW h \in Host, NEW k \in Key, top[h][k] # None, file'[h].row[k] # None
             PROVE  ~Later(top[h][k], file'[h].row[k].at)
  BY DEF NoneBack
<1>1. top'[h][k] = file'[h].row[k].at
  BY DEF Inv, TopFollows
<1> QED
  BY <1>1 DEF Forward, NotBefore

(* No row goes back to an older version, not even after it was purged, where
   no file is restored; and where no tombstone is dropped, none goes back but
   by a restore itself, whatever was restored before. (applyRow, serveChanges;
   docs/plans: "no row regresses") *)
THEOREM NoRowGoesBack ==
  ASSUME \A b \in Budgets : b["restores"] = 0 \/ b["purges"] = 0
  PROVE  Spec => NeverBack
<1>1. Init => Inv /\ (Calm \/ Kept)
  <2> SUFFICES ASSUME Init PROVE Inv /\ (Calm \/ Kept)
    OBVIOUS
  <2>1. CASE left["restores"] = 0
    BY <2>1, InitInv, InitCalm
  <2>2. CASE left["purges"] = 0
    BY <2>2, InitInv DEF Init, Kept
  <2> QED
    BY <2>1, <2>2 DEF Init
<1>2. Inv /\ (Calm \/ Kept) /\ [Next]_vars => Inv' /\ (Calm' \/ Kept') /\ NoneBack
  <2> SUFFICES ASSUME Inv, Calm \/ Kept, [Next]_vars
               PROVE  Inv' /\ (Calm' \/ Kept') /\ NoneBack
    OBVIOUS
  <2>1. Inv'
    BY NextInv
  <2>2. CASE Calm
    BY <2>1, <2>2, NextCalm, ForwardRows
  <2>3. CASE Kept
    BY <2>1, <2>3, NextKept
  <2> QED
    BY <2>1, <2>2, <2>3
<1>3. Inv /\ (Calm \/ Kept) /\ [Next]_vars => (Inv /\ (Calm \/ Kept))'
  BY <1>2
<1>4. Inv /\ (Calm \/ Kept) /\ [Next]_vars =>
        [\A h \in Host : \A k \in Key :
           top[h][k] # None /\ file'[h].row[k] # None /\ left'["restores"] = left["restores"]
             => ~Later(top[h][k], file'[h].row[k].at)]_vars
  BY <1>2 DEF NoneBack
<1> QED
  BY <1>1, <1>3, <1>4, PTL DEF Spec, NeverBack

-----------------------------------------------------------------------------
(* Nothing is lost: where the texts of a row are.                          *)

Saved(t, saved, i) == \E j \in saved : Over(t, j, i)

(* v is a version of row k that a host of the files fs has, or one of some on the way. *)
Known(fs, way, k, v) == v \in way \/ \E q \in Host : fs[q].row[k] = v

(* The host that gave a stamp has that version of the row, or a later one. *)
Behind(fs, k, s) ==
  LET f == fs[s.origin]
  IN s.clock <= f.hlc /\ f.row[k] # None /\ NotBefore(f.row[k].at, s)

(* Host q's own version of row k has text i, or was written over it. *)
Has(fs, t, k, q, i) ==
  /\ fs[q].row[k] # None /\ fs[q].row[k].at.origin = q
  /\ Over(t, fs[q].row[k].text, i)

(* The text of a version, made apart or not, is saved, or some host's own
   version that is no older has it: the host that takes the version of another
   for its own saves the text, unless that other was built on it. *)
Stands(fs, saved, t, k, v) ==
  \/ Saved(t, saved, v.text)
  \/ \E q \in Host : Has(fs, t, k, q, v.text) /\ NotBefore(fs[q].row[k].at, v.at)

Told(fs, saved, t, k, i) == Saved(t, saved, i) \/ \E q \in Host : Has(fs, t, k, q, i)

(* The history of row k so far. *)
Tale(fs, way, saved, t, k) ==
  /\ \A v \in Version : Known(fs, way, k, v) =>
       /\ v.text \in DOMAIN t
       /\ Behind(fs, k, v.at) /\ (v.base # None => Behind(fs, k, v.base))
       /\ RowKind[k] # "upload" => Stands(fs, saved, t, k, v)
  /\ \A v, w \in Version : Known(fs, way, k, v) /\ Known(fs, way, k, w) =>
       /\ v.at = w.at => Plain(v) = Plain(w)
       /\ v.base = w.at => Over(t, v.text, w.text)
  /\ RowKind[k] # "upload" => \A i \in DOMAIN t : t[i].key = k => Told(fs, saved, t, k, i)

LEMMA OverIsTransitive ==
  ASSUME NEW t, Closed(t), NEW m \in DOMAIN t, NEW j, NEW i, Over(t, m, j), Over(t, j, i)
  PROVE  Over(t, m, i)
BY DEF Over, Closed

(* Rows that are as they were: the rest may go on. *)
LEMMA TaleGoesOn ==
  ASSUME NEW k \in Key, NEW fs \in [Host -> File], NEW gs \in [Host -> File],
         NEW t, NEW u, DOMAIN t \subseteq DOMAIN u, NEW saved, saved \subseteq DOMAIN t, NEW more, saved \subseteq more,
         \A i \in DOMAIN t : u[i] = t[i],
         \A i \in DOMAIN u : i \in DOMAIN t \/ u[i].key # k,
         NEW way, NEW rest, \A v \in Version : v \in rest => Known(fs, way, k, v),
         \A q \in Host : gs[q].row[k] = fs[q].row[k] /\ fs[q].hlc <= gs[q].hlc,
         Tale(fs, way, saved, t, k)
  PROVE  Tale(gs, rest, more, u, k)
<1>1. \A v \in Version : Known(gs, rest, k, v) => Known(fs, way, k, v)
  BY DEF Known
<1>2. \A j \in DOMAIN t : \A i : Over(t, j, i) => Over(u, j, i)
  BY DEF Over
<1>3. \A i : Saved(t, saved, i) => Saved(u, more, i)
  BY <1>2 DEF Saved
<1>4. ASSUME NEW s \in Stamp, Behind(fs, k, s) PROVE Behind(gs, k, s)
  <2>1. s.origin \in Host /\ s.clock \in Nat
    BY DEF Stamp
  <2>2. fs[s.origin].hlc \in Nat /\ gs[s.origin].hlc \in Nat
    BY <2>1 DEF File
  <2> QED
    BY <1>4, <2>1, <2>2 DEF Behind
<1>5. ASSUME NEW q \in Host, NEW i, Has(fs, t, k, q, i) PROVE Has(gs, u, k, q, i)
  <2>1. fs[q].row[k] \in Version /\ Known(fs, way, k, fs[q].row[k])
    BY <1>5 DEF Has, Known, File
  <2>2. fs[q].row[k].text \in DOMAIN t
    BY <2>1 DEF Tale
  <2> QED
    BY <1>2, <1>5, <2>2 DEF Has
<1>6. ASSUME NEW v \in Version, Known(gs, rest, k, v)
      PROVE  /\ v.text \in DOMAIN u
             /\ Behind(gs, k, v.at) /\ (v.base # None => Behind(gs, k, v.base))
             /\ RowKind[k] # "upload" => Stands(gs, more, u, k, v)
  <2>1. /\ v.text \in DOMAIN t
        /\ Behind(fs, k, v.at) /\ (v.base # None => Behind(fs, k, v.base))
        /\ RowKind[k] # "upload" => Stands(fs, saved, t, k, v)
    BY <1>1, <1>6 DEF Tale
  <2>2. v.at \in Stamp /\ (v.base # None => v.base \in Stamp)
    BY DEF Version
  <2>3. Stands(fs, saved, t, k, v) => Stands(gs, more, u, k, v)
    BY <1>3, <1>5 DEF Stands
  <2> QED
    BY <1>4, <2>1, <2>2, <2>3
<1>7. ASSUME NEW v \in Version, NEW w \in Version, Known(gs, rest, k, v), Known(gs, rest, k, w)
      PROVE  (v.at = w.at => Plain(v) = Plain(w)) /\ (v.base = w.at => Over(u, v.text, w.text))
  <2>1. Known(fs, way, k, v) /\ Known(fs, way, k, w)
    BY <1>1, <1>7
  <2>2. v.text \in DOMAIN t
    BY <2>1 DEF Tale
  <2> QED
    BY <1>2, <2>1, <2>2 DEF Tale
<1>8. ASSUME RowKind[k] # "upload", NEW i \in DOMAIN u, u[i].key = k PROVE Told(gs, more, u, k, i)
  <2>1. i \in DOMAIN t /\ t[i].key = k
    BY <1>8
  <2>2. Told(fs, saved, t, k, i)
    BY <1>8, <2>1 DEF Tale
  <2> QED
    BY <1>3, <1>5, <2>2 DEF Told
<1> QED
  BY <1>6, <1>7, <1>8 DEF Tale

(* Nothing of row k changes. *)
LEMMA TaleStays ==
  ASSUME NEW k \in Key, NEW fs \in [Host -> File], NEW gs \in [Host -> File],
         NEW t, NEW saved, saved \subseteq DOMAIN t, NEW more, saved \subseteq more, NEW way,
         \A q \in Host : gs[q].row[k] = fs[q].row[k] /\ fs[q].hlc <= gs[q].hlc,
         Tale(fs, way, saved, t, k)
  PROVE  Tale(gs, way, more, t, k)
<1>1. DOMAIN t \subseteq DOMAIN t /\ \A i \in DOMAIN t : t[i] = t[i]
  OBVIOUS
<1>2. \A i \in DOMAIN t : i \in DOMAIN t \/ t[i].key # k
  OBVIOUS
<1>3. \A v \in Version : v \in way => Known(fs, way, k, v)
  BY DEF Known
<1> QED
  BY <1>1, <1>2, <1>3, TaleGoesOn

(* Host h takes another's later version of row k, and saves its own text when
   that was made apart from it. *)
LEMMA TaleOfTaking ==
  ASSUME NEW k \in Key, NEW h \in Host, NEW fs \in [Host -> File], NEW gs \in [Host -> File],
         NEW t, Closed(t), NEW saved, saved \subseteq DOMAIN t, NEW more, saved \subseteq more, more \subseteq DOMAIN t,
         NEW way, Tale(fs, way, saved, t, k),
         NEW r \in Version, Known(fs, way, k, r),
         gs[h].row[k] \in Version, Plain(gs[h].row[k]) = Plain(r), fs[h].hlc <= gs[h].hlc,
         \A q \in Host : q # h => gs[q] = fs[q],
         fs[h].row[k] # None => Later(r.at, fs[h].row[k].at),
         RowKind[k] # "upload" /\ fs[h].row[k] # None /\ fs[h].row[k].at.origin = h /\ r.at.origin # h =>
           \/ fs[h].row[k].text \in more \/ fs[h].row[k].text = r.text
           \/ Descends(r, fs[h].row[k])
  PROVE  Tale(gs, way, more, t, k)
<1> DEFINE local == fs[h].row[k]
           x == gs[h].row[k]
<1>1. /\ r.at \in Stamp /\ x \in Version /\ x.at = r.at /\ x.base = r.base /\ x.text = r.text /\ r.text \in DOMAIN t
      /\ local # None => local \in Version /\ local.at \in Stamp /\ Known(fs, way, k, local)
      /\ Behind(fs, k, r.at)
  BY PlainStamps DEF Version, File, Known, Tale
<1>2. ASSUME NEW v \in Version, Known(gs, way, k, v)
      PROVE  \E w \in Version : Known(fs, way, k, w) /\ Plain(v) = Plain(w)
  BY <1>2 DEF Known
<1>3. ASSUME local # None PROVE r.at.origin # h /\ ~NotBefore(local.at, r.at)
  BY <1>1, <1>3 DEF Behind, NotBefore
<1>4. ASSUME NEW s \in Stamp, Behind(fs, k, s) PROVE Behind(gs, k, s)
  <2>1. s.origin \in Host /\ s.clock \in Nat
    BY DEF Stamp
  <2>2. CASE s.origin # h
    BY <1>4, <2>1, <2>2 DEF Behind
  <2>3. CASE s.origin = h
    <3>1. s.clock <= fs[h].hlc /\ local # None /\ NotBefore(local.at, s)
      BY <1>4, <2>3 DEF Behind
    <3>2. fs[h].hlc \in Nat /\ gs[h].hlc \in Nat
      BY DEF File
    <3>3. x # None /\ s.clock <= gs[h].hlc
      BY <1>1, <2>1, <3>1, <3>2, SyncAssumption DEF SyncAssumption
    <3>4. NotBefore(x.at, s)
      <4>1. local.at \in Stamp /\ Later(r.at, local.at)
        BY <1>1, <3>1
      <4>2. NotBefore(r.at, local.at)
        BY <1>1, <4>1, NotBeforeIsOrder
      <4> QED
        BY <1>1, <3>1, <4>1, <4>2, NotBeforeIsOrder
    <3> HIDE DEF x, local
    <3> QED
      BY <2>3, <3>3, <3>4 DEF Behind, x
  <2> QED
    BY <2>2, <2>3
<1>5. \A i : Saved(t, saved, i) => Saved(t, more, i)
  BY DEF Saved
(* What h's own version had: it is saved, or a host that has the version h
   takes has it. *)
<1>6. ASSUME RowKind[k] # "upload", NEW i, Has(fs, t, k, h, i)
      PROVE  \/ Saved(t, more, i)
             \/ \E q \in Host : Has(gs, t, k, q, i) /\ NotBefore(gs[q].row[k].at, local.at)
  <2>1. local # None /\ local.at.origin = h /\ Over(t, local.text, i) /\ local.text \in DOMAIN t
    BY <1>1, <1>6 DEF Has, Tale
  <2>2. CASE local.text \in more
    BY <2>1, <2>2 DEF Saved
  <2>3. ASSUME Over(t, r.text, local.text)
        PROVE  \/ Saved(t, more, i)
               \/ \E q \in Host : Has(gs, t, k, q, i) /\ NotBefore(gs[q].row[k].at, local.at)
    <3>1. Over(t, r.text, i)
      BY <1>1, <2>1, <2>3, OverIsTransitive
    <3>2. Stands(fs, saved, t, k, r)
      BY <1>6 DEF Tale
    <3>3. CASE Saved(t, saved, r.text)
      <4>1. PICK j \in saved : Over(t, j, r.text)
        BY <3>3 DEF Saved
      <4>2. Over(t, j, i)
        BY <3>1, <4>1, OverIsTransitive
      <4> QED
        BY <4>1, <4>2 DEF Saved
    <3>4. ASSUME NEW q \in Host, Has(fs, t, k, q, r.text), NotBefore(fs[q].row[k].at, r.at)
          PROVE  Has(gs, t, k, q, i) /\ NotBefore(gs[q].row[k].at, local.at)
      <4>1. q # h /\ gs[q] = fs[q]
        BY <1>3, <2>1, <3>4
      <4>2. /\ fs[q].row[k] \in Version /\ Known(fs, way, k, fs[q].row[k]) /\ fs[q].row[k].at \in Stamp
            /\ fs[q].row[k].text \in DOMAIN t
        BY <3>4 DEF Has, File, Known, Version, Tale
      <4>3. Over(t, fs[q].row[k].text, i)
        BY <3>1, <3>4, <4>2, OverIsTransitive DEF Has
      <4>4. NotBefore(fs[q].row[k].at, local.at)
        <5>1. local.at \in Stamp /\ NotBefore(r.at, local.at)
          BY <1>1, <2>1, NotBeforeIsOrder
        <5> QED
          BY <1>1, <3>4, <4>2, <5>1, NotBeforeIsOrder
      <4> QED
        BY <3>4, <4>1, <4>3, <4>4 DEF Has
    <3> QED
      BY <1>5, <3>2, <3>3, <3>4 DEF Stands
  <2>4. CASE local.text = r.text
    BY <2>3, <2>4 DEF Over
  <2>5. CASE Descends(r, local)
    <3>1. r.at.origin # h
      BY <1>3, <2>1
    <3>2. r.base # None /\ r.base.origin = h /\ r.base.clock >= local.at.clock
      BY <2>1, <2>5, <3>1 DEF Descends
    <3>3. Behind(fs, k, r.base)
      BY <3>2 DEF Tale
    <3>4. NotBefore(local.at, r.base)
      BY <3>2, <3>3 DEF Behind
    <3>5. r.base \in Stamp /\ local.at \in Stamp
      BY <1>1, <2>1, <3>2 DEF Version
    <3>6. r.base = local.at
      <4>1. local.at.clock >= r.base.clock
        BY <3>4, <3>5, NotBeforeIsOrder
      <4> QED
        BY <2>1, <3>2, <3>5, <4>1 DEF Stamp
    <3>7. Over(t, r.text, local.text)
      BY <1>1, <2>1, <3>6 DEF Tale
    <3> QED
      BY <2>3, <3>7
  <2>6. r.at.origin # h
    BY <1>3, <2>1
  <2> QED
    BY <1>6, <2>1, <2>2, <2>4, <2>5, <2>6
<1>7. ASSUME RowKind[k] # "upload", NEW v \in Version, Stands(fs, saved, t, k, v)
      PROVE  Stands(gs, more, t, k, v)
  <2>1. CASE Saved(t, saved, v.text)
    BY <1>5, <2>1 DEF Stands
  <2>2. ASSUME NEW q \in Host, Has(fs, t, k, q, v.text), NotBefore(fs[q].row[k].at, v.at)
        PROVE  Stands(gs, more, t, k, v)
    <3>1. CASE q # h
      <4>1. Has(gs, t, k, q, v.text) /\ NotBefore(gs[q].row[k].at, v.at)
        BY <2>2, <3>1 DEF Has
      <4> QED
        BY <4>1 DEF Stands
    <3>2. CASE q = h
      <4>1. CASE Saved(t, more, v.text)
        BY <4>1 DEF Stands
      <4>2. ASSUME NEW p \in Host, Has(gs, t, k, p, v.text), NotBefore(gs[p].row[k].at, local.at)
            PROVE  NotBefore(gs[p].row[k].at, v.at)
        <5>1. gs[p].row[k].at \in Stamp
          BY <4>2 DEF Has, File, Version
        <5>2. local.at \in Stamp /\ v.at \in Stamp /\ NotBefore(local.at, v.at)
          BY <1>1, <2>2, <3>2 DEF Has, Version
        <5> QED
          BY <4>2, <5>1, <5>2, NotBeforeIsOrder
      <4> QED
        BY <1>6, <1>7, <2>2, <3>2, <4>1, <4>2 DEF Stands
    <3> QED
      BY <3>1, <3>2
  <2> QED
    BY <1>7, <2>1, <2>2 DEF Stands
<1>8. ASSUME RowKind[k] # "upload", NEW i, Told(fs, saved, t, k, i)
      PROVE  Told(gs, more, t, k, i)
  <2>1. CASE Saved(t, saved, i)
    BY <1>5, <2>1 DEF Told
  <2>2. ASSUME NEW q \in Host, Has(fs, t, k, q, i) PROVE Told(gs, more, t, k, i)
    <3>1. CASE q # h
      BY <2>2, <3>1 DEF Has, Told
    <3>2. CASE q = h
      BY <1>6, <1>8, <2>2, <3>2 DEF Told
    <3> QED
      BY <3>1, <3>2
  <2> QED
    BY <1>8, <2>1, <2>2 DEF Told
<1>9. ASSUME NEW v \in Version, Known(gs, way, k, v)
      PROVE  /\ v.text \in DOMAIN t
             /\ Behind(gs, k, v.at) /\ (v.base # None => Behind(gs, k, v.base))
             /\ RowKind[k] # "upload" => Stands(gs, more, t, k, v)
  <2>1. PICK w \in Version : Known(fs, way, k, w) /\ Plain(v) = Plain(w)
    BY <1>2, <1>9
  <2>2. w.at = v.at /\ w.base = v.base /\ w.text = v.text
    BY <2>1, PlainStamps
  <2>3. /\ w.text \in DOMAIN t
        /\ Behind(fs, k, w.at) /\ (w.base # None => Behind(fs, k, w.base))
        /\ RowKind[k] # "upload" => Stands(fs, saved, t, k, w)
    BY <2>1 DEF Tale
  <2>4. w.at \in Stamp /\ (w.base # None => w.base \in Stamp)
    BY DEF Version
  <2>5. RowKind[k] # "upload" => Stands(gs, more, t, k, w)
    BY <1>7, <2>3
  <2>6. Stands(gs, more, t, k, w) => Stands(gs, more, t, k, v)
    BY <2>2 DEF Stands
  <2> QED
    BY <1>4, <2>2, <2>3, <2>4, <2>5, <2>6
<1>10. ASSUME NEW v \in Version, NEW w \in Version, Known(gs, way, k, v), Known(gs, way, k, w)
       PROVE  (v.at = w.at => Plain(v) = Plain(w)) /\ (v.base = w.at => Over(t, v.text, w.text))
  <2>1. PICK y \in Version : Known(fs, way, k, y) /\ Plain(v) = Plain(y)
    BY <1>2, <1>10
  <2>2. PICK z \in Version : Known(fs, way, k, z) /\ Plain(w) = Plain(z)
    BY <1>2, <1>10
  <2>3. y.at = v.at /\ y.base = v.base /\ y.text = v.text /\ z.at = w.at /\ z.text = w.text
    BY <2>1, <2>2, PlainStamps
  <2>4. (y.at = z.at => Plain(y) = Plain(z)) /\ (y.base = z.at => Over(t, y.text, z.text))
    BY <2>1, <2>2 DEF Tale
  <2> QED
    BY <2>1, <2>2, <2>3, <2>4
<1>11. RowKind[k] # "upload" => \A i \in DOMAIN t : t[i].key = k => Told(gs, more, t, k, i)
  BY <1>8 DEF Tale
<1> QED
  BY <1>9, <1>10, <1>11 DEF Tale

(* Host h makes a version of row k. *)
LEMMA TaleOfMaking ==
  ASSUME NEW k \in Key, NEW h \in Host, NEW fs \in [Host -> File], NEW gs \in [Host -> File],
         NEW t, NEW u, Closed(t), Closed(u), DOMAIN t \subseteq DOMAIN u, \A i \in DOMAIN t : u[i] = t[i],
         NEW saved, saved \subseteq DOMAIN t,
         NEW way, Tale(fs, way, saved, t, k),
         gs[h].row[k] \in Version, gs[h].row[k].text \in DOMAIN u, gs[h].row[k].at.origin = h,
         fs[h].hlc < gs[h].row[k].at.clock, gs[h].row[k].at.clock <= gs[h].hlc,
         \A q \in Host : q # h => gs[q] = fs[q],
         Goes(u, h, fs[h].row[k], gs[h].row[k]),
         \A i \in DOMAIN u : i \in DOMAIN t \/ u[i].key # k \/ i = gs[h].row[k].text
  PROVE  Tale(gs, way, saved, u, k)
<1> DEFINE local == fs[h].row[k]
           x == gs[h].row[k]
<1>1. /\ x \in Version /\ x # None /\ x.at \in Stamp /\ x.at # None
      /\ local # None => /\ local \in Version /\ local.at \in Stamp /\ Known(fs, way, k, local)
                         /\ local.text \in DOMAIN t /\ (local.base # None => local.base \in Stamp)
      /\ fs[h].hlc \in Nat /\ gs[h].hlc \in Nat /\ x.at.clock \in Nat
      /\ x.at.origin = h /\ fs[h].hlc < x.at.clock /\ x.at.clock <= gs[h].hlc /\ x.text \in DOMAIN u
  BY SyncAssumption DEF Version, Stamp, File, Known, Tale, SyncAssumption
<1>2. ASSUME NEW v \in Version, Known(gs, way, k, v) PROVE v = x \/ Known(fs, way, k, v)
  BY <1>2 DEF Known
<1>3. \A j \in DOMAIN t : \A i : Over(t, j, i) => Over(u, j, i)
  BY DEF Over
<1>4. \A i : Saved(t, saved, i) => Saved(u, saved, i)
  BY <1>3 DEF Saved
<1>5. ASSUME NEW s \in Stamp, Behind(fs, k, s) PROVE Behind(gs, k, s) /\ s # x.at
  <2>1. s.origin \in Host /\ s.clock \in Nat
    BY DEF Stamp
  <2>2. CASE s.origin # h
    BY <1>1, <1>5, <2>1, <2>2 DEF Behind
  <2>3. CASE s.origin = h
    <3>1. s.clock <= fs[h].hlc
      BY <1>5, <2>3 DEF Behind
    <3>2. s.clock < x.at.clock /\ s.clock <= gs[h].hlc
      BY <1>1, <2>1, <3>1
    <3>3. NotBefore(x.at, s)
      BY <1>1, <3>2, NotBeforeIsOrder
    <3> HIDE DEF x
    <3> QED
      BY <1>1, <2>1, <2>3, <3>2, <3>3 DEF Behind, x
  <2> QED
    BY <2>2, <2>3
<1>6. Behind(gs, k, x.at)
  <2>1. NotBefore(x.at, x.at)
    BY <1>1, NotBeforeIsOrder
  <2> HIDE DEF x
  <2> QED
    BY <1>1, <2>1 DEF Behind, x
<1>7. ASSUME NEW v \in Version, Known(fs, way, k, v)
      PROVE  /\ Behind(fs, k, v.at) /\ v.at \in Stamp /\ v.text \in DOMAIN t
             /\ v.base # None => Behind(fs, k, v.base) /\ v.base \in Stamp
  BY <1>7 DEF Tale, Version
<1>8. ASSUME x.base # None
      PROVE  /\ x.base \in Stamp /\ Behind(fs, k, x.base)
             /\ local # None /\ Over(u, x.text, local.text)
             /\ \/ x.base = local.at
                \/ x.base = local.base
  <2>1. local # None /\ x.base = BaseOf(h, local) /\ Over(u, x.text, local.text)
    BY <1>8 DEF Goes
  <2>2. x.base = local.at \/ (x.base = local.base /\ local.base # None)
    BY <1>8, <2>1 DEF BaseOf
  <2>3. local.base # None => Behind(fs, k, local.base) /\ local.base \in Stamp
    BY <1>1, <1>7, <2>1
  <2>4. Behind(fs, k, local.at) /\ local.at \in Stamp
    BY <1>1, <1>7, <2>1
  <2> HIDE DEF x, local
  <2> QED
    BY <2>1, <2>2, <2>3, <2>4
<1>9. ASSUME NEW q \in Host, NEW i, Has(fs, t, k, q, i), NEW s \in Stamp, NotBefore(fs[q].row[k].at, s)
      PROVE  Has(gs, u, k, q, i) /\ NotBefore(gs[q].row[k].at, s)
  <2>1. fs[q].row[k] \in Version /\ Known(fs, way, k, fs[q].row[k]) /\ Over(t, fs[q].row[k].text, i)
    BY <1>9 DEF Has, Known, File
  <2>2. fs[q].row[k].text \in DOMAIN t
    BY <1>7, <2>1
  <2>3. Over(u, fs[q].row[k].text, i)
    BY <1>3, <2>1, <2>2
  <2>4. CASE q # h
    BY <1>9, <2>3, <2>4 DEF Has
  <2>5. CASE q = h
    <3>1. local # None /\ Over(u, x.text, local.text)
      BY <1>9, <2>5 DEF Has, Goes
    <3>2. Over(u, x.text, i)
      BY <1>1, <2>3, <2>5, <3>1, OverIsTransitive
    <3>3. NotBefore(x.at, s)
      <4>1. Behind(fs, k, local.at)
        BY <1>1, <1>7, <3>1
      <4>2. local.at.origin = h
        BY <1>9, <2>5 DEF Has
      <4>3. local.at.clock <= fs[h].hlc /\ local.at.clock \in Nat
        BY <1>1, <3>1, <4>1, <4>2 DEF Behind, Stamp
      <4>4. NotBefore(x.at, local.at)
        BY <1>1, <3>1, <4>3, NotBeforeIsOrder
      <4> QED
        BY <1>1, <1>9, <2>5, <3>1, <4>4, NotBeforeIsOrder
    <3> QED
      BY <1>1, <2>5, <3>2, <3>3 DEF Has
  <2> QED
    BY <2>4, <2>5
<1>10. Has(gs, u, k, h, x.text)
  BY <1>1 DEF Has, Over
<1>11. ASSUME NEW v \in Version, Known(gs, way, k, v)
      PROVE  /\ v.text \in DOMAIN u
             /\ Behind(gs, k, v.at) /\ (v.base # None => Behind(gs, k, v.base))
             /\ RowKind[k] # "upload" => Stands(gs, saved, u, k, v)
  <2>1. CASE v = x
    <3>1. NotBefore(x.at, x.at)
      BY <1>1, NotBeforeIsOrder
    <3>2. Stands(gs, saved, u, k, v)
      BY <1>10, <2>1, <3>1 DEF Stands
    <3>3. x.base # None => Behind(gs, k, x.base)
      BY <1>5, <1>8
    <3> HIDE DEF x
    <3> QED
      BY <1>1, <1>6, <2>1, <3>2, <3>3
  <2>2. CASE Known(fs, way, k, v)
    <3>1. /\ v.text \in DOMAIN t /\ v.at \in Stamp
          /\ Behind(gs, k, v.at) /\ (v.base # None => Behind(gs, k, v.base))
      BY <1>5, <1>7, <2>2
    <3>2. ASSUME RowKind[k] # "upload" PROVE Stands(gs, saved, u, k, v)
      <4>1. Stands(fs, saved, t, k, v)
        BY <2>2, <3>2 DEF Tale
      <4> QED
        BY <1>4, <1>9, <3>1, <4>1 DEF Stands
    <3> QED
      BY <3>1, <3>2
  <2> QED
    BY <1>2, <1>11, <2>1, <2>2
<1>12. ASSUME NEW v \in Version, NEW w \in Version, Known(gs, way, k, v), Known(gs, way, k, w)
       PROVE  (v.at = w.at => Plain(v) = Plain(w)) /\ (v.base = w.at => Over(u, v.text, w.text))
  <2>1. CASE v = x /\ w = x
    <3>1. x.base # x.at
      BY <1>1, <1>5, <1>8
    <3> HIDE DEF x
    <3> QED
      BY <2>1, <3>1
  <2>2. CASE v = x /\ Known(fs, way, k, w)
    <3>1. w.at # x.at /\ w.at \in Stamp
      BY <1>5, <1>7, <2>2
    <3>2. ASSUME x.base = w.at PROVE Over(u, x.text, w.text)
      <4>1. x.base # None
        BY <3>1, <3>2, SyncAssumption DEF SyncAssumption
      <4>2. /\ local # None /\ local \in Version /\ Known(fs, way, k, local) /\ Over(u, x.text, local.text)
            /\ local.text \in DOMAIN t /\ (w.at = local.at \/ w.at = local.base)
        BY <1>1, <1>8, <3>2, <4>1
      <4>3. Over(t, local.text, w.text)
        <5>1. CASE local.at = w.at
          <6>1. Plain(local) = Plain(w)
            BY <2>2, <4>2, <5>1 DEF Tale
          <6>2. local.text = w.text
            BY <4>2, <6>1, PlainStamps
          <6> QED
            BY <6>2 DEF Over
        <5>2. CASE local.base = w.at
          BY <2>2, <4>2, <5>2 DEF Tale
        <5> QED
          BY <4>2, <5>1, <5>2
      <4>4. Over(u, local.text, w.text)
        BY <1>3, <4>2, <4>3
      <4> QED
        BY <1>1, <4>2, <4>4, OverIsTransitive
    <3> HIDE DEF x
    <3> QED
      BY <2>2, <3>1, <3>2
  <2>3. CASE Known(fs, way, k, v) /\ w = x
    <3>1. v.at # x.at /\ (v.base # None => v.base # x.at)
      BY <1>5, <1>7, <2>3
    <3> QED
      BY <1>1, <2>3, <3>1
  <2>4. CASE Known(fs, way, k, v) /\ Known(fs, way, k, w)
    <3>1. (v.at = w.at => Plain(v) = Plain(w)) /\ (v.base = w.at => Over(t, v.text, w.text))
      BY <2>4 DEF Tale
    <3>2. v.text \in DOMAIN t
      BY <1>7, <2>4
    <3> QED
      BY <1>3, <3>1, <3>2
  <2> QED
    BY <1>2, <1>12, <2>1, <2>2, <2>3, <2>4
<1>13. ASSUME RowKind[k] # "upload", NEW i \in DOMAIN u, u[i].key = k PROVE Told(gs, saved, u, k, i)
  <2>1. CASE i = x.text
    BY <1>10, <2>1 DEF Told
  <2>2. CASE i \in DOMAIN t
    <3>1. Told(fs, saved, t, k, i)
      <4>1. t[i].key = k
        BY <1>13, <2>2
      <4> QED
        BY <1>13, <2>2, <4>1 DEF Tale
    <3>2. CASE Saved(t, saved, i)
      BY <1>4, <3>2 DEF Told
    <3>3. ASSUME NEW q \in Host, Has(fs, t, k, q, i) PROVE Has(gs, u, k, q, i)
      <4> DEFINE s == fs[q].row[k].at
      <4>1. s \in Stamp /\ NotBefore(s, s)
        <5>1. s \in Stamp
          BY <3>3 DEF Has, File, Version
        <5> QED
          BY <5>1, NotBeforeIsOrder
      <4> QED
        BY <1>9, <3>3, <4>1
    <3> QED
      BY <3>1, <3>2, <3>3 DEF Told
  <2> QED
    BY <1>13, <2>1, <2>2
<1> QED
  BY <1>11, <1>12, <1>13 DEF Tale

Tales(fs, way, saved, t) == \A k \in Key : Tale(fs, way[k], saved, t, k)

(* In the files fs host h applies row r to what it has done so far. *)
Applying(h, t, done, fs, way, r, e, gs) ==
  /\ h \in Host /\ Closed(t) /\ now[h] \in Nat
  /\ Orderly(t, now[h], done.f) /\ done.kept \subseteq DOMAIN t
  /\ fs \in [Host -> File] /\ fs[h] = done.f
  /\ r \in Row /\ Sound(t, r.key, r.v) /\ r.v.at.clock <= now[h] + MaxAhead /\ r.v \in way[r.key]
  /\ Tales(fs, way, done.kept, t)
  /\ e = ApplyRow(h, done, r)
  /\ gs \in [Host -> File] /\ gs[h] = e.f /\ \A q \in Host : q # h => gs[q] = fs[q]

(* A row of a page is applied: of every row the history goes on. *)
LEMMA RowTold ==
  ASSUME NEW h, NEW t, NEW done, NEW fs, NEW way, NEW r, NEW e, NEW gs,
         Applying(h, t, done, fs, way, r, e, gs)
  PROVE  /\ done.kept \subseteq e.kept /\ e.kept \subseteq DOMAIN t
         /\ Tales(gs, way, e.kept, t)
<1>0. /\ h \in Host /\ Closed(t) /\ now[h] \in Nat
      /\ Orderly(t, now[h], done.f) /\ done.kept \subseteq DOMAIN t
      /\ fs \in [Host -> File] /\ fs[h] = done.f
      /\ r \in Row /\ Sound(t, r.key, r.v) /\ r.v.at.clock <= now[h] + MaxAhead /\ r.v \in way[r.key]
      /\ Tales(fs, way, done.kept, t)
      /\ e = ApplyRow(h, done, r)
      /\ gs \in [Host -> File] /\ gs[h] = e.f /\ \A q \in Host : q # h => gs[q] = fs[q]
  BY DEF Applying
<1> DEFINE f == fs[h]
           j == r.key
           v == r.v
           local == f.row[j]
           g == e.f
           more == e.kept
<1>1. /\ f \in File /\ f.hlc \in Nat /\ j \in Key /\ v \in Version /\ v.at \in Stamp
      /\ local # None => /\ local \in Version /\ local.text \in DOMAIN t
                         /\ local.base # None => local.base.clock < local.at.clock
      /\ v.base # None => v.base.clock < v.at.clock
  BY <1>0 DEF Orderly, File, Row, Rows, Sound, Version
<1>2. CASE ~Takes(local, v)
  <2>1. e = done
    BY <1>0, <1>2 DEF ApplyRow
  <2>2. gs = fs
    BY <1>0, <2>1
  <2> QED
    BY <1>0, <2>1, <2>2
<1>3. CASE Takes(local, v)
  <2> DEFINE w == Write(f, h, j, v)
  <2>1. /\ e.f = w
        /\ e.kept = IF Loses(h, local, v) /\ local.text # v.text /\ RowKind[j] # "upload"
                    THEN done.kept \union {local.text} ELSE done.kept
    BY <1>0, <1>3 DEF ApplyRow
  <2>2. /\ Orderly(t, now[h], w) /\ Continues(f, w) /\ j \in Rows(w)
        /\ Plain(w.row[j]) = Plain(v) \/ AsEdited(h, f, w, j, v)
        /\ \A i \in Key \ {j} : \/ w.row[i] = f.row[i]
                                \/ i \in Rows(f) /\ AsEdited(h, f, w, i, f.row[i])
    BY <1>0, <1>1, WriteIs
  <2> HIDE DEF w
  <2>3. done.kept \subseteq more /\ more \subseteq DOMAIN t
    BY <1>0, <1>1, <2>1 DEF Loses
  <2>4. local # None => Later(v.at, local.at)
    BY <1>0, <1>1, <1>3, TakesTheLater
  <2>5. g \in File /\ fs[h].hlc <= gs[h].hlc /\ gs[h] = g
    BY <1>0, <2>1, <2>2 DEF Orderly, Continues
  <2>6. RowKind[j] # "upload" /\ local # None /\ local.at.origin = h /\ v.at.origin # h =>
          local.text \in more \/ local.text = v.text \/ Descends(v, local)
    BY <1>0, <1>3, <2>1 DEF Loses
  <2>7. \A i \in Rows(g) : g.row[i] \in Version /\ g.row[i].text \in DOMAIN t
    BY <1>0, <2>1, <2>2 DEF Orderly, File, Rows, Sound
  <2>8. Tale(fs, way[j], done.kept, t, j) /\ Known(fs, way[j], j, v)
    BY <1>0, <1>1 DEF Known, Tales
  <2>9. Tale(gs, way[j], more, t, j)
    <3>1. CASE Plain(g.row[j]) = Plain(v)
      <4>1. gs[h].row[j] \in Version /\ Plain(gs[h].row[j]) = Plain(v) /\ fs[h].hlc <= gs[h].hlc
        BY <1>0, <2>1, <2>2, <2>5, <2>7, <3>1
      <4> HIDE DEF more, v, j
      <4> QED
        BY <1>0, <1>1, <2>3, <2>4, <2>5, <2>6, <2>8, <4>1, TaleOfTaking
    <3>2. CASE AsEdited(h, f, g, j, v)
      <4> DEFINE m == [f EXCEPT !.row[j] = v]
                 ms == [fs EXCEPT ![h] = m]
      <4>1. m \in File /\ m.hlc = f.hlc /\ m.row[j] = v
        <5> DEFINE row == [f.row EXCEPT ![j] = v]
        <5>1. row \in [Key -> Version \union {None}] /\ row[j] = v
          BY <1>0, <1>1 DEF File
        <5>2. m = [f EXCEPT !.row = row]
          BY <1>0, <1>1 DEF File
        <5> HIDE DEF row, m
        <5>3. m \in File /\ m.hlc = f.hlc /\ m.row = row
          BY <1>0, <1>1, <5>1, <5>2 DEF File
        <5> QED
          BY <1>0, <5>1, <5>3
      <4> HIDE DEF m
      <4>2. ms \in [Host -> File] /\ ms[h] = m /\ \A q \in Host : q # h => ms[q] = fs[q]
        BY <1>0, <4>1
      <4> HIDE DEF ms
      <4>3. ms[h].row[j] = v /\ ms[h].hlc = f.hlc /\ fs[h].hlc <= ms[h].hlc
        BY <1>0, <1>1, <4>1, <4>2
      <4>4. Tale(ms, way[j], more, t, j)
        <5>1. ms[h].row[j] \in Version /\ Plain(ms[h].row[j]) = Plain(v)
          BY <1>0, <1>1, <4>3
        <5> HIDE DEF more, v, j
        <5> QED
          BY <1>0, <1>1, <2>3, <2>4, <2>6, <2>8, <4>2, <4>3, <5>1, TaleOfTaking
      <4>5. /\ gs[h].row[j] \in Version /\ gs[h].row[j].text \in DOMAIN t /\ gs[h].row[j].at.origin = h
            /\ ms[h].hlc < gs[h].row[j].at.clock /\ gs[h].row[j].at.clock <= gs[h].hlc
        BY <1>0, <2>5, <2>7, <3>2, <4>3 DEF AsEdited, Touched
      <4>6. \A q \in Host : q # h => gs[q] = ms[q]
        BY <1>0, <2>5, <4>2
      <4>7. Goes(t, h, ms[h].row[j], gs[h].row[j])
        <5>1. v # None
          BY <1>0, <1>1, SyncAssumption DEF SyncAssumption
        <5> QED
          BY <1>0, <2>5, <3>2, <4>3, <5>1 DEF Goes, AsEdited, Over
      <4>8. \A i \in DOMAIN t : i \in DOMAIN t \/ t[i].key # j \/ i = gs[h].row[j].text
        OBVIOUS
      <4> HIDE DEF more, v, j
      <4> QED
        BY <1>0, <1>1, <2>3, <2>5, <4>2, <4>4, <4>5, <4>6, <4>7, <4>8, TaleOfMaking
    <3> QED
      BY <1>0, <2>1, <2>2, <3>1, <3>2
  <2>10. ASSUME NEW i \in Key, i # j PROVE Tale(gs, way[i], more, t, i)
    <3>1. Tale(fs, way[i], done.kept, t, i)
      BY <1>0 DEF Tales
    <3>2. Tale(fs, way[i], more, t, i)
      <4>1. \A q \in Host : fs[q].row[i] = fs[q].row[i] /\ fs[q].hlc <= fs[q].hlc
        BY <1>0 DEF File
      <4> HIDE DEF more
      <4> QED
        BY <1>0, <2>3, <3>1, <4>1, TaleStays
    <3>3. CASE g.row[i] = f.row[i]
      <4>1. ASSUME NEW q \in Host PROVE gs[q].row[i] = fs[q].row[i] /\ fs[q].hlc <= gs[q].hlc
        <5>1. CASE q = h
          BY <2>5, <3>3, <5>1
        <5>2. CASE q # h
          <6>1. gs[q] = fs[q] /\ fs[q].hlc \in Nat
            BY <1>0, <5>2 DEF File
          <6> QED
            BY <6>1
        <5> QED
          BY <5>1, <5>2
      <4> HIDE DEF more
      <4> QED
        BY <1>0, <2>3, <3>1, <4>1, TaleStays
    <3>4. CASE i \in Rows(f) /\ AsEdited(h, f, g, i, f.row[i])
      <4>1. /\ gs[h].row[i] \in Version /\ gs[h].row[i].text \in DOMAIN t /\ gs[h].row[i].at.origin = h
            /\ fs[h].hlc < gs[h].row[i].at.clock /\ gs[h].row[i].at.clock <= gs[h].hlc
        BY <1>0, <2>5, <2>7, <3>4 DEF AsEdited, Touched
      <4>2. Goes(t, h, fs[h].row[i], gs[h].row[i])
        BY <1>0, <2>5, <3>4 DEF Goes, AsEdited, Over, Rows
      <4>3. \A x \in DOMAIN t : x \in DOMAIN t \/ t[x].key # i \/ x = gs[h].row[i].text
        OBVIOUS
      <4> HIDE DEF more
      <4> QED
        BY <1>0, <2>3, <2>5, <3>2, <4>1, <4>2, <4>3, TaleOfMaking
    <3> QED
      BY <1>0, <2>1, <2>2, <2>10, <3>3, <3>4
  <2> QED
    BY <1>0, <2>3, <2>9, <2>10 DEF Tales
<1> QED
  BY <1>0, <1>2, <1>3

(* And so it does when a page is applied, row after row. *)
LEMMA PageTold ==
  ASSUME NEW h \in Host, NEW t, Closed(t), now[h] \in Nat, kept \subseteq DOMAIN t,
         NEW fs \in [Host -> File], Orderly(t, now[h], fs[h]), NEW way,
         NEW rows \in Seq(Row),
         \A i \in 1..Len(rows) : /\ Sound(t, rows[i].key, rows[i].v)
                                 /\ rows[i].v.at.clock <= now[h] + MaxAhead
                                 /\ rows[i].v \in way[rows[i].key],
         Tales(fs, way, kept, t),
         NEW last, last = ApplyRows(h, fs[h], rows),
         NEW gs \in [Host -> File], gs[h] = last.f, \A q \in Host : q # h => gs[q] = fs[q]
  PROVE  /\ kept \subseteq last.kept /\ last.kept \subseteq DOMAIN t
         /\ Tales(gs, way, last.kept, t)
<1> DEFINE f == fs[h]
<1>1. Len(rows) \in Nat /\ [fs EXCEPT ![h] = f] = fs /\ Orderly(t, now[h], f)
  OBVIOUS
<1> HIDE DEF f
<1>2. PICK done : /\ done = [i \in 0..Len(rows) |->
                              IF i = 0 THEN [f |-> f, kept |-> kept]
                              ELSE ApplyRow(h, done[i - 1], rows[i])]
                  /\ ApplyRows(h, f, rows) = done[Len(rows)]
  BY <1>1, AppliedInOrder
<1>3. /\ done[0] = [f |-> f, kept |-> kept]
      /\ \A i \in 1..Len(rows) : done[i] = ApplyRow(h, done[i - 1], rows[i])
  BY <1>1, <1>2
<1> DEFINE P(i) == /\ Orderly(t, now[h], done[i].f)
                   /\ kept \subseteq done[i].kept /\ done[i].kept \subseteq DOMAIN t
                   /\ Tales([fs EXCEPT ![h] = done[i].f], way, done[i].kept, t)
           T == {i \in 0..Len(rows) : ~P(i)}
<1>4. P(0)
  <2>1. done[0].f = f /\ done[0].kept = kept
    BY <1>3
  <2> QED
    BY <1>1, <2>1
<1>5. ASSUME NEW i \in 1..Len(rows), P(i - 1) PROVE P(i)
  <2> DEFINE d == done[i - 1]
             e == done[i]
             r == rows[i]
             before == [fs EXCEPT ![h] = d.f]
             after == [fs EXCEPT ![h] = e.f]
  <2>1. /\ r \in Row /\ Sound(t, r.key, r.v) /\ r.v.at.clock <= now[h] + MaxAhead
        /\ r.v \in way[r.key] /\ e = ApplyRow(h, d, r)
    BY <1>1, <1>3
  <2>2. /\ Orderly(t, now[h], d.f) /\ kept \subseteq d.kept /\ d.kept \subseteq DOMAIN t
        /\ Tales(before, way, d.kept, t)
    BY <1>5
  <2> HIDE DEF d, e, r
  <2>4. Orderly(t, now[h], e.f)
    BY <2>1, <2>2, RowApplied
  <2>3. /\ before \in [Host -> File] /\ before[h] = d.f
        /\ after \in [Host -> File] /\ after[h] = e.f
        /\ \A q \in Host : q # h => after[q] = before[q]
    BY <2>2, <2>4 DEF Orderly
  <2> HIDE DEF before, after
  <2>5. d.kept \subseteq e.kept /\ e.kept \subseteq DOMAIN t /\ Tales(after, way, e.kept, t)
    <3>1. Applying(h, t, d, before, way, r, e, after)
      BY <2>1, <2>2, <2>3 DEF Applying
    <3> QED
      BY <3>1, RowTold
  <2> QED
    BY <2>2, <2>4, <2>5 DEF e, after
<1>6. ASSUME T # {} PROVE FALSE
  <2>1. PICK n \in T : \A m \in T : ~(m < n)
    <3>1. T \subseteq Nat
      OBVIOUS
    <3> HIDE DEF T
    <3> QED
      BY <1>6, <3>1, LeastNumber
  <2>2. n \in 0..Len(rows) /\ n # 0
    <3> HIDE DEF P
    <3> QED
      BY <1>4, <2>1
  <2>3. n - 1 \in 0..Len(rows) /\ n - 1 < n /\ n \in 1..Len(rows)
    BY <1>1, <2>2
  <2>4. P(n - 1)
    <3> HIDE DEF P
    <3> QED
      BY <2>1, <2>3
  <2> HIDE DEF P
  <2> QED
    BY <1>5, <2>1, <2>3, <2>4
<1>7. P(Len(rows))
  <2>1. Len(rows) \in 0..Len(rows)
    BY <1>1
  <2> HIDE DEF P
  <2> QED
    BY <1>6, <2>1
<1>8. gs = [fs EXCEPT ![h] = last.f]
  OBVIOUS
<1> QED
  BY <1>2, <1>7, <1>8 DEF f

(* The history of every row, where nothing was restored or purged. *)
OnWay == [k \in Key |-> {v \in Version : \E q \in Host : InPage(q, k, v)}]

Story ==
  /\ left["restores"] = 0 /\ left["purges"] = 0
  /\ Closed(texts) /\ Tales(file, OnWay, kept, texts)

LEMMA ApplyTold ==
  ASSUME Inv, Inv', Story, NEW h \in Host, ApplyPage(h)
  PROVE  Story'
<1> DEFINE p == pull[h].peer
           page == pull[h].page
           done == ApplyRows(h, file[h], page.rows)
           g == Pulled(h, file[h], p, page)
           gs == [file EXCEPT ![h] = done.f]
<1>1. /\ file \in [Host -> File] /\ p \in Host /\ now[h] \in Nat
      /\ Proper(texts, now[h], file[h]) /\ kept \subseteq DOMAIN texts
      /\ pull[h].pc = "page"
      /\ Saves(h, g) /\ kept' = done.kept /\ texts' = texts /\ left' = left
      /\ page \in Page /\ page.rows \in Seq(Row) /\ page.db \in Nat /\ page.next \in Nat
  BY PageToApply
<1>2. \A i \in 1..Len(page.rows) : /\ Sound(texts, page.rows[i].key, page.rows[i].v)
                                   /\ page.rows[i].v.at.clock <= now[h] + MaxAhead
  BY PageToApply
<1>3. \A i \in 1..Len(page.rows) : page.rows[i].v \in OnWay[page.rows[i].key]
  <2> SUFFICES ASSUME NEW i \in 1..Len(page.rows)
               PROVE  page.rows[i].v \in OnWay[page.rows[i].key]
    OBVIOUS
  <2>1. page.rows[i].v \in Version /\ page.rows[i].key \in Key
    <3>1. page.rows[i] \in Row
      BY <1>1
    <3> HIDE DEF page
    <3> QED
      BY <3>1 DEF Row
  <2>2. InPage(h, page.rows[i].key, page.rows[i].v)
    BY <1>1 DEF InPage
  <2> QED
    BY <2>1, <2>2 DEF OnWay
<1>4. /\ g.row = done.f.row /\ done.f.hlc <= g.hlc /\ done.f \in File /\ g \in File
  <2>1. IsPulled(h, texts, file[h], p, page, g) /\ SameButAhead(done.f, g)
    <3> HIDE DEF page, p
    <3> QED
      BY <1>1, <1>2, PulledIs
  <2> HIDE DEF g, done
  <2> QED
    BY <2>1 DEF IsPulled, Proper, Orderly, SameButAhead
<1>5. /\ kept \subseteq done.kept /\ done.kept \subseteq DOMAIN texts
      /\ Tales(gs, OnWay, done.kept, texts)
  <2>1. /\ Closed(texts) /\ Orderly(texts, now[h], file[h])
        /\ Tales(file, OnWay, kept, texts) 
        /\ gs \in [Host -> File] /\ gs[h] = done.f /\ \A q \in Host : q # h => gs[q] = file[q]
    BY <1>1, <1>4 DEF Story, Proper
  <2> HIDE DEF page, gs
  <2> QED
    BY <1>1, <1>2, <1>3, <2>1, PageTold
<1> HIDE DEF done, g
<1>6. /\ file' \in [Host -> File] /\ file' = [file EXCEPT ![h] = g] /\ gs \in [Host -> File]
      /\ \A q \in Host : \A k \in Key : file'[q].row[k] = gs[q].row[k] /\ gs[q].hlc <= file'[q].hlc
  <2>1. file' = [file EXCEPT ![h] = g]
    BY <1>1 DEF Saves
  <2>2. \A q \in Host : file[q].hlc <= file[q].hlc
    BY <1>1 DEF File
  <2> QED
    BY <1>1, <1>4, <2>1, <2>2
<1>7. \A k \in Key : \A v \in Version : v \in OnWay'[k] => Known(gs, OnWay[k], k, v)
  <2>1. \A q \in Host : pull'[q] = pull[q] \/ pull'[q].pc # "page"
    <3>1. PICK y : Applies(h, y)
      BY AppliesIs
    <3> QED
      BY <3>1 DEF Applies
  <2>2. \A q \in Host : \A k \in Key : \A v \in Version : InPage(q, k, v)' => InPage(q, k, v)
    BY <2>1 DEF InPage
  <2> QED
    BY <2>2 DEF OnWay, Known
<1>8. ASSUME NEW k \in Key PROVE Tale(file', OnWay'[k], kept', texts', k)
  <2>1. Tale(gs, OnWay[k], done.kept, texts, k)
    BY <1>5 DEF Tales
  <2>2. /\ \A v \in Version : v \in OnWay'[k] => Known(gs, OnWay[k], k, v)
        /\ \A q \in Host : file'[q].row[k] = gs[q].row[k] /\ gs[q].hlc <= file'[q].hlc
    BY <1>6, <1>7
  <2>3. /\ file' \in [Host -> File] /\ gs \in [Host -> File] /\ texts' = texts
        /\ kept' = done.kept /\ done.kept \subseteq DOMAIN texts
    BY <1>1, <1>5, <1>6
  <2> HIDE DEF gs
  <2> QED
    BY <2>1, <2>2, <2>3, TaleGoesOn
<1> QED
  BY <1>1, <1>8 DEF Story, Tales

(* A host's own write: of every row the history goes on. *)
LEMMA WriteTold ==
  ASSUME Inv, Inv', Story, NEW h \in Host, NEW g, WritesTo(h, g), Makes(h, g)
  PROVE  Story'
<1>1. /\ file \in [Host -> File] /\ g \in File /\ Proper(texts', now[h], g) /\ kept \subseteq DOMAIN texts
      /\ file' = [file EXCEPT ![h] = g] /\ pull' = pull /\ kept' = kept
      /\ \A kind \in Kind : left'[kind] <= left[kind] /\ left'[kind] \in Nat
      /\ left["restores"] = 0 /\ left["purges"] = 0
      /\ Closed(texts) /\ Tales(file, OnWay, kept, texts)
  BY DEF Inv, Types, TypeOK, WritesTo, Saves, LocalOnly, Proper, Orderly, Story
<1>2. /\ file' \in [Host -> File] /\ file'[h] = g /\ \A q \in Host : q # h => file'[q] = file[q]
  BY <1>1
<1>3. /\ DOMAIN texts \subseteq DOMAIN texts' /\ \A i \in DOMAIN texts : texts'[i] = texts[i]
      /\ \A i \in DOMAIN texts' : \/ i \in DOMAIN texts
                                  \/ texts'[i].key \in Rows(g) /\ g.row[texts'[i].key].text = i
      /\ Closed(texts')
  BY <1>1 DEF Makes, Adds
<1>4. left'["restores"] = 0 /\ left'["purges"] = 0
  BY <1>1 DEF Kind
<1>5. OnWay' = OnWay
  BY <1>1 DEF OnWay, InPage
<1>6. ASSUME NEW k \in Key PROVE Tale(file', OnWay[k], kept, texts', k)
  <2>1. Tale(file, OnWay[k], kept, texts, k)
    BY <1>1 DEF Tales
  <2>2. Built(h, texts', file[h], g, k)
    BY DEF Makes, Builds
  <2>3. CASE g.row[k] = file[h].row[k]
    <3>1. \A q \in Host : file'[q].row[k] = file[q].row[k] /\ file[q].hlc <= file'[q].hlc
      <4>1. file[h].hlc <= g.hlc
        BY DEF WritesTo, Written, Continues
      <4>2. \A q \in Host : file[q].hlc <= file[q].hlc
        BY <1>1 DEF File
      <4> QED
        BY <1>2, <2>3, <4>1, <4>2
    <3>2. ASSUME NEW i \in DOMAIN texts' PROVE i \in DOMAIN texts \/ texts'[i].key # k
      <4>1. ASSUME k \in Rows(g), g.row[k].text = i PROVE i \in DOMAIN texts
        <5>1. file[h].row[k] \in Version /\ Known(file, OnWay[k], k, file[h].row[k])
          BY <1>1, <2>3, <4>1 DEF Rows, File, Known
        <5> QED
          BY <2>1, <2>3, <4>1, <5>1 DEF Tale
      <4> QED
        BY <1>3, <4>1
    <3>3. /\ \A v \in Version : v \in OnWay[k] => Known(file, OnWay[k], k, v)
          /\ kept \subseteq DOMAIN texts /\ kept \subseteq kept
      BY <1>1 DEF Known
    <3>4. file \in [Host -> File] /\ file' \in [Host -> File]
      BY <1>1, <1>2
    <3>5. DOMAIN texts \subseteq DOMAIN texts' /\ \A i \in DOMAIN texts : texts'[i] = texts[i]
      BY <1>3
    <3> QED
      BY <2>1, <3>1, <3>2, <3>3, <3>4, <3>5, TaleGoesOn
  <2>4. CASE Touched(h, file[h], g, k) /\ Goes(texts', h, file[h].row[k], g.row[k])
    <3>1. k \in Rows(g) /\ g.row[k] \in Version /\ g.row[k].text \in DOMAIN texts'
      BY <1>1, <2>4 DEF Touched, Rows, File, Proper, Orderly, Sound
    <3>2. /\ file'[h].row[k] \in Version /\ file'[h].row[k].text \in DOMAIN texts' /\ file'[h].row[k].at.origin = h
          /\ file[h].hlc < file'[h].row[k].at.clock /\ file'[h].row[k].at.clock <= file'[h].hlc
          /\ Goes(texts', h, file[h].row[k], file'[h].row[k])
      BY <1>2, <2>4, <3>1 DEF Touched
    <3>3. \A i \in DOMAIN texts' : i \in DOMAIN texts \/ texts'[i].key # k \/ i = file'[h].row[k].text
      BY <1>2, <1>3
    <3> QED
      BY <1>1, <1>2, <1>3, <2>1, <3>2, <3>3, TaleOfMaking
  <2> QED
    BY <2>2, <2>3, <2>4 DEF Built
<1> QED
  BY <1>1, <1>3, <1>4, <1>5, <1>6 DEF Story, Tales

(* The files' rows and clocks are as they were, and nothing is on the way but
   rows of files, or what was on the way: the history goes on. *)
LEMMA SameTold ==
  ASSUME Inv, Inv', Story, UNCHANGED <<texts, kept>>, left'["restores"] = 0, left'["purges"] = 0,
         \A q \in Host : file'[q].row = file[q].row /\ file'[q].hlc = file[q].hlc,
         \A q \in Host : \A k \in Key : \A v \in Version :
           InPage(q, k, v)' => InPage(q, k, v) \/ \E p \in Host : file[p].row[k] = v
  PROVE  Story'
<1>1. /\ file \in [Host -> File] /\ file' \in [Host -> File] /\ kept \subseteq DOMAIN texts
      /\ texts' = texts /\ kept' = kept
  BY DEF Inv, Types, TypeOK
<1>2. Closed(texts) /\ Tales(file, OnWay, kept, texts)
  BY DEF Story
<1>3. ASSUME NEW k \in Key PROVE Tale(file', OnWay'[k], kept, texts, k)
  <2>1. Tale(file, OnWay[k], kept, texts, k)
    BY <1>2 DEF Tales
  <2>2. /\ \A v \in Version : v \in OnWay'[k] => Known(file, OnWay[k], k, v)
        /\ kept \subseteq DOMAIN texts /\ kept \subseteq kept
    BY <1>1 DEF OnWay, Known
  <2>5. file \in [Host -> File] /\ file' \in [Host -> File]
    BY <1>1
  <2>3. \A q \in Host : file'[q].row[k] = file[q].row[k] /\ file[q].hlc <= file'[q].hlc
    BY <1>1 DEF File
  <2>4. /\ DOMAIN texts \subseteq DOMAIN texts /\ \A i \in DOMAIN texts : texts[i] = texts[i]
        /\ \A i \in DOMAIN texts : i \in DOMAIN texts \/ texts[i].key # k
    OBVIOUS
  <2> DEFINE gs == file'
             rest == OnWay'[k]
             way == OnWay[k]
  <2>6. /\ gs \in [Host -> File] /\ \A q \in Host : gs[q].row[k] = file[q].row[k] /\ file[q].hlc <= gs[q].hlc
        /\ \A v \in Version : v \in rest => Known(file, way, k, v)
        /\ Tale(file, way, kept, texts, k)
    BY <2>1, <2>2, <2>3, <2>5
  <2>7. ASSUME NEW e, NEW r, NEW w, e = gs, r = rest, w = way PROVE Tale(e, r, kept, texts, k)
    <3>1. /\ e \in [Host -> File] /\ \A q \in Host : e[q].row[k] = file[q].row[k] /\ file[q].hlc <= e[q].hlc
          /\ \A v \in Version : v \in r => Known(file, w, k, v)
          /\ Tale(file, w, kept, texts, k)
      BY <2>6, <2>7
    <3> QED
      BY <2>2, <2>4, <2>5, <3>1, TaleGoesOn
  <2> QED
    BY <2>7
<1> QED
  BY <1>1, <1>2, <1>3 DEF Story, Tales

LEMMA ServeTold ==
  ASSUME Inv, Inv', Story, NEW h \in Host, ServeChanges(h)
  PROVE  Story'
<1> DEFINE p == pull[h].peer
<1>0. left["restores"] = 0 /\ left["purges"] = 0
  BY DEF Story
<1>1. CASE Forgotten(file[p], h, pull[h].cursor)
  <2>1. /\ UNCHANGED <<texts, kept, left>> /\ p \in Host /\ ServedFile(file[p], file'[p])
        /\ \A q \in Host : q # p => file'[q] = file[q]
        /\ \A q \in Host : q # h => pull'[q] = pull[q]
        /\ pull'[h].page.rows = <<>>
    BY <1>1, ForgottenIs
  <2>2. \A q \in Host : file'[q].row = file[q].row /\ file'[q].hlc = file[q].hlc
    BY <2>1 DEF ServedFile
  <2>3. \A q \in Host : \A k \in Key : \A v \in Version : InPage(q, k, v)' => InPage(q, k, v)
    <3>1. \A k \in Key : \A v \in Version : ~InPage(h, k, v)'
      BY <2>1 DEF InPage
    <3> QED
      BY <2>1, <3>1 DEF InPage
  <2> QED
    BY <1>0, <2>1, <2>2, <2>3, SameTold
<1>2. CASE ~Forgotten(file[p], h, pull[h].cursor)
  <2>1. Serves(h)
    BY <1>2, ServesIs
  <2>2. /\ ServedFile(file[p], file'[p]) /\ \A q \in Host : q # p => file'[q] = file[q]
    BY <2>1, ServedFileIs
  <2>3. /\ UNCHANGED <<texts, kept, left>> /\ p \in Host
        /\ \A q \in Host : q # h => pull'[q] = pull[q]
    BY <2>1 DEF Serves
  <2>6. \A i \in 1..Len(pull'[h].page.rows) :
           pull'[h].page.rows[i].v = file[p].row[pull'[h].page.rows[i].key]
    <3> DEFINE page == PageOf(file[p], pull[h].cursor)
    <3>1. pull'[h].page = page
      BY <2>1 DEF Serves
    <3>2. \A i \in 1..Len(page.rows) : page.rows[i].v = file[p].row[page.rows[i].key]
      BY <2>1 DEF Serves
    <3> HIDE DEF page, p
    <3> QED
      BY <3>1, <3>2
  <2>4. \A q \in Host : file'[q].row = file[q].row /\ file'[q].hlc = file[q].hlc
    BY <2>2 DEF ServedFile
  <2>5. ASSUME NEW q \in Host, NEW k \in Key, NEW v \in Version, InPage(q, k, v)'
        PROVE  InPage(q, k, v) \/ \E r \in Host : file[r].row[k] = v
    <3>1. CASE q # h
      BY <2>3, <2>5, <3>1 DEF InPage
    <3>2. CASE q = h
      BY <2>3, <2>5, <2>6, <3>2 DEF InPage
    <3> QED
      BY <3>1, <3>2
  <2> QED
    BY <1>0, <2>3, <2>4, <2>5, SameTold
<1> QED
  BY <1>1, <1>2

LEMMA QuietTold ==
  ASSUME Inv, Inv', Story, Quiet
  PROVE  Story'
<1>1. left'["restores"] = 0 /\ left'["purges"] = 0
  BY DEF Story, Quiet, Kind
<1>2. /\ UNCHANGED <<texts, kept>>
      /\ \A q \in Host : file'[q].row = file[q].row /\ file'[q].hlc = file[q].hlc
  BY DEF Quiet
<1>3. \A q \in Host : \A k \in Key : \A v \in Version : InPage(q, k, v)' => InPage(q, k, v)
  BY DEF Quiet, InPage
<1> QED
  BY <1>1, <1>2, <1>3, SameTold

LEMMA InitStory ==
  ASSUME Init, left["restores"] = 0, left["purges"] = 0
  PROVE  Story
<1>1. /\ \A h \in Host : pull[h].pc = "idle" /\ \A k \in Key : file[h].row[k] = None
      /\ texts = <<>> /\ None \notin Version
  BY SyncAssumption DEF Init, SyncAssumption
<1>2. texts \in Seq(Text) /\ DOMAIN texts = {}
  BY <1>1
<1>3. Closed(texts)
  BY <1>2 DEF Closed
<1>4. \A k \in Key : \A v \in Version : ~Known(file, OnWay[k], k, v)
  BY <1>1 DEF Known, OnWay, InPage
<1>5. Tales(file, OnWay, kept, texts)
  BY <1>2, <1>4 DEF Tales, Tale
<1> QED
  BY <1>3, <1>5 DEF Story

LEMMA NextStory ==
  ASSUME Inv, Inv', Story, [Next]_vars
  PROVE  Story'
<1>0. left["restores"] = 0 /\ left["purges"] = 0
  BY DEF Story
<1>1. CASE UNCHANGED vars
  <2>1. /\ UNCHANGED <<texts, kept, left>> /\ file' = file /\ pull' = pull
    BY <1>1 DEF vars
  <2>2. \A q \in Host : \A k \in Key : \A v \in Version : InPage(q, k, v)' => InPage(q, k, v)
    BY <2>1 DEF InPage
  <2> QED
    BY <1>0, <2>1, <2>2, SameTold
<1>2. CASE TimePasses \/ YearsPass
  BY <1>2, TimeIsQuiet, QuietTold
<1>3. ASSUME NEW h \in Host, Writes(h) PROVE Story'
  <2>1. PICK g : WritesTo(h, g) /\ Makes(h, g)
    BY <1>3, WritesAreWrites
  <2> QED
    BY <2>1, WriteTold
<1>4. ASSUME NEW h \in Host, Pulls(h) PROVE Story'
  <2>1. CASE Hello(h)
    BY <2>1, HelloIs, QuietTold
  <2>2. CASE ServeChanges(h)
    BY <2>2, ServeTold
  <2>3. CASE StartOver(h)
    BY <2>3, StartOverIs, QuietTold
  <2>4. CASE Refuse(h)
    BY <2>4, EndsIs, QuietTold
  <2>5. CASE ApplyPage(h)
    BY <2>5, ApplyTold
  <2> QED
    BY <1>4, <2>1, <2>2, <2>3, <2>4, <2>5 DEF Pulls
<1>5. ASSUME NEW h \in Host, World(h) PROVE Story'
  <2>1. CASE Unreachable(h) \/ Restart(h)
    BY <2>1, EndsIs, QuietTold
  <2>2. CASE Tick(h) \/ Skew(h) \/ Backup(h)
    BY <2>2, TimeIsQuiet, QuietTold
  <2>3. CASE PurgeTombstones(h) \/ Restore(h)
    BY <1>0, <2>3 DEF PurgeTombstones, Restore, Spend
  <2> QED
    BY <1>5, <2>1, <2>2, <2>3 DEF World
<1> QED
  BY <1>1, <1>2, <1>3, <1>4, <1>5 DEF Next

(* The text of every row is told of: it is saved, or some host's own version has it. *)
LEMMA StoryKeepsTexts ==
  ASSUME Inv, Story
  PROVE  NothingLost
<1> SUFFICES ASSUME NEW i \in DOMAIN texts, RowKind[texts[i].key] # "upload"
             PROVE  LET k == texts[i].key
                        rows == {file[h].row[k] : h \in Host} \ {None}
                    IN \E j \in kept \union {v.text : v \in rows} : i = j \/ i \in texts[j].over
  BY DEF NothingLost
<1> DEFINE k == texts[i].key
           rows == {file[h].row[k] : h \in Host} \ {None}
<1>1. k \in Key
  <2>1. texts \in Seq(Text)
    BY DEF Inv, Types
  <2>2. texts[i] \in Text
    BY <2>1
  <2> QED
    BY <2>2 DEF Text
<1>2. Told(file, kept, texts, k, i)
  BY <1>1 DEF Story, Tales, Tale
<1>3. CASE Saved(texts, kept, i)
  BY <1>3 DEF Saved, Over
<1>4. ASSUME NEW q \in Host, Has(file, texts, k, q, i)
      PROVE  \E j \in {v.text : v \in rows} : i = j \/ i \in texts[j].over
  <2>1. file[q].row[k] \in rows /\ Over(texts, file[q].row[k].text, i)
    BY <1>4 DEF Has
  <2> HIDE DEF rows
  <2> QED
    BY <2>1 DEF Over
<1> QED
  BY <1>2, <1>3, <1>4 DEF Told

(* docs/plans/notes-and-capture.md: "Nothing is silently lost". Where no file is
   restored and no tombstone dropped, whatever any number of hosts write, pull,
   lose in transit and in whatever order: the text that an edit wrote is saved
   as a conflict revision, or is in some host's row, or was written over by one
   who saw it (applyRow, keepLoser). *)
THEOREM NothingIsLost ==
  ASSUME \A b \in Budgets : b["restores"] = 0 /\ b["purges"] = 0
  PROVE  Spec => []NothingLost
<1>1. Init => Inv /\ Story
  BY InitInv, InitStory DEF Init
<1>2. Inv /\ Story /\ [Next]_vars => (Inv /\ Story)'
  BY NextInv, NextStory
<1>3. Inv /\ Story => NothingLost
  BY StoryKeepsTexts
<1> QED
  BY <1>1, <1>2, <1>3, PTL DEF Spec
=============================================================================
