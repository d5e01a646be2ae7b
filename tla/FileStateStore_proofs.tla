----------------------- MODULE FileStateStore_proofs -----------------------
(***************************************************************************)
(* The state store keeps its promises for any number of transactions,      *)
(* records, checkpoints and crashes.  First what the contract of           *)
(* recover_log says of the logs that the store writes, then the steps of   *)
(* the store.                                                              *)
(***************************************************************************)
EXTENDS FileStateStore, SequenceTheorems, FiniteSetTheorems, WellFoundedInduction, TLAPS

-----------------------------------------------------------------------------
(***************************************************************************)
(* Sequences of cells.  The payload of a cell is a count, a digest or a    *)
(* set of mutations, so there is no set all cells are in.                  *)
(***************************************************************************)
IsSeq(s) == \E S : s \in Seq(S)

LEMMA SeqLen ==
    ASSUME NEW s, IsSeq(s)
    PROVE  Len(s) \in Nat /\ DOMAIN s = 1..Len(s)
  BY LenProperties DEF IsSeq

LEMMA SameEnd ==
    ASSUME NEW m \in Nat, NEW n \in Nat, 1..m = 1..n
    PROVE  m = n
<1>1. m >= 1 => m \in 1..n
  OBVIOUS
<1>2. n >= 1 => n \in 1..m
  OBVIOUS
<1> QED  BY <1>1, <1>2

LEMMA SeqSame ==
    ASSUME NEW s, NEW t, IsSeq(s), IsSeq(t), Len(s) = Len(t),
           \A i \in 1..Len(s) : s[i] = t[i]
    PROVE  s = t
<1>1. PICK S : s \in Seq(S)
  BY DEF IsSeq
<1>2. PICK T : t \in Seq(T)
  BY DEF IsSeq
<1>3. s \in Seq(S \cup T) /\ t \in Seq(S \cup T)
  BY <1>1, <1>2, SeqMonotonic
<1> QED  BY <1>3, SeqEqual

LEMMA SeqConcat ==
    ASSUME NEW s, NEW t, IsSeq(s), IsSeq(t)
    PROVE  /\ IsSeq(s \o t)
           /\ Len(s \o t) = Len(s) + Len(t)
           /\ \A i \in 1..Len(s) : (s \o t)[i] = s[i]
           /\ \A i \in 1..Len(t) : (s \o t)[Len(s) + i] = t[i]
<1>1. PICK S : s \in Seq(S)
  BY DEF IsSeq
<1>2. PICK T : t \in Seq(T)
  BY DEF IsSeq
<1>3. s \in Seq(S \cup T) /\ t \in Seq(S \cup T)
  BY <1>1, <1>2, SeqMonotonic
<1>4. /\ s \o t \in Seq(S \cup T)
      /\ Len(s \o t) = Len(s) + Len(t)
      /\ \A i \in 1..(Len(s) + Len(t)) :
            (s \o t)[i] = IF i <= Len(s) THEN s[i] ELSE t[i - Len(s)]
  BY <1>3, ConcatProperties
<1>5. Len(s) \in Nat /\ Len(t) \in Nat
  BY SeqLen
<1>6. \A i \in 1..Len(s) : (s \o t)[i] = s[i]
  BY <1>4, <1>5
<1>7. \A i \in 1..Len(t) : (s \o t)[Len(s) + i] = t[i]
  <2> TAKE i \in 1..Len(t)
  <2>1. Len(s) + i \in 1..(Len(s) + Len(t)) /\ ~(Len(s) + i <= Len(s)) /\ (Len(s) + i) - Len(s) = i
    BY <1>5
  <2> QED  BY <2>1, <1>4
<1> QED  BY <1>4, <1>6, <1>7 DEF IsSeq

LEMMA SeqAppend ==
    ASSUME NEW s, NEW e, IsSeq(s)
    PROVE  /\ IsSeq(Append(s, e))
           /\ Len(Append(s, e)) = Len(s) + 1
           /\ \A i \in 1..Len(s) : Append(s, e)[i] = s[i]
           /\ Append(s, e)[Len(s) + 1] = e
<1>1. PICK S : s \in Seq(S)
  BY DEF IsSeq
<1>2. s \in Seq(S \cup {e}) /\ e \in S \cup {e}
  BY <1>1, SeqMonotonic
<1> QED  BY <1>2, AppendProperties DEF IsSeq

LEMMA SeqPart ==
    ASSUME NEW s, NEW m \in Nat, NEW n \in Nat
    PROVE  /\ IsSeq(SubSeq(s, m, n))
           /\ Len(SubSeq(s, m, n)) = IF m <= n THEN n - m + 1 ELSE 0
           /\ \A i \in 1..(n - m + 1) : SubSeq(s, m, n)[i] = s[m + i - 1]
<1>1. PICK S : S = {s[i] : i \in m..n}
  OBVIOUS
<1>2. m \in Int /\ n \in Int /\ \A i \in m..n : s[i] \in S
  BY <1>1
<1>3. /\ SubSeq(s, m, n) \in Seq(S)
      /\ Len(SubSeq(s, m, n)) = IF m <= n THEN n - m + 1 ELSE 0
      /\ \A i \in 1..(n - m + 1) : SubSeq(s, m, n)[i] = s[m + i - 1]
  BY <1>2, SubSeqProperties
<1> QED  BY <1>3 DEF IsSeq

LEMMA PrefixIs ==
    ASSUME NEW s, NEW n \in Nat
    PROVE  /\ IsSeq(SubSeq(s, 1, n)) /\ Len(SubSeq(s, 1, n)) = n
           /\ \A i \in 1..n : SubSeq(s, 1, n)[i] = s[i]
<1>0. 1 \in Nat
  OBVIOUS
<1>1. /\ IsSeq(SubSeq(s, 1, n))
      /\ Len(SubSeq(s, 1, n)) = IF 1 <= n THEN n - 1 + 1 ELSE 0
      /\ \A i \in 1..(n - 1 + 1) : SubSeq(s, 1, n)[i] = s[1 + i - 1]
  BY <1>0, SeqPart, Zenon
<1>2. n - 1 + 1 = n /\ \A i \in 1..n : 1 + i - 1 = i
  OBVIOUS
<1> QED  BY <1>1, <1>2

LEMMA SeqShort ==
    /\ IsSeq(<<>>) /\ Len(<<>>) = 0
    /\ \A e : IsSeq(<<e>>) /\ Len(<<e>>) = 1 /\ <<e>>[1] = e
    /\ \A s : IsSeq(s) /\ Len(s) = 0 => s = <<>>
<1>1. IsSeq(<<>>) /\ Len(<<>>) = 0
  BY EmptySeq DEF IsSeq
<1>2. \A e : IsSeq(<<e>>) /\ Len(<<e>>) = 1 /\ <<e>>[1] = e
  <2> TAKE e
  <2>1. <<e>> \in Seq({e}) /\ Len(<<e>>) = 1 /\ <<e>>[1] = e
    OBVIOUS
  <2> QED  BY <2>1 DEF IsSeq
<1>3. \A s : IsSeq(s) /\ Len(s) = 0 => s = <<>>
  BY <1>1, SeqSame, SeqLen
<1> QED  BY <1>1, <1>2, <1>3

-----------------------------------------------------------------------------
(***************************************************************************)
(* A transaction, cell by cell.                                            *)
(***************************************************************************)
Stamp(c, txn) == [c EXCEPT !.txn_id = txn]
StampedCells(txn, recs) == [k \in 1..Len(recs) |-> Stamp(recs[k], txn)]
OpenPart(base, txn, recs) == base \o <<BeginCell(txn, Len(recs))>> \o StampedCells(txn, recs)

LEMMA StampedIs ==
    ASSUME NEW txn, NEW recs, IsSeq(recs)
    PROVE  /\ IsSeq(StampedCells(txn, recs)) /\ Len(StampedCells(txn, recs)) = Len(recs)
           /\ \A k \in 1..Len(recs) :
                 StampedCells(txn, recs)[k] = Stamp(recs[k], txn)
<1> DEFINE S == {Stamp(recs[k], txn) : k \in 1..Len(recs)}
<1>1. Len(recs) \in Nat
  BY SeqLen
<1>2. StampedCells(txn, recs) \in [1..Len(recs) -> S]
  BY DEF StampedCells
<1>3. StampedCells(txn, recs) \in Seq(S) /\ Len(StampedCells(txn, recs)) = Len(recs)
  BY <1>1, <1>2, SeqDef, LenProperties DEF StampedCells
<1> QED  BY <1>3 DEF StampedCells, IsSeq

LEMMA OpenPartIs ==
    ASSUME NEW base, NEW txn, NEW recs, IsSeq(base), IsSeq(recs)
    PROVE  LET o == OpenPart(base, txn, recs)
           IN  /\ IsSeq(o)
               /\ Len(o) = Len(base) + Len(recs) + 1
               /\ \A i \in 1..Len(base) : o[i] = base[i]
               /\ o[Len(base) + 1] = BeginCell(txn, Len(recs))
               /\ \A k \in 1..Len(recs) :
                     o[Len(base) + 1 + k] = Stamp(recs[k], txn)
<1> DEFINE b == BeginCell(txn, Len(recs))
           st == StampedCells(txn, recs)
           front == base \o <<b>>
<1>1. Len(base) \in Nat /\ Len(recs) \in Nat
  BY SeqLen
<1>2. /\ IsSeq(st) /\ Len(st) = Len(recs)
      /\ \A k \in 1..Len(recs) : st[k] = Stamp(recs[k], txn)
  BY StampedIs
<1>3. IsSeq(<<b>>) /\ Len(<<b>>) = 1 /\ <<b>>[1] = b
  BY SeqShort
<1>4. /\ IsSeq(front) /\ Len(front) = Len(base) + 1
      /\ \A i \in 1..Len(base) : front[i] = base[i]
      /\ \A i \in 1..1 : front[Len(base) + i] = <<b>>[i]
  BY <1>3, SeqConcat
<1>5. front[Len(base) + 1] = b
  BY <1>3, <1>4
<1> HIDE DEF b, st, front
<1>6. /\ IsSeq(front \o st) /\ Len(front \o st) = Len(front) + Len(st)
      /\ \A i \in 1..Len(front) : (front \o st)[i] = front[i]
      /\ \A i \in 1..Len(st) : (front \o st)[Len(front) + i] = st[i]
  BY <1>2, <1>4, SeqConcat
<1>7. OpenPart(base, txn, recs) = front \o st
  BY DEF OpenPart, front, b, st
<1>8. /\ \A i \in 1..Len(base) : (front \o st)[i] = base[i]
      /\ (front \o st)[Len(base) + 1] = b
      /\ \A k \in 1..Len(recs) : (front \o st)[Len(base) + 1 + k] = st[k]
  BY <1>1, <1>2, <1>4, <1>5, <1>6
<1> QED  BY <1>1, <1>2, <1>4, <1>6, <1>7, <1>8 DEF b

LEMMA TransactionIs ==
    ASSUME NEW base, NEW txn, NEW seq, NEW recs, IsSeq(base), IsSeq(recs)
    PROVE  LET T == Transaction(base, txn, seq, recs)
           IN  /\ IsSeq(T)
               /\ Len(T) = Len(base) + Len(recs) + 2
               /\ \A i \in 1..Len(base) : T[i] = base[i]
               /\ T[Len(base) + 1] = BeginCell(txn, Len(recs))
               /\ \A k \in 1..Len(recs) :
                     T[Len(base) + 1 + k] = Stamp(recs[k], txn)
               /\ T[Len(base) + Len(recs) + 2] = CommitCell(txn, seq, OpenPart(base, txn, recs))
               /\ SubSeq(T, 1, Len(base) + Len(recs) + 1) = OpenPart(base, txn, recs)
<1> DEFINE o == OpenPart(base, txn, recs)
           T == Transaction(base, txn, seq, recs)
<1>1. Len(base) \in Nat /\ Len(recs) \in Nat
  BY SeqLen
<1>2. T = Append(o, CommitCell(txn, seq, o))
  BY DEF Transaction, OpenPart, StampedCells, Stamp
<1>3. /\ IsSeq(o) /\ Len(o) = Len(base) + Len(recs) + 1
      /\ \A i \in 1..Len(base) : o[i] = base[i]
      /\ o[Len(base) + 1] = BeginCell(txn, Len(recs))
      /\ \A k \in 1..Len(recs) : o[Len(base) + 1 + k] = Stamp(recs[k], txn)
  BY OpenPartIs
<1> HIDE DEF o, T
<1>4. /\ IsSeq(T) /\ Len(T) = Len(o) + 1
      /\ \A i \in 1..Len(o) : T[i] = o[i]
      /\ T[Len(o) + 1] = CommitCell(txn, seq, o)
  BY <1>2, <1>3, SeqAppend
<1>5. SubSeq(T, 1, Len(o)) = o
  <2>1. /\ IsSeq(SubSeq(T, 1, Len(o))) /\ Len(SubSeq(T, 1, Len(o))) = Len(o)
        /\ \A i \in 1..Len(o) : SubSeq(T, 1, Len(o))[i] = T[i]
    BY <1>1, <1>3, PrefixIs
  <2>2. \A i \in 1..Len(SubSeq(T, 1, Len(o))) : SubSeq(T, 1, Len(o))[i] = o[i]
    BY <2>1, <1>4, Zenon
  <2> QED  BY <2>1, <2>2, <1>3, SeqSame, Zenon
<1>6. /\ \A i \in 1..Len(base) : T[i] = base[i]
      /\ T[Len(base) + 1] = BeginCell(txn, Len(recs))
      /\ \A k \in 1..Len(recs) : T[Len(base) + 1 + k] = Stamp(recs[k], txn)
  <2>1. /\ \A i \in 1..Len(base) : i \in 1..Len(o)
        /\ Len(base) + 1 \in 1..Len(o)
        /\ \A k \in 1..Len(recs) : Len(base) + 1 + k \in 1..Len(o)
    BY <1>1, <1>3
  <2> QED  BY <2>1, <1>3, <1>4, Zenon
<1>7. Len(T) = Len(base) + Len(recs) + 2 /\ Len(o) + 1 = Len(base) + Len(recs) + 2
  BY <1>1, <1>3, <1>4
<1> QED  BY <1>3, <1>4, <1>5, <1>6, <1>7 DEF o, T

-----------------------------------------------------------------------------
(***************************************************************************)
(* The elements of a finite set of numbers in increasing order.            *)
(***************************************************************************)

\* A non-empty set of natural numbers has a least element.
LEMMA LeastNumber ==
    ASSUME NEW T, T \subseteq Nat, T # {}
    PROVE  \E n \in T : \A m \in T : n <= m
<1>1. IsWellFoundedOn(OpToRel(<, Nat), Nat)
  BY NatLessThanWellFounded
<1>2. PICK n \in T : \A m \in T : ~(<<m, n>> \in OpToRel(<, Nat))
  BY <1>1, WFMin
<1>3. \A m \in T : ~(m < n)
  BY <1>2 DEF OpToRel
<1> QED  BY <1>3

\* A non-empty bounded set of natural numbers has a greatest element.
LEMMA GreatestNumber ==
    ASSUME NEW T, T \subseteq Nat, T # {}, NEW n \in Nat, \A m \in T : m <= n
    PROVE  \E g \in T : \A m \in T : m <= g
<1> DEFINE U == {k \in Nat : \A m \in T : m <= k}
<1>1. PICK g \in U : \A k \in U : g <= k
  <2>1. n \in U /\ U \subseteq Nat
    OBVIOUS
  <2> QED  BY <2>1, LeastNumber
<1>2. g \in T
  <2> SUFFICES ASSUME g \notin T PROVE FALSE
    OBVIOUS
  <2>1. \A m \in T : m <= g - 1 /\ g - 1 \in Nat
    BY <1>1
  <2>2. g - 1 \in U
    BY <2>1
  <2> QED  BY <2>2, <1>1
<1> QED  BY <1>1, <1>2

\* How many elements of P are not above n.
UpTo(P, n) == {q \in P : q <= n}
Rank(P, n) == Cardinality(UpTo(P, n))

LEMMA RankStep ==
    ASSUME NEW P, P \subseteq Nat, IsFiniteSet(P), NEW n \in Nat
    PROVE  /\ Rank(P, n) \in Nat
           /\ Rank(P, n + 1) = IF n + 1 \in P THEN Rank(P, n) + 1 ELSE Rank(P, n)
<1>1. IsFiniteSet(UpTo(P, n)) /\ Cardinality(UpTo(P, n)) \in Nat
  BY FS_Subset, FS_CardinalityType DEF UpTo
<1>a. \A q \in P : q \in Nat /\ (q <= n + 1 <=> q <= n \/ q = n + 1)
  OBVIOUS
<1>2. CASE n + 1 \in P
  <2>1. UpTo(P, n + 1) = UpTo(P, n) \cup {n + 1}
    BY <1>2, <1>a, Zenon DEF UpTo
  <2>2. n + 1 \notin UpTo(P, n)
    <3>1. ~(n + 1 <= n)
      OBVIOUS
    <3> QED  BY <3>1, Zenon DEF UpTo
  <2> QED  BY <1>1, <1>2, <2>1, <2>2, FS_AddElement DEF Rank
<1>3. CASE n + 1 \notin P
  <2>1. UpTo(P, n + 1) = UpTo(P, n)
    BY <1>3, <1>a, Zenon DEF UpTo
  <2> QED  BY <1>1, <1>3, <2>1 DEF Rank
<1> QED  BY <1>2, <1>3

\* Ranks rise with the elements.
LEMMA RankRises ==
    ASSUME NEW P, P \subseteq Nat, IsFiniteSet(P), NEW p \in P, NEW q \in P, p < q
    PROVE  Rank(P, p) < Rank(P, q)
<1>a. /\ \A r \in P : r <= p => r <= q
      /\ q <= q /\ ~(q <= p)
  OBVIOUS
<1>1. UpTo(P, p) \subseteq UpTo(P, q) /\ q \in UpTo(P, q) /\ q \notin UpTo(P, p)
  BY <1>a, Zenon DEF UpTo
<1>2. IsFiniteSet(UpTo(P, q)) /\ Rank(P, q) \in Nat /\ Rank(P, p) \in Nat
  BY FS_Subset, FS_CardinalityType DEF UpTo, Rank
<1> QED  BY <1>1, <1>2, FS_Subset DEF Rank

\* Nth numbers the elements of P from 1 on, in increasing order.
LEMMA NthIs ==
    ASSUME NEW P, NEW n \in Nat, P \subseteq 1..n
    PROVE  /\ IsFiniteSet(P) /\ Cardinality(P) \in Nat
           /\ \A k \in 1..Cardinality(P) : Nth(P, k) \in P /\ Rank(P, Nth(P, k)) = k
           /\ \A p \in P : Rank(P, p) \in 1..Cardinality(P) /\ Nth(P, Rank(P, p)) = p
           /\ \A j, k \in 1..Cardinality(P) : j < k => Nth(P, j) < Nth(P, k)
<1>1. IsFiniteSet(P) /\ Cardinality(P) \in Nat /\ P \subseteq Nat
  BY FS_BoundedSetOfNaturals, FS_CardinalityType
<1>2. ASSUME NEW k \in 1..Cardinality(P)
      PROVE  Nth(P, k) \in P /\ Rank(P, Nth(P, k)) = k
  <2> DEFINE T == {m \in Nat : Rank(P, m) >= k}
  <2>1. n \in T
    <3>1. \A q \in P : q <= n
      OBVIOUS
    <3>2. UpTo(P, n) = P
      BY <3>1, Zenon DEF UpTo
    <3> QED  BY <3>2, <1>1 DEF Rank
  <2>2. PICK m \in T : \A j \in T : m <= j
    BY <2>1, LeastNumber
  <2>3. m # 0
    <3>0. \A q \in P : ~(q <= 0)
      OBVIOUS
    <3>1. UpTo(P, 0) = {}
      BY <3>0, Zenon DEF UpTo
    <3>2. Rank(P, 0) = 0
      BY <3>1, FS_EmptySet DEF Rank
    <3> QED  BY <3>2
  <2>4. m - 1 \in Nat /\ Rank(P, m - 1) \in Nat
    <3>1. m - 1 \in Nat
      BY <2>3
    <3> QED  BY <3>1, <1>1, RankStep, Zenon
  <2>5. ~(Rank(P, m - 1) >= k)
    BY <2>2, <2>4
  <2>6. Rank(P, m) = IF m \in P THEN Rank(P, m - 1) + 1 ELSE Rank(P, m - 1)
    <3>1. (m - 1) + 1 = m
      BY <2>2
    <3>2. Rank(P, (m - 1) + 1) = IF (m - 1) + 1 \in P THEN Rank(P, m - 1) + 1 ELSE Rank(P, m - 1)
      BY <2>4, <1>1, RankStep, Zenon
    <3> QED  BY <3>1, <3>2
  <2>7. m \in P /\ Rank(P, m) = k
    BY <2>2, <2>4, <2>5, <2>6
  <2>8. \E p \in P : Cardinality({q \in P : q <= p}) = k
    BY <2>7 DEF Rank, UpTo
  <2> QED  BY <2>8 DEF Nth, Rank, UpTo
<1>3. \A p, q \in P : Rank(P, p) = Rank(P, q) => p = q
  <2> SUFFICES ASSUME NEW p \in P, NEW q \in P, Rank(P, p) = Rank(P, q), p # q PROVE FALSE
    OBVIOUS
  <2>1. p < q \/ q < p
    BY <1>1
  <2>2. Rank(P, p) \in Nat
    BY <1>1, RankStep
  <2>3. Rank(P, p) < Rank(P, q) \/ Rank(P, q) < Rank(P, p)
    BY <2>1, <1>1, RankRises, Zenon
  <2> QED  BY <2>2, <2>3
<1>4. ASSUME NEW p \in P
      PROVE  Rank(P, p) \in 1..Cardinality(P) /\ Nth(P, Rank(P, p)) = p
  <2>1. UpTo(P, p) \subseteq P /\ p \in UpTo(P, p)
    BY <1>1 DEF UpTo
  <2>2. IsFiniteSet(UpTo(P, p)) /\ Rank(P, p) \in Nat /\ Rank(P, p) <= Cardinality(P)
    BY <2>1, <1>1, FS_Subset, FS_CardinalityType DEF Rank
  <2>3. Rank(P, p) # 0
    BY <2>1, <2>2, FS_EmptySet DEF Rank
  <2>4. Rank(P, p) \in 1..Cardinality(P)
    BY <2>2, <2>3, <1>1
  <2>5. Nth(P, Rank(P, p)) \in P /\ Rank(P, Nth(P, Rank(P, p))) = Rank(P, p)
    BY <2>4, <1>2
  <2> QED  BY <2>4, <2>5, <1>3
<1>5. ASSUME NEW j \in 1..Cardinality(P), NEW k \in 1..Cardinality(P), j < k
      PROVE  Nth(P, j) < Nth(P, k)
  <2> DEFINE a == Nth(P, j)
             b == Nth(P, k)
  <2>1. a \in P /\ b \in P /\ Rank(P, a) = j /\ Rank(P, b) = k /\ a \in Nat /\ b \in Nat
    BY <1>1, <1>2
  <2>2. a < b \/ a = b \/ b < a
    BY <2>1
  <2> HIDE DEF a, b
  <2>3. b < a => Rank(P, b) < Rank(P, a)
    BY <2>1, <1>1, RankRises, Zenon
  <2>4. ~(b < a) /\ a # b
    <3>1. j \in Nat /\ k \in Nat /\ j # k /\ ~(k < j)
      BY <1>1, <1>5
    <3> QED  BY <2>1, <2>3, <3>1, Zenon
  <2>5. a < b
    BY <2>2, <2>4
  <2> QED  BY <2>5 DEF a, b
<1> QED  BY <1>1, <1>2, <1>4, <1>5

-----------------------------------------------------------------------------
(***************************************************************************)
(* The contract of recover_log, position by position.                      *)
(***************************************************************************)

\* A record of mutations: neither a control record nor one that is torn.
Mutates(c) == c.type \in {"graph_delta", "checkpoint"}

LEMMA MutatesIsData ==
    ASSUME NEW c, Mutates(c)
    PROVE  IsData(c) /\ ~IsBegin(c) /\ ~IsCommit(c) /\ ~IsTorn(c)
  BY DEF Mutates, IsData, IsBegin, IsCommit, IsTorn

\* What the contract says of position i depends on the log up to i.
LEMMA SamePrefix ==
    ASSUME NEW l, NEW m, NEW n \in Nat, \A k \in 1..n : l[k] = m[k], NEW i \in 1..n
    PROVE  /\ \A b \in Nat : Closes(l, b, i) <=> Closes(m, b, i)
           /\ Stops(l, i) <=> Stops(m, i)
           /\ Reached(l, i) <=> Reached(m, i)
           /\ \A b \in 1..(i - 1) : Intact(l, b, i) <=> Intact(m, b, i)
           /\ \A b \in Nat : Commits(l, b, i) <=> Commits(m, b, i)
<1>1. ASSUME NEW j \in 1..n, NEW b \in Nat
      PROVE  Closes(l, b, j) <=> Closes(m, b, j)
  BY DEF Closes, CommitOf, OpenAt, IsBegin, IsCommit
<1>2. ASSUME NEW j \in 1..n
      PROVE  Stops(l, j) <=> Stops(m, j)
  BY <1>1 DEF Stops
<1>3. Reached(l, i) <=> Reached(m, i)
  BY <1>2 DEF Reached
<1>4. SubSeq(l, 1, i - 1) = SubSeq(m, 1, i - 1)
  <2> DEFINE j == i - 1
  <2>1. j \in Nat /\ \A k \in 1..j : k \in 1..n
    OBVIOUS
  <2> HIDE DEF j
  <2>2. /\ IsSeq(SubSeq(l, 1, j)) /\ Len(SubSeq(l, 1, j)) = j
        /\ \A k \in 1..j : SubSeq(l, 1, j)[k] = l[k]
    BY <2>1, PrefixIs, Zenon
  <2>3. /\ IsSeq(SubSeq(m, 1, j)) /\ Len(SubSeq(m, 1, j)) = j
        /\ \A k \in 1..j : SubSeq(m, 1, j)[k] = m[k]
    BY <2>1, PrefixIs, Zenon
  <2>4. \A k \in 1..Len(SubSeq(l, 1, j)) : SubSeq(l, 1, j)[k] = SubSeq(m, 1, j)[k]
    BY <2>1, <2>2, <2>3, Zenon
  <2> QED  BY <2>2, <2>3, <2>4, SeqSame, Zenon DEF j
<1>5. ASSUME NEW b \in 1..(i - 1)
      PROVE  Intact(l, b, i) <=> Intact(m, b, i)
  <2>1. b \in 1..n /\ l[b] = m[b] /\ l[i] = m[i]
    OBVIOUS
  <2> QED  BY <2>1, <1>4, Zenon DEF Intact
<1>6. ASSUME NEW b \in Nat
      PROVE  Commits(l, b, i) <=> Commits(m, b, i)
  <2>1. (Closes(l, b, i) => b \in 1..(i - 1)) /\ (Closes(m, b, i) => b \in 1..(i - 1))
    BY DEF Closes, OpenAt
  <2>2. Closes(l, b, i) <=> Closes(m, b, i)
    BY <1>1
  <2>3. Stops(l, i) <=> Stops(m, i)
    BY <1>2
  <2> QED  BY <2>1, <2>2, <2>3, <1>3, <1>5, Zenon DEF Commits
<1> QED  BY <1>1, <1>2, <1>3, <1>5, <1>6

LEMMA CommitsBounds ==
    ASSUME NEW l, NEW b \in Nat, NEW i \in Nat, Closes(l, b, i)
    PROVE  /\ b \in 1..(i - 1) /\ IsBegin(l[b]) /\ IsCommit(l[i]) /\ l[i].txn_id = l[b].txn_id
           /\ \A k \in (b + 1)..(i - 1) : ~IsBegin(l[k])
  BY DEF Closes, OpenAt, CommitOf

LEMMA CommittedPair ==
    ASSUME NEW l
    PROVE  /\ \A b, i \in 1..Len(l) : <<b, i>> \in Committed(l) <=> Commits(l, b, i)
           /\ \A t \in Committed(l) : /\ t[1] \in 1..Len(l) /\ t[2] \in 1..Len(l)
                                      /\ t = <<t[1], t[2]>> /\ Commits(l, t[1], t[2])
  BY DEF Committed

LEMMA PositionsAre ==
    ASSUME NEW l, IsSeq(l)
    PROVE  /\ CommittedPositions(l) \subseteq 1..Len(l)
           /\ \A p : p \in CommittedPositions(l) <=>
                        \E b, i \in 1..Len(l) : Commits(l, b, i) /\ p \in (b + 1)..(i - 1)
<1>1. Len(l) \in Nat
  BY SeqLen
<1>2. ASSUME NEW p
      PROVE  p \in CommittedPositions(l) <=>
                \E b, i \in 1..Len(l) : Commits(l, b, i) /\ p \in (b + 1)..(i - 1)
  <2>1. ASSUME p \in CommittedPositions(l)
        PROVE  \E b, i \in 1..Len(l) : Commits(l, b, i) /\ p \in (b + 1)..(i - 1)
    <3>1. PICK t \in Committed(l) : p \in (t[1] + 1)..(t[2] - 1)
      BY <2>1 DEF CommittedPositions
    <3> QED  BY <3>1, CommittedPair
  <2>2. ASSUME NEW b \in 1..Len(l), NEW i \in 1..Len(l), Commits(l, b, i), p \in (b + 1)..(i - 1)
        PROVE  p \in CommittedPositions(l)
    <3>1. <<b, i>> \in Committed(l)
      BY <2>2, CommittedPair
    <3> QED  BY <3>1, <2>2 DEF CommittedPositions
  <2> QED  BY <2>1, <2>2
<1>3. CommittedPositions(l) \subseteq 1..Len(l)
  BY <1>1, <1>2
<1> QED  BY <1>2, <1>3

\* The committed records are those of the committed positions, in their order.
LEMMA RecordsAre ==
    ASSUME NEW l, IsSeq(l)
    PROVE  LET P == CommittedPositions(l)
               R == CommittedRecords(l)
           IN  /\ IsSeq(R) /\ Len(R) = Cardinality(P) /\ Len(R) \in Nat
               /\ \A k \in 1..Len(R) : Nth(P, k) \in P /\ R[k] = l[Nth(P, k)]
               /\ \A p \in P : \E k \in 1..Len(R) : R[k] = l[p]
               /\ R = <<>> <=> P = {}
<1> DEFINE P == CommittedPositions(l)
           R == CommittedRecords(l)
<1>1. Len(l) \in Nat /\ P \subseteq 1..Len(l)
  BY SeqLen, PositionsAre
<1>2. /\ IsFiniteSet(P) /\ Cardinality(P) \in Nat
      /\ \A k \in 1..Cardinality(P) : Nth(P, k) \in P
      /\ \A p \in P : Rank(P, p) \in 1..Cardinality(P) /\ Nth(P, Rank(P, p)) = p
  BY <1>1, NthIs
<1>3. R = [k \in 1..Cardinality(P) |-> l[Nth(P, k)]]
  BY DEF CommittedRecords
<1> HIDE DEF P, R
<1>4. IsSeq(R) /\ Len(R) = Cardinality(P)
  <2>1. PICK S : S = {l[Nth(P, k)] : k \in 1..Cardinality(P)}
    OBVIOUS
  <2>2. R \in [1..Cardinality(P) -> S]
    BY <1>3, <2>1
  <2>3. R \in Seq(S)
    BY <1>2, <2>2, SeqDef
  <2>4. DOMAIN R = 1..Len(R) /\ Len(R) \in Nat /\ DOMAIN R = 1..Cardinality(P)
    BY <2>2, <2>3, LenProperties
  <2>5. Len(R) = Cardinality(P)
    BY <2>4, <1>2
  <2> QED  BY <2>3, <2>5 DEF IsSeq
<1>5. \A k \in 1..Len(R) : Nth(P, k) \in P /\ R[k] = l[Nth(P, k)]
  BY <1>2, <1>3, <1>4
<1>6. \A p \in P : \E k \in 1..Len(R) : R[k] = l[p]
  BY <1>2, <1>4, <1>5
<1>7. R = <<>> <=> P = {}
  <2>1. R = <<>> <=> Len(R) = 0
    BY <1>4, SeqShort
  <2> QED  BY <2>1, <1>2, <1>4, FS_EmptySet
<1> QED  BY <1>2, <1>4, <1>5, <1>6, <1>7 DEF P, R

\* LastSequence is that of the last commit record.
LEMMA LastIs ==
    ASSUME NEW l, IsSeq(l), Committed(l) # {}
    PROVE  \E t \in Committed(l) : /\ \A u \in Committed(l) : u[2] <= t[2]
                                   /\ LastSequence(l) = l[t[2]].new_sequence
<1> DEFINE T == {t[2] : t \in Committed(l)}
<1>1. Len(l) \in Nat /\ T \subseteq Nat /\ T # {} /\ \A m \in T : m <= Len(l)
  BY SeqLen, CommittedPair
<1>2. PICK g \in T : \A m \in T : m <= g
  BY <1>1, GreatestNumber
<1>3. \E t \in Committed(l) : \A u \in Committed(l) : u[2] <= t[2]
  BY <1>2
<1> QED  BY <1>3 DEF LastSequence

-----------------------------------------------------------------------------
(***************************************************************************)
(* A log with a transaction, or a part of one, appended to it.             *)
(***************************************************************************)
Fields == {"type", "txn_id", "new_sequence", "payload"}
DataRecords(recs) ==
    IsSeq(recs) /\ \A k \in 1..Len(recs) : DOMAIN recs[k] = Fields /\ Mutates(recs[k])

LEMMA StampIs ==
    ASSUME NEW c, NEW txn, DOMAIN c = Fields
    PROVE  LET e == Stamp(c, txn)
           IN  /\ DOMAIN e = Fields /\ e.type = c.type /\ e.txn_id = txn
               /\ e.new_sequence = c.new_sequence /\ e.payload = c.payload
               /\ Mutates(c) => Mutates(e)
<1> DEFINE e == Stamp(c, txn)
<1>1. /\ DOMAIN e = Fields /\ e.type = c.type /\ e.txn_id = txn
      /\ e.new_sequence = c.new_sequence /\ e.payload = c.payload
  BY DEF Fields, Stamp
<1> QED  BY <1>1 DEF Mutates

\* What append_file writes: the transaction without the log in front of it.
TailOf(base, txn, seq, recs) ==
    LET all == Transaction(base, txn, seq, recs) IN SubSeq(all, Len(base) + 1, Len(all))

LEMMA TailIs ==
    ASSUME NEW base, NEW txn, NEW seq, NEW recs, IsSeq(base), IsSeq(recs)
    PROVE  LET T == TailOf(base, txn, seq, recs)
           IN  /\ IsSeq(T) /\ Len(T) = Len(recs) + 2
               /\ T[1] = BeginCell(txn, Len(recs))
               /\ \A k \in 1..Len(recs) : T[1 + k] = Stamp(recs[k], txn)
               /\ T[Len(recs) + 2] = CommitCell(txn, seq, OpenPart(base, txn, recs))
<1> DEFINE all == Transaction(base, txn, seq, recs)
           T == TailOf(base, txn, seq, recs)
           n == Len(base)
           r == Len(recs)
<1>1. n \in Nat /\ r \in Nat
  BY SeqLen
<1>2. /\ Len(all) = n + r + 2
      /\ all[n + 1] = BeginCell(txn, r)
      /\ \A k \in 1..r : all[n + 1 + k] = Stamp(recs[k], txn)
      /\ all[n + r + 2] = CommitCell(txn, seq, OpenPart(base, txn, recs))
  BY TransactionIs
<1>3. T = SubSeq(all, n + 1, Len(all))
  BY DEF TailOf
<1> HIDE DEF all, T, n, r
<1>4. n + 1 \in Nat /\ Len(all) \in Nat
  BY <1>1, <1>2
<1>5. /\ IsSeq(T)
      /\ Len(T) = IF n + 1 <= Len(all) THEN Len(all) - (n + 1) + 1 ELSE 0
      /\ \A i \in 1..(Len(all) - (n + 1) + 1) : T[i] = all[(n + 1) + i - 1]
  BY <1>3, <1>4, SeqPart
<1>6. Len(T) = r + 2 /\ \A i \in 1..(r + 2) : T[i] = all[n + i]
  <2>1. Len(all) - (n + 1) + 1 = r + 2 /\ n + 1 <= Len(all)
    BY <1>1, <1>2
  <2>2. \A i \in 1..(r + 2) : (n + 1) + i - 1 = n + i
    BY <1>1
  <2> QED  BY <1>5, <2>1, <2>2
<1>7. T[1] = all[n + 1] /\ T[r + 2] = all[n + r + 2] /\ \A k \in 1..r : T[1 + k] = all[n + 1 + k]
  <2>1. 1 \in 1..(r + 2) /\ r + 2 \in 1..(r + 2) /\ n + (r + 2) = n + r + 2
    BY <1>1
  <2>2. \A k \in 1..r : 1 + k \in 1..(r + 2) /\ n + (1 + k) = n + 1 + k
    BY <1>1
  <2> QED  BY <2>1, <2>2, <1>6
<1> QED  BY <1>2, <1>5, <1>6, <1>7, Zenon DEF all, T, n, r

\* m is s followed by t.
Joined(m, s, t) == m = s \o t

\* m is the log l with the beginning of a transaction behind it.
Tacked(m, l) ==
    /\ IsSeq(m) /\ IsSeq(l) /\ Len(l) <= Len(m)
    /\ \A i \in 1..Len(l) : m[i] = l[i]
    /\ Len(l) < Len(m) => \/ IsBegin(m[Len(l) + 1])
                          \/ Len(m) = Len(l) + 1 /\ IsTorn(m[Len(m)])
    /\ \A k \in (Len(l) + 2)..(Len(m) - 1) : Mutates(m[k])

\* The only transaction that may end in what was appended is the one appended.
LEMMA TackedCloses ==
    ASSUME NEW l, NEW m, Tacked(m, l), NEW b \in Nat, NEW i \in (Len(l) + 1)..Len(m),
           Closes(m, b, i)
    PROVE  b = Len(l) + 1 /\ i = Len(m) /\ IsCommit(m[Len(m)]) /\ IsBegin(m[b])
<1>1. Len(l) \in Nat /\ Len(m) \in Nat
  BY SeqLen DEF Tacked
<1>2. /\ b \in 1..(i - 1) /\ IsBegin(m[b]) /\ IsCommit(m[i])
      /\ \A k \in (b + 1)..(i - 1) : ~IsBegin(m[k])
  <2>1. i \in Nat
    BY <1>1
  <2> QED  BY <2>1, CommitsBounds
<1>3. \A c : ~(IsBegin(c) /\ IsCommit(c)) /\ ~(IsTorn(c) /\ IsCommit(c))
  BY DEF IsBegin, IsCommit, IsTorn
<1>4. \A k \in (Len(l) + 2)..(Len(m) - 1) : ~IsBegin(m[k]) /\ ~IsCommit(m[k])
  BY MutatesIsData DEF Tacked
<1>5. i # Len(l) + 1
  BY <1>1, <1>2, <1>3 DEF Tacked
<1>6. i = Len(m)
  BY <1>1, <1>2, <1>4, <1>5
<1>7. IsBegin(m[Len(l) + 1])
  BY <1>1, <1>5, <1>6 DEF Tacked
<1>8. b = Len(l) + 1
  BY <1>1, <1>2, <1>4, <1>5, <1>6, <1>7
<1> QED  BY <1>2, <1>6, <1>8

\* The whole transaction is appended, behind whatever log.
LEMMA WholeTacked ==
    ASSUME NEW l, NEW base, NEW txn, NEW seq, NEW recs, NEW m,
           IsSeq(l), IsSeq(base), DataRecords(recs),
           Joined(m, l, TailOf(base, txn, seq, recs))
    PROVE  /\ Tacked(m, l)
           /\ Len(m) = Len(l) + Len(recs) + 2
           /\ m[Len(l) + 1] = BeginCell(txn, Len(recs))
           /\ \A k \in 1..Len(recs) : m[Len(l) + 1 + k] = Stamp(recs[k], txn)
           /\ m[Len(l) + Len(recs) + 2] = CommitCell(txn, seq, OpenPart(base, txn, recs))
<1> DEFINE T == TailOf(base, txn, seq, recs)
           n == Len(l)
           r == Len(recs)
<1>1. n \in Nat /\ r \in Nat
  BY SeqLen DEF DataRecords
<1>2. /\ IsSeq(T) /\ Len(T) = r + 2
      /\ T[1] = BeginCell(txn, r)
      /\ \A k \in 1..r : T[1 + k] = Stamp(recs[k], txn)
      /\ T[r + 2] = CommitCell(txn, seq, OpenPart(base, txn, recs))
  <2>1. IsSeq(recs)
    BY DEF DataRecords
  <2> QED  BY <2>1, TailIs
<1> HIDE DEF T
<1>3. /\ IsSeq(m) /\ Len(m) = n + Len(T)
      /\ \A i \in 1..n : m[i] = l[i]
      /\ \A i \in 1..Len(T) : m[n + i] = T[i]
  <2>1. m = l \o T
    BY DEF T, Joined
  <2>2. /\ IsSeq(l \o T) /\ Len(l \o T) = n + Len(T)
        /\ \A i \in 1..n : (l \o T)[i] = l[i]
        /\ \A i \in 1..Len(T) : (l \o T)[n + i] = T[i]
    BY <1>2, SeqConcat
  <2> QED  BY <2>1, <2>2, Zenon
<1> HIDE DEF n, r
<1>4. Len(m) = n + r + 2
  BY <1>1, <1>2, <1>3
<1>5. m[n + 1] = T[1] /\ m[n + r + 2] = T[r + 2] /\ \A k \in 1..r : m[n + 1 + k] = T[1 + k]
  <2>1. 1 \in 1..Len(T) /\ r + 2 \in 1..Len(T) /\ n + (r + 2) = n + r + 2
    BY <1>1, <1>2
  <2>2. \A k \in 1..r : 1 + k \in 1..Len(T) /\ n + (1 + k) = n + 1 + k
    BY <1>1, <1>2
  <2> QED  BY <2>1, <2>2, <1>3
<1>6. \A k \in (n + 2)..(Len(m) - 1) : Mutates(m[k])
  <2> TAKE k \in (n + 2)..(Len(m) - 1)
  <2>1. PICK j \in 1..r : k = n + 1 + j
    <3>1. k - (n + 1) \in 1..r /\ k = n + 1 + (k - (n + 1))
      BY <1>1, <1>4
    <3> QED  BY <3>1
  <2>2. m[k] = Stamp(recs[j], txn)
    BY <2>1, <1>2, <1>5
  <2>3. DOMAIN recs[j] = Fields /\ Mutates(recs[j])
    BY DEF DataRecords, r
  <2>4. Mutates(Stamp(recs[j], txn))
    BY <2>3, StampIs
  <2> QED  BY <2>2, <2>4, Zenon
<1>7. IsBegin(m[n + 1])
  BY <1>2, <1>5 DEF IsBegin, BeginCell
<1>8. Tacked(m, l)
  BY <1>1, <1>3, <1>4, <1>6, <1>7 DEF Tacked, n
<1> QED  BY <1>2, <1>4, <1>5, <1>8, Zenon DEF n, r, T

LEMMA PartIs ==
    ASSUME NEW s, IsSeq(s), Len(s) >= 1, NEW part \in PartOf(s)
    PROVE  /\ IsSeq(part) /\ Len(part) <= Len(s)
           /\ \A i \in 1..Len(part) :
                 (part[i] = s[i] /\ i < Len(s)) \/ (i = Len(part) /\ part[i] = Torn)
<1>1. Len(s) \in Nat
  BY SeqLen
<1>2. ASSUME NEW n \in 0..(Len(s) - 1), part = SubSeq(s, 1, n)
      PROVE  /\ IsSeq(part) /\ Len(part) <= Len(s)
             /\ \A i \in 1..Len(part) : part[i] = s[i] /\ i < Len(s)
  <2>1. n \in Nat
    BY <1>1
  <2>2. /\ IsSeq(part) /\ Len(part) = n
        /\ \A i \in 1..n : part[i] = s[i]
    BY <1>2, <2>1, PrefixIs
  <2> QED  BY <2>2, <1>1
<1>3. ASSUME NEW n \in 0..(Len(s) - 1), part = Append(SubSeq(s, 1, n), Torn)
      PROVE  /\ IsSeq(part) /\ Len(part) <= Len(s)
             /\ \A i \in 1..Len(part) :
                   (part[i] = s[i] /\ i < Len(s)) \/ (i = Len(part) /\ part[i] = Torn)
  <2>1. n \in Nat
    BY <1>1
  <2>2. PICK q : q = SubSeq(s, 1, n)
    OBVIOUS
  <2>3. /\ IsSeq(q) /\ Len(q) = n
        /\ \A i \in 1..n : q[i] = s[i]
    BY <2>1, <2>2, PrefixIs
  <2>4. /\ IsSeq(part) /\ Len(part) = n + 1
        /\ \A i \in 1..n : part[i] = s[i]
        /\ part[n + 1] = Torn
    BY <1>3, <2>2, <2>3, SeqAppend
  <2> QED  BY <2>4, <1>1
<1> QED  BY <1>2, <1>3 DEF PartOf

\* A part of the transaction is appended, behind whatever log: nothing in it
\* is a commit record.
LEMMA PartTacked ==
    ASSUME NEW l, NEW base, NEW txn, NEW seq, NEW recs,
           IsSeq(l), IsSeq(base), DataRecords(recs),
           NEW part \in PartOf(TailOf(base, txn, seq, recs)),
           NEW m, Joined(m, l, part)
    PROVE  /\ Tacked(m, l)
           /\ \A k \in (Len(l) + 1)..Len(m) :
                 \/ m[k] = Torn
                 \/ m[k] = BeginCell(txn, Len(recs))
                 \/ \E j \in 1..Len(recs) : m[k] = Stamp(recs[j], txn)
           /\ \A k \in (Len(l) + 1)..Len(m) : ~IsCommit(m[k])
<1> DEFINE T == TailOf(base, txn, seq, recs)
           n == Len(l)
           r == Len(recs)
<1>1. n \in Nat /\ r \in Nat
  BY SeqLen DEF DataRecords
<1>2. /\ IsSeq(T) /\ Len(T) = r + 2
      /\ T[1] = BeginCell(txn, r)
      /\ \A k \in 1..r : T[1 + k] = Stamp(recs[k], txn)
  BY TailIs DEF DataRecords
<1> HIDE DEF T
<1>3. /\ IsSeq(part) /\ Len(part) <= Len(T)
      /\ \A i \in 1..Len(part) :
            (part[i] = T[i] /\ i < Len(T)) \/ (i = Len(part) /\ part[i] = Torn)
  <2>1. part \in PartOf(T) /\ Len(T) >= 1
    BY <1>1, <1>2 DEF T
  <2> QED  BY <2>1, <1>2, PartIs
<1>4. Len(part) \in Nat
  BY <1>3, SeqLen
<1>5. /\ IsSeq(m) /\ Len(m) = n + Len(part)
      /\ \A i \in 1..n : m[i] = l[i]
      /\ \A i \in 1..Len(part) : m[n + i] = part[i]
  <2>1. m = l \o part
    BY DEF Joined
  <2> QED  BY <1>3, <2>1, SeqConcat
<1> HIDE DEF n, r
<1>6. ASSUME NEW k \in (n + 1)..Len(m)
      PROVE  \/ k = Len(m) /\ m[k] = Torn
             \/ k = n + 1 /\ m[k] = BeginCell(txn, r)
             \/ k > n + 1 /\ \E j \in 1..r : m[k] = Stamp(recs[j], txn)
  <2>1. PICK i \in 1..Len(part) : k = n + i
    <3>1. k - n \in 1..Len(part) /\ k = n + (k - n)
      BY <1>1, <1>4, <1>5
    <3> QED  BY <3>1
  <2>2. CASE i = Len(part) /\ part[i] = Torn
    BY <2>1, <2>2, <1>1, <1>4, <1>5
  <2>3. CASE part[i] = T[i] /\ i < Len(T) /\ i = 1
    BY <2>1, <2>3, <1>2, <1>5
  <2>4. CASE part[i] = T[i] /\ i < Len(T) /\ i # 1
    <3>1. i - 1 \in 1..r /\ i = 1 + (i - 1) /\ k > n + 1
      BY <2>1, <2>4, <1>1, <1>2, <1>4
    <3>2. m[k] = T[i]
      BY <2>1, <2>4, <1>5
    <3> QED  BY <3>1, <3>2, <1>2
  <2> QED  BY <2>2, <2>3, <2>4, <1>3
<1>7. \A j \in 1..r : Mutates(Stamp(recs[j], txn))
  <2> TAKE j \in 1..r
  <2>1. DOMAIN recs[j] = Fields /\ Mutates(recs[j])
    BY DEF DataRecords, r
  <2> QED  BY <2>1, StampIs
<1>8. IsTorn(Torn) /\ ~IsCommit(Torn) /\ IsBegin(BeginCell(txn, r)) /\ ~IsCommit(BeginCell(txn, r))
  BY DEF Torn, IsTorn, IsCommit, BeginCell, IsBegin
<1>9. \A k \in (n + 2)..(Len(m) - 1) : Mutates(m[k])
  <2> TAKE k \in (n + 2)..(Len(m) - 1)
  <2>1. k \in (n + 1)..Len(m) /\ k # n + 1 /\ k # Len(m)
    BY <1>1, <1>4, <1>5
  <2> QED  BY <2>1, <1>6, <1>7
<1>10. n < Len(m) => IsBegin(m[n + 1]) \/ (Len(m) = n + 1 /\ IsTorn(m[Len(m)]))
  <2> SUFFICES ASSUME n < Len(m) PROVE IsBegin(m[n + 1]) \/ (Len(m) = n + 1 /\ IsTorn(m[Len(m)]))
    OBVIOUS
  <2>1. n + 1 \in (n + 1)..Len(m) /\ ~(n + 1 > n + 1)
    BY <1>1, <1>4, <1>5
  <2> QED  BY <2>1, <1>6, <1>8, Zenon
<1>11. Tacked(m, l)
  BY <1>1, <1>4, <1>5, <1>9, <1>10 DEF Tacked, n
<1>12. \A k \in (n + 1)..Len(m) : ~IsCommit(m[k])
  BY <1>6, <1>7, <1>8, MutatesIsData
<1> QED  BY <1>6, <1>11, <1>12, Zenon DEF n, r

\* Appended behind the log it was made for, the transaction is the log that
\* AppendLog holds.
LEMMA TackedOnBase ==
    ASSUME NEW base, NEW txn, NEW seq, NEW recs, IsSeq(base), IsSeq(recs)
    PROVE  base \o TailOf(base, txn, seq, recs) = Transaction(base, txn, seq, recs)
<1> DEFINE T == TailOf(base, txn, seq, recs)
           all == Transaction(base, txn, seq, recs)
           n == Len(base)
           r == Len(recs)
<1>1. n \in Nat /\ r \in Nat
  BY SeqLen
<1>2. /\ IsSeq(T) /\ Len(T) = r + 2
      /\ T[1] = BeginCell(txn, r)
      /\ \A k \in 1..r : T[1 + k] = Stamp(recs[k], txn)
      /\ T[r + 2] = CommitCell(txn, seq, OpenPart(base, txn, recs))
  BY TailIs
<1>3. /\ IsSeq(all) /\ Len(all) = n + r + 2
      /\ \A i \in 1..n : all[i] = base[i]
      /\ all[n + 1] = BeginCell(txn, r)
      /\ \A k \in 1..r : all[n + 1 + k] = Stamp(recs[k], txn)
      /\ all[n + r + 2] = CommitCell(txn, seq, OpenPart(base, txn, recs))
  BY TransactionIs
<1> HIDE DEF T, all
<1>4. /\ IsSeq(base \o T) /\ Len(base \o T) = n + Len(T)
      /\ \A i \in 1..n : (base \o T)[i] = base[i]
      /\ \A i \in 1..Len(T) : (base \o T)[n + i] = T[i]
  <2>1. IsSeq(T)
    BY <1>2
  <2> QED  BY <2>1, SeqConcat
<1>5. PICK c : c = base \o T
  OBVIOUS
<1> HIDE DEF n, r
<1>6. \A i \in 1..Len(c) : c[i] = all[i]
  <2> TAKE i \in 1..Len(c)
  <2>1. CASE i <= n
    BY <2>1, <1>1, <1>2, <1>3, <1>4, <1>5
  <2>2. CASE i = n + 1
    BY <2>2, <1>1, <1>2, <1>3, <1>4, <1>5
  <2>3. CASE i = n + r + 2
    <3>1. r + 2 \in 1..Len(T) /\ n + (r + 2) = i
      BY <2>3, <1>1, <1>2
    <3> QED  BY <2>3, <3>1, <1>2, <1>3, <1>4, <1>5
  <2>4. CASE i > n + 1 /\ i < n + r + 2
    <3>0. PICK k \in 1..r : i = n + 1 + k
      <4>0. i \in Nat
        BY <1>1, <1>2, <1>4, <1>5
      <4>1. i - (n + 1) \in 1..r /\ i = n + 1 + (i - (n + 1))
        BY <4>0, <2>4, <1>1
      <4> QED  BY <4>1
    <3>1. i = n + 1 + k /\ 1 + k \in 1..Len(T) /\ n + (1 + k) = i
      BY <3>0, <1>1, <1>2
    <3>2. c[i] = T[1 + k]
      BY <3>1, <1>4, <1>5
    <3>3. T[1 + k] = all[n + 1 + k]
      BY <1>2, <1>3
    <3> QED  BY <3>1, <3>2, <3>3
  <2>5. i <= n \/ i = n + 1 \/ i = n + r + 2 \/ (i > n + 1 /\ i < n + r + 2)
    BY <1>1, <1>2, <1>4, <1>5
  <2> QED  BY <2>1, <2>2, <2>3, <2>4, <2>5
<1>7. Len(c) = Len(all)
  BY <1>1, <1>2, <1>3, <1>4, <1>5
<1>8. c = all
  BY <1>3, <1>4, <1>5, <1>6, <1>7, SeqSame
<1> QED  BY <1>5, <1>8 DEF T, all

-----------------------------------------------------------------------------
(***************************************************************************)
(* Logs that split no transaction.  h is the history of what was issued.   *)
(***************************************************************************)
History(h) ==
    /\ IsSeq(h) /\ Len(h) <= MaxTxns
    /\ \A t \in 1..Len(h) : h[t] \subseteq {t} \X (1..MaxBatch)
IssuedBy(h) == (1..Len(h)) \X (1..MaxBatch)

\* M holds all the mutations of a transaction or none.
Whole(M, h) == \A t \in 1..Len(h) : h[t] \subseteq M \/ h[t] \cap M = {}

GoodCell(c, h) ==
    /\ DOMAIN c = Fields
    /\ c.type \in {"torn", "txn_begin", "txn_commit", "graph_delta", "checkpoint"}
    /\ c.txn_id \in Nat /\ c.new_sequence \in Nat
    /\ Mutates(c) => c.payload \subseteq IssuedBy(h)

Between(l, b, i) == UNION {l[p].payload : p \in (b + 1)..(i - 1)}

\* Wherever a transaction ends that has the number of records it says, they
\* are mutations, and hold no transaction in part.
Sound(l, h) ==
    /\ IsSeq(l)
    /\ \A i \in 1..Len(l) : GoodCell(l[i], h)
    /\ \A b, i \in 1..Len(l) :
          Closes(l, b, i) /\ l[b].payload = i - b - 1 =>
              /\ \A k \in (b + 1)..(i - 1) : Mutates(l[k])
              /\ Whole(Between(l, b, i), h)

LEMMA SoundIsLog ==
    ASSUME NEW l, NEW h, History(h), Sound(l, h)
    PROVE  IsLog(l)
<1>1. MaxTxns \in Nat /\ Len(h) \in Nat
  BY StoreAssumption, SeqLen DEF History
<1>2. IssuedBy(h) \subseteq Mutation
  BY <1>1 DEF History, IssuedBy, Mutation
<1> QED  BY <1>2 DEF Sound, GoodCell, IsLog, Fields, Mutates

LEMMA SoundEmpty ==
    ASSUME NEW h
    PROVE  Sound(<<>>, h)
<1>1. 1..0 = {}
  OBVIOUS
<1> QED  BY <1>1, SeqShort DEF Sound

\* The next transaction is disjoint from everything issued before.
LEMMA WholeGrows ==
    ASSUME NEW h, History(h), NEW N, N \subseteq {Len(h) + 1} \X (1..MaxBatch),
           NEW M, M \subseteq IssuedBy(h), Whole(M, h)
    PROVE  Whole(M, Append(h, N)) /\ M \subseteq IssuedBy(Append(h, N))
<1>1. Len(h) \in Nat /\ IsSeq(h)
  BY SeqLen DEF History
<1>2. /\ Len(Append(h, N)) = Len(h) + 1
      /\ \A i \in 1..Len(h) : Append(h, N)[i] = h[i]
      /\ Append(h, N)[Len(h) + 1] = N
  BY <1>1, SeqAppend
<1>3. N \cap M = {}
  <2> SUFFICES ASSUME NEW x \in N, x \in M PROVE FALSE
    OBVIOUS
  <2>1. x[1] = Len(h) + 1
    OBVIOUS
  <2>2. x[1] \in 1..Len(h)
    BY DEF IssuedBy
  <2> QED  BY <2>1, <2>2, <1>1
<1>4. ASSUME NEW t \in 1..Len(Append(h, N))
      PROVE  Append(h, N)[t] \subseteq M \/ Append(h, N)[t] \cap M = {}
  <2>1. CASE t = Len(h) + 1
    BY <2>1, <1>2, <1>3
  <2>2. CASE t \in 1..Len(h)
    BY <2>2, <1>2 DEF Whole
  <2> QED  BY <2>1, <2>2, <1>1, <1>2
<1>5. IssuedBy(h) \subseteq IssuedBy(Append(h, N))
  BY <1>1, <1>2 DEF IssuedBy
<1> QED  BY <1>4, <1>5 DEF Whole

LEMMA HistoryGrows ==
    ASSUME NEW h, History(h), Len(h) < MaxTxns,
           NEW N, N \subseteq {Len(h) + 1} \X (1..MaxBatch)
    PROVE  /\ History(Append(h, N)) /\ Len(Append(h, N)) = Len(h) + 1
           /\ Append(h, N)[Len(h) + 1] = N
           /\ \A i \in 1..Len(h) : Append(h, N)[i] = h[i]
           /\ IssuedBy(h) \subseteq IssuedBy(Append(h, N))
           /\ N \subseteq IssuedBy(Append(h, N))
           /\ Whole(N, Append(h, N))
<1>1. Len(h) \in Nat /\ IsSeq(h) /\ MaxTxns \in Nat
  BY SeqLen, StoreAssumption DEF History
<1>2. PICK g : g = Append(h, N)
  OBVIOUS
<1>3. /\ IsSeq(g) /\ Len(g) = Len(h) + 1
      /\ \A i \in 1..Len(h) : g[i] = h[i]
      /\ g[Len(h) + 1] = N
  BY <1>1, <1>2, SeqAppend
<1>4. ASSUME NEW t \in 1..Len(g) PROVE g[t] \subseteq {t} \X (1..MaxBatch)
  <2>1. CASE t = Len(h) + 1
    BY <2>1, <1>3
  <2>2. CASE t \in 1..Len(h)
    BY <2>2, <1>3 DEF History
  <2> QED  BY <2>1, <2>2, <1>1, <1>3
<1>5. History(g)
  BY <1>1, <1>3, <1>4 DEF History
<1>6. IssuedBy(h) \subseteq IssuedBy(g) /\ N \subseteq IssuedBy(g)
  BY <1>1, <1>3 DEF IssuedBy
<1>7. Whole(N, g)
  <2> SUFFICES ASSUME NEW t \in 1..Len(g) PROVE g[t] \subseteq N \/ g[t] \cap N = {}
    BY DEF Whole
  <2>1. CASE t = Len(h) + 1
    BY <2>1, <1>3
  <2>2. CASE t # Len(h) + 1
    <3>1. \A x \in g[t] : x[1] = t
      BY <1>4
    <3>2. \A x \in N : x[1] = Len(h) + 1
      OBVIOUS
    <3> QED  BY <3>1, <3>2, <2>2
  <2> QED  BY <2>1, <2>2
<1> QED  BY <1>2, <1>3, <1>5, <1>6, <1>7

LEMMA BetweenIssued ==
    ASSUME NEW l, NEW h, Sound(l, h), NEW b \in 1..Len(l), NEW i \in 1..Len(l),
           Closes(l, b, i), l[b].payload = i - b - 1
    PROVE  Between(l, b, i) \subseteq IssuedBy(h) /\ Whole(Between(l, b, i), h)
<1>1. Len(l) \in Nat
  BY SeqLen DEF Sound
<1>2. \A p \in (b + 1)..(i - 1) : Mutates(l[p]) /\ p \in 1..Len(l)
  BY <1>1 DEF Sound
<1>3. \A p \in (b + 1)..(i - 1) : l[p].payload \subseteq IssuedBy(h)
  BY <1>2 DEF Sound, GoodCell
<1> QED  BY <1>3 DEF Between, Sound

LEMMA SoundGrows ==
    ASSUME NEW l, NEW h, History(h), Sound(l, h),
           NEW N, N \subseteq {Len(h) + 1} \X (1..MaxBatch)
    PROVE  Sound(l, Append(h, N))
<1>1. PICK g : g = Append(h, N)
  OBVIOUS
<1>2. IssuedBy(h) \subseteq IssuedBy(g)
  <2>1. {} \subseteq IssuedBy(h) /\ Whole({}, h)
    BY DEF Whole
  <2>2. Len(h) \in Nat /\ Len(g) = Len(h) + 1
    BY <1>1, SeqLen, SeqAppend DEF History
  <2> QED  BY <2>2 DEF IssuedBy
<1>3. \A i \in 1..Len(l) : GoodCell(l[i], g)
  BY <1>2 DEF Sound, GoodCell
<1>4. ASSUME NEW b \in 1..Len(l), NEW i \in 1..Len(l), Closes(l, b, i), l[b].payload = i - b - 1
      PROVE  (\A k \in (b + 1)..(i - 1) : Mutates(l[k])) /\ Whole(Between(l, b, i), g)
  <2>1. Between(l, b, i) \subseteq IssuedBy(h) /\ Whole(Between(l, b, i), h)
    BY <1>4, BetweenIssued
  <2>2. Whole(Between(l, b, i), g)
    BY <2>1, <1>1, WholeGrows
  <2> QED  BY <2>2, <1>4 DEF Sound
<1> QED  BY <1>1, <1>3, <1>4 DEF Sound

\* Appending a transaction, or a part of one, to a log splits nothing: nothing
\* that ends behind the old end began in front of it.
LEMMA SoundTacked ==
    ASSUME NEW l, NEW m, NEW h, Sound(l, h), Tacked(m, l),
           \A k \in (Len(l) + 1)..Len(m) : GoodCell(m[k], h),
           IsCommit(m[Len(m)]) /\ Len(m) > Len(l) + 1 => Whole(Between(m, Len(l) + 1, Len(m)), h)
    PROVE  Sound(m, h)
<1>1. Len(l) \in Nat /\ Len(m) \in Nat /\ Len(l) <= Len(m) /\ IsSeq(m)
  BY SeqLen DEF Tacked
<1>2. \A i \in 1..Len(l) : m[i] = l[i]
  BY DEF Tacked
<1>3. \A i \in 1..Len(m) : GoodCell(m[i], h)
  <2> TAKE i \in 1..Len(m)
  <2>1. i \in 1..Len(l) \/ i \in (Len(l) + 1)..Len(m)
    BY <1>1
  <2> QED  BY <2>1, <1>2, Zenon DEF Sound
<1>4. ASSUME NEW b \in 1..Len(m), NEW i \in 1..Len(m), Closes(m, b, i), m[b].payload = i - b - 1
      PROVE  (\A k \in (b + 1)..(i - 1) : Mutates(m[k])) /\ Whole(Between(m, b, i), h)
  <2>0. b \in Nat /\ i \in Nat /\ b \in 1..(i - 1)
    <3>1. b \in Nat /\ i \in Nat
      BY <1>1
    <3> QED  BY <3>1, <1>4, CommitsBounds
  <2>1. CASE i \in 1..Len(l)
    <3>1. Closes(l, b, i)
      BY <2>0, <2>1, <1>1, <1>2, <1>4, SamePrefix
    <3>2. b \in 1..Len(l) /\ l[b].payload = i - b - 1 /\ \A k \in (b + 1)..(i - 1) : k \in 1..Len(l)
      BY <2>0, <2>1, <1>1, <1>2, <1>4
    <3>3. (\A k \in (b + 1)..(i - 1) : Mutates(l[k])) /\ Whole(Between(l, b, i), h)
      BY <2>1, <3>1, <3>2 DEF Sound
    <3>4. Between(m, b, i) = Between(l, b, i)
      BY <3>2, <1>2, Zenon DEF Between
    <3> QED  BY <3>2, <3>3, <3>4, <1>2
  <2>2. CASE i \in (Len(l) + 1)..Len(m)
    <3>1. b = Len(l) + 1 /\ i = Len(m) /\ IsCommit(m[Len(m)])
      BY <2>0, <2>2, <1>4, TackedCloses
    <3>2. \A k \in (b + 1)..(i - 1) : k \in (Len(l) + 2)..(Len(m) - 1)
      BY <3>1, <1>1
    <3>3. Len(m) > Len(l) + 1
      BY <2>0, <3>1
    <3> QED  BY <3>1, <3>2, <3>3 DEF Tacked
  <2> QED  BY <2>1, <2>2, <1>1
<1> QED  BY <1>1, <1>3, <1>4 DEF Sound

\* Records a transaction may carry.
GoodRecords(recs, h) ==
    IsSeq(recs) /\ \A k \in 1..Len(recs) : GoodCell(recs[k], h) /\ Mutates(recs[k])

LEMMA GoodIsData ==
    ASSUME NEW recs, NEW h, GoodRecords(recs, h)
    PROVE  /\ DataRecords(recs)
           /\ \A x : x \in MutationsOf(recs) <=> \E k \in 1..Len(recs) : x \in recs[k].payload
           /\ MutationsOf(recs) \subseteq IssuedBy(h)
<1>1. DataRecords(recs)
  BY DEF GoodRecords, DataRecords, GoodCell
<1>2. \A k \in 1..Len(recs) : IsData(recs[k])
  BY MutatesIsData DEF GoodRecords
<1>3. \A x : x \in MutationsOf(recs) <=> \E k \in 1..Len(recs) : x \in recs[k].payload
  BY <1>2 DEF MutationsOf
<1>4. \A k \in 1..Len(recs) : recs[k].payload \subseteq IssuedBy(h)
  BY DEF GoodRecords, GoodCell
<1>5. MutationsOf(recs) \subseteq IssuedBy(h)
  BY <1>3, <1>4
<1> QED  BY <1>1, <1>3, <1>5

LEMMA GoodStamp ==
    ASSUME NEW c, NEW h, NEW txn \in Nat, GoodCell(c, h), Mutates(c)
    PROVE  LET e == Stamp(c, txn)
           IN  GoodCell(e, h) /\ Mutates(e) /\ e.payload = c.payload
<1> DEFINE e == Stamp(c, txn)
<1>1. /\ DOMAIN e = Fields /\ e.type = c.type /\ e.txn_id = txn
      /\ e.new_sequence = c.new_sequence /\ e.payload = c.payload
      /\ Mutates(e)
  BY StampIs DEF GoodCell
<1> HIDE DEF e
<1>2. GoodCell(e, h)
  BY <1>1 DEF GoodCell
<1> QED  BY <1>1, <1>2 DEF e

LEMMA GoodControl ==
    ASSUME NEW h, NEW txn \in Nat, NEW seq \in Nat, NEW x
    PROVE  /\ GoodCell(BeginCell(txn, x), h) /\ GoodCell(CommitCell(txn, seq, x), h)
           /\ GoodCell(Torn, h)
  BY DEF GoodCell, BeginCell, CommitCell, Torn, Fields, Mutates

LEMMA SoundWhole ==
    ASSUME NEW l, NEW base, NEW txn \in Nat, NEW seq \in Nat, NEW recs, NEW h,
           Sound(l, h), IsSeq(base), GoodRecords(recs, h), Whole(MutationsOf(recs), h)
    PROVE  Sound(l \o TailOf(base, txn, seq, recs), h)
<1> DEFINE n == Len(l)
           r == Len(recs)
<1>0. IsSeq(l) /\ IsSeq(recs) /\ n \in Nat /\ r \in Nat
  BY SeqLen DEF Sound, GoodRecords
<1>m. PICK m : m = l \o TailOf(base, txn, seq, recs)
  OBVIOUS
<1>1. /\ Tacked(m, l)
      /\ Len(m) = n + r + 2
      /\ m[n + 1] = BeginCell(txn, r)
      /\ \A k \in 1..r : m[n + 1 + k] = Stamp(recs[k], txn)
      /\ m[n + r + 2] = CommitCell(txn, seq, OpenPart(base, txn, recs))
  <2>1. DataRecords(recs)
    BY GoodIsData
  <2>2. Joined(m, l, TailOf(base, txn, seq, recs))
    BY <1>m DEF Joined
  <2> QED  BY <1>0, <2>1, <2>2, WholeTacked
<1> HIDE DEF n, r
<1>a. Len(m) = n + r + 2
  BY <1>1
<1>b. GoodCell(m[n + 1], h) /\ GoodCell(m[n + r + 2], h)
  <2>1. /\ GoodCell(BeginCell(txn, r), h)
        /\ GoodCell(CommitCell(txn, seq, OpenPart(base, txn, recs)), h)
    BY GoodControl
  <2> QED  BY <2>1, <1>1, Zenon
<1>2. ASSUME NEW k \in 1..r
      PROVE  GoodCell(m[n + 1 + k], h) /\ m[n + 1 + k].payload = recs[k].payload
  <2>1. GoodCell(recs[k], h) /\ Mutates(recs[k])
    BY DEF GoodRecords, r
  <2>2. PICK e : e = Stamp(recs[k], txn)
    OBVIOUS
  <2>3. GoodCell(e, h) /\ e.payload = recs[k].payload
    BY <2>1, <2>2, GoodStamp
  <2>4. m[n + 1 + k] = e
    BY <2>2, <1>1
  <2> QED  BY <2>3, <2>4
<1>3. ASSUME NEW k \in (n + 1)..Len(m) PROVE GoodCell(m[k], h)
  <2>1. CASE k = n + 1
    BY <2>1, <1>b
  <2>2. CASE k = n + r + 2
    BY <2>2, <1>b
  <2>3. CASE k # n + 1 /\ k # n + r + 2
    <3>1. k - (n + 1) \in 1..r /\ n + 1 + (k - (n + 1)) = k
      BY <2>3, <1>0, <1>a
    <3> QED  BY <3>1, <1>2
  <2> QED  BY <2>1, <2>2, <2>3
<1>4. Between(m, n + 1, Len(m)) = MutationsOf(recs)
  <2>1. ASSUME NEW x \in Between(m, n + 1, Len(m)) PROVE x \in MutationsOf(recs)
    <3>1. PICK p \in ((n + 1) + 1)..(Len(m) - 1) : x \in m[p].payload
      BY <2>1 DEF Between
    <3>2. p - (n + 1) \in 1..r /\ n + 1 + (p - (n + 1)) = p
      BY <1>0, <1>a
    <3>3. x \in recs[p - (n + 1)].payload
      BY <3>1, <3>2, <1>2
    <3> QED  BY <3>2, <3>3, GoodIsData DEF r
  <2>2. ASSUME NEW x \in MutationsOf(recs) PROVE x \in Between(m, n + 1, Len(m))
    <3>1. PICK k \in 1..r : x \in recs[k].payload
      BY GoodIsData DEF r
    <3>2. x \in m[n + 1 + k].payload
      BY <3>1, <1>2
    <3>3. n + 1 + k \in ((n + 1) + 1)..(Len(m) - 1)
      BY <1>0, <1>a
    <3> QED  BY <3>2, <3>3 DEF Between
  <2> QED  BY <2>1, <2>2
<1> QED  BY <1>m, <1>1, <1>3, <1>4, SoundTacked DEF n

LEMMA SoundPart ==
    ASSUME NEW l, NEW base, NEW txn \in Nat, NEW seq \in Nat, NEW recs, NEW h,
           Sound(l, h), IsSeq(base), GoodRecords(recs, h),
           NEW part \in PartOf(TailOf(base, txn, seq, recs))
    PROVE  Sound(l \o part, h)
<1>m. PICK m : m = l \o part
  OBVIOUS
<1>0. IsSeq(l) /\ IsSeq(recs) /\ Len(l) \in Nat /\ Len(recs) \in Nat
  BY SeqLen DEF Sound, GoodRecords
<1>1. /\ Tacked(m, l)
      /\ \A k \in (Len(l) + 1)..Len(m) :
            \/ m[k] = Torn
            \/ m[k] = BeginCell(txn, Len(recs))
            \/ \E j \in 1..Len(recs) : m[k] = Stamp(recs[j], txn)
      /\ \A k \in (Len(l) + 1)..Len(m) : ~IsCommit(m[k])
  <2>1. DataRecords(recs)
    BY GoodIsData
  <2>2. Joined(m, l, part)
    BY <1>m DEF Joined
  <2> QED  BY <1>0, <2>1, <2>2, PartTacked
<1>2. \A j \in 1..Len(recs) : GoodCell(Stamp(recs[j], txn), h)
  <2> TAKE j \in 1..Len(recs)
  <2>1. GoodCell(recs[j], h) /\ Mutates(recs[j])
    BY DEF GoodRecords
  <2> QED  BY <2>1, GoodStamp
<1>3. GoodCell(Torn, h) /\ GoodCell(BeginCell(txn, Len(recs)), h)
  BY GoodControl
<1>4. \A k \in (Len(l) + 1)..Len(m) : GoodCell(m[k], h)
  BY <1>1, <1>2, <1>3, Zenon
<1>5. Len(m) > Len(l) + 1 => Len(m) \in (Len(l) + 1)..Len(m)
  <2>1. Len(m) \in Nat
    BY <1>1, SeqLen DEF Tacked
  <2> QED  BY <2>1, <1>0
<1> QED  BY <1>m, <1>1, <1>4, <1>5, SoundTacked

\* What recover() takes from a sound log, and what compaction makes of it.
LEMMA SoundRecovered ==
    ASSUME NEW l, NEW h, Sound(l, h)
    PROVE  /\ MutationsIn(l) \subseteq IssuedBy(h) /\ Whole(MutationsIn(l), h)
           /\ LastSequence(l) \in Nat
           /\ GoodRecords(CommittedRecords(l), h)
           /\ MutationsOf(CommittedRecords(l)) = MutationsIn(l)
<1> DEFINE P == CommittedPositions(l)
           R == CommittedRecords(l)
<1>0. IsSeq(l) /\ Len(l) \in Nat
  BY SeqLen DEF Sound
<1>1. /\ P \subseteq 1..Len(l)
      /\ \A p : p \in P <=> \E b, i \in 1..Len(l) : Commits(l, b, i) /\ p \in (b + 1)..(i - 1)
  BY <1>0, PositionsAre
<1>2. /\ IsSeq(R) /\ Len(R) \in Nat
      /\ \A k \in 1..Len(R) : Nth(P, k) \in P /\ R[k] = l[Nth(P, k)]
      /\ \A p \in P : \E k \in 1..Len(R) : R[k] = l[p]
  BY <1>0, RecordsAre
<1>3. \A b, i : Commits(l, b, i) => Closes(l, b, i) /\ l[b].payload = i - b - 1
  BY DEF Commits, Intact
<1>4. MutationsIn(l) = UNION {l[p].payload : p \in P}
  BY DEF MutationsIn
<1> HIDE DEF P, R
<1>5. \A p \in P : Mutates(l[p]) /\ GoodCell(l[p], h)
  BY <1>1, <1>3 DEF Sound
<1>6. MutationsIn(l) \subseteq IssuedBy(h)
  BY <1>4, <1>5 DEF GoodCell
<1>7. \A x : x \in MutationsIn(l) <=>
                \E b, i \in 1..Len(l) : Commits(l, b, i) /\ x \in Between(l, b, i)
  <2> TAKE x
  <2>1. x \in MutationsIn(l) <=> \E p \in P : x \in l[p].payload
    BY <1>4
  <2>2. \A b, i : x \in Between(l, b, i) <=> \E p \in (b + 1)..(i - 1) : x \in l[p].payload
    BY DEF Between
  <2> QED  BY <2>1, <2>2, <1>1, Zenon
<1>8. Whole(MutationsIn(l), h)
  <2> SUFFICES ASSUME NEW t \in 1..Len(h), NEW y \in h[t], y \in MutationsIn(l)
               PROVE  h[t] \subseteq MutationsIn(l)
    BY DEF Whole
  <2>1. PICK b \in 1..Len(l), i \in 1..Len(l) : Commits(l, b, i) /\ y \in Between(l, b, i)
    BY <1>7
  <2>2. Whole(Between(l, b, i), h)
    BY <2>1, <1>3 DEF Sound
  <2>3. h[t] \subseteq Between(l, b, i)
    BY <2>1, <2>2 DEF Whole
  <2> QED  BY <2>1, <2>3, <1>7
<1>9. LastSequence(l) \in Nat
  <2>1. CASE Committed(l) = {}
    BY <2>1 DEF LastSequence
  <2>2. CASE Committed(l) # {}
    <3>1. PICK t \in Committed(l) : LastSequence(l) = l[t[2]].new_sequence
      BY <2>2, <1>0, LastIs
    <3>2. t[2] \in 1..Len(l)
      BY CommittedPair
    <3> QED  BY <3>1, <3>2 DEF Sound, GoodCell
  <2> QED  BY <2>1, <2>2
<1>10. GoodRecords(R, h)
  BY <1>2, <1>5 DEF GoodRecords
<1>11. MutationsOf(R) = MutationsIn(l)
  <2>1. \A x : x \in MutationsOf(R) <=> \E k \in 1..Len(R) : x \in R[k].payload
    BY <1>10, GoodIsData
  <2>2. ASSUME NEW x PROVE (\E k \in 1..Len(R) : x \in R[k].payload) <=> x \in MutationsIn(l)
    <3>1. x \in MutationsIn(l) <=> \E p \in P : x \in l[p].payload
      BY <1>4
    <3> QED  BY <3>1, <1>2, Zenon
  <2> QED  BY <2>1, <2>2
<1> QED  BY <1>6, <1>8, <1>9, <1>10, <1>11 DEF R

LEMMA SoundTransaction ==
    ASSUME NEW l, NEW txn \in Nat, NEW seq \in Nat, NEW recs, NEW h,
           Sound(l, h), GoodRecords(recs, h), Whole(MutationsOf(recs), h)
    PROVE  Sound(Transaction(l, txn, seq, recs), h)
<1>1. IsSeq(l) /\ IsSeq(recs)
  BY DEF Sound, GoodRecords
<1> QED  BY <1>1, SoundWhole, TackedOnBase

LEMMA SoundClean ==
    ASSUME NEW l, NEW h, Sound(l, h)
    PROVE  Sound(CleanLogBytes(l), h)
<1>1. Sound(Transaction(<<>>, kCompactionTxnId, LastSequence(l), CommittedRecords(l)), h)
  BY SoundRecovered, SoundEmpty, SoundTransaction, StoreAssumption
<1> QED  BY <1>1, SoundEmpty DEF CleanLogBytes

-----------------------------------------------------------------------------
(***************************************************************************)
(* The store, under every fault.                                           *)
(***************************************************************************)
SoundDisk(d, h) == DOMAIN d = Path /\ \A p \in Path : Sound(d[p], h)

\* Where the process is, and the call it is in.
Control ==
    /\ pc \in {"down", "idle", "replace", "retry", "append"}
    /\ call.op \in {"none", "append", "checkpoint"}
    /\ pc \in {"down", "idle"} <=> call.op = "none"
    /\ pc = "append" => call.op = "append"
    /\ call.seq \in Nat
    /\ job.path \in Path

\* The records of the call are those of the transaction it was issued as.
CallRecords ==
    /\ call.op = "append" => /\ call.txn \in 1..Len(issued)
                             /\ call.recs \in Batches(call.txn)
                             /\ issued[call.txn] = MutationsOf(call.recs)
    /\ call.op # "append" => call.recs = <<>> /\ call.txn = 0

\* What the caller knows and was told holds no transaction in part.
Knowledge ==
    /\ mem.sequence \in Nat
    /\ mem.mutations \subseteq IssuedBy(issued) /\ Whole(mem.mutations, issued)
    /\ acked \subseteq IssuedBy(issued)

Counters == checkpoints \in 0..MaxCheckpoints /\ faults \in 0..MaxFaults

\* The inductive invariant: files, and bytes on their way to a file, are sound.
AtomicInd ==
    /\ History(issued)
    /\ SoundDisk(disk, issued)
    /\ Sound(job.bytes, issued) /\ Sound(call.bytes, issued)
    /\ Control /\ CallRecords /\ Knowledge /\ Counters

LEMMA BatchIs ==
    ASSUME NEW t \in Nat \ {0}, NEW recs \in Batches(t)
    PROVE  /\ IsSeq(recs)
           /\ \/ /\ \A k \in 1..Len(recs) : recs[k] = DeltaCell(t, k) /\ k \in 1..MaxBatch
                 /\ Len(recs) \in MinBatch..MaxBatch
              \/ recs = <<BeginCell(t, 0)>>
           /\ MutationsOf(recs) \subseteq {t} \X (1..MaxBatch)
           /\ \A x : x \in MutationsOf(recs) =>
                 \E k \in 1..Len(recs) : IsData(recs[k]) /\ x \in recs[k].payload
<1>0. MinBatch \in Nat /\ MaxBatch \in Nat
  BY StoreAssumption
<1>1. \A x : x \in MutationsOf(recs) <=>
          \E k \in 1..Len(recs) : IsData(recs[k]) /\ x \in recs[k].payload
  BY DEF MutationsOf
<1>2. CASE recs = <<BeginCell(t, 0)>>
  <2>1. IsSeq(recs) /\ Len(recs) = 1 /\ recs[1] = BeginCell(t, 0)
    BY <1>2, SeqShort
  <2>2. ~IsData(recs[1])
    BY <2>1 DEF IsData, IsBegin, BeginCell
  <2>3. \A k \in 1..Len(recs) : ~IsData(recs[k])
    BY <2>1, <2>2
  <2> QED  BY <1>1, <1>2, <2>1, <2>3
<1>3. ASSUME NEW n \in MinBatch..MaxBatch, recs = [k \in 1..n |-> DeltaCell(t, k)]
      PROVE  /\ IsSeq(recs)
             /\ \A k \in 1..Len(recs) : recs[k] = DeltaCell(t, k) /\ k \in 1..MaxBatch
             /\ Len(recs) \in MinBatch..MaxBatch
             /\ MutationsOf(recs) \subseteq {t} \X (1..MaxBatch)
  <2>0. n \in Nat
    BY <1>0
  <2>1. PICK S : S = {DeltaCell(t, k) : k \in 1..n}
    OBVIOUS
  <2>2. recs \in [1..n -> S]
    BY <1>3, <2>1
  <2>3. recs \in Seq(S)
    BY <2>0, <2>2, SeqDef
  <2>4. DOMAIN recs = 1..Len(recs) /\ Len(recs) \in Nat /\ DOMAIN recs = 1..n
    BY <2>2, <2>3, LenProperties
  <2>5. Len(recs) = n
    BY <2>0, <2>4, SameEnd, Zenon
  <2>6. \A k \in 1..Len(recs) : recs[k] = DeltaCell(t, k)
    BY <1>3, <2>5
  <2>7. \A k \in 1..Len(recs) : k \in 1..MaxBatch
    BY <1>0, <2>5
  <2>8. \A k : DeltaCell(t, k).payload = {<<t, k>>}
    BY DEF DeltaCell
  <2>9. MutationsOf(recs) \subseteq {t} \X (1..MaxBatch)
    BY <1>1, <2>6, <2>7, <2>8
  <2> QED  BY <2>3, <2>5, <2>6, <2>7, <2>9 DEF IsSeq
<1> QED  BY <1>1, <1>2, <1>3 DEF Batches

LEMMA DeltaIs ==
    ASSUME NEW h, NEW t \in 1..Len(h), IsSeq(h), NEW k \in 1..MaxBatch
    PROVE  GoodCell(DeltaCell(t, k), h) /\ Mutates(DeltaCell(t, k))
<1>1. Len(h) \in Nat
  BY SeqLen
<1> QED  BY <1>1 DEF GoodCell, DeltaCell, Mutates, Fields, IssuedBy

\* The records that are appended are those of a whole transaction.
LEMMA CallIsGood ==
    ASSUME AtomicInd, call.op = "append"
    PROVE  /\ IsSeq(call.recs) /\ IsLog(call.recs)
           /\ call.txn \in Nat \ {0} /\ call.txn <= Len(issued) /\ call.txn <= MaxTxns
           /\ MutationsOf(call.recs) \subseteq IssuedBy(issued)
           /\ Whole(MutationsOf(call.recs), issued)
           /\ (\A k \in 1..Len(call.recs) : IsData(call.recs[k])) => GoodRecords(call.recs, issued)
<1>1. /\ History(issued) /\ IsSeq(issued) /\ Len(issued) \in Nat /\ Len(issued) <= MaxTxns
      /\ MaxTxns \in Nat
  BY SeqLen, StoreAssumption DEF AtomicInd, History
<1>2. /\ call.txn \in 1..Len(issued) /\ call.recs \in Batches(call.txn)
      /\ issued[call.txn] = MutationsOf(call.recs)
  BY DEF AtomicInd, CallRecords
<1>3. call.txn \in Nat \ {0} /\ call.txn <= Len(issued) /\ call.txn <= MaxTxns
  BY <1>1, <1>2
<1>4. /\ IsSeq(call.recs)
      /\ \/ \A k \in 1..Len(call.recs) : call.recs[k] = DeltaCell(call.txn, k) /\ k \in 1..MaxBatch
         \/ call.recs = <<BeginCell(call.txn, 0)>>
      /\ MutationsOf(call.recs) \subseteq {call.txn} \X (1..MaxBatch)
  BY <1>2, <1>3, BatchIs
<1>5. MutationsOf(call.recs) \subseteq IssuedBy(issued)
  BY <1>2, <1>4 DEF IssuedBy
<1>6. Whole(MutationsOf(call.recs), issued)
  <2> SUFFICES ASSUME NEW t \in 1..Len(issued), t # call.txn,
                      NEW x \in issued[t], x \in MutationsOf(call.recs)
               PROVE  FALSE
    BY <1>2 DEF Whole
  <2>1. x[1] = t
    BY <1>1 DEF History
  <2>2. x[1] = call.txn
    BY <1>4
  <2> QED  BY <2>1, <2>2
<1>7. CASE \A k \in 1..Len(call.recs) : call.recs[k] = DeltaCell(call.txn, k) /\ k \in 1..MaxBatch
  <2>1. GoodRecords(call.recs, issued)
    BY <1>1, <1>2, <1>4, <1>7, DeltaIs DEF GoodRecords
  <2>2. IssuedBy(issued) \subseteq Mutation
    BY <1>1 DEF IssuedBy, Mutation
  <2>3. IsLog(call.recs)
    BY <2>1, <2>2 DEF GoodRecords, GoodCell, IsLog, Fields, Mutates
  <2> QED  BY <1>3, <1>4, <1>5, <1>6, <2>1, <2>3
<1>8. CASE call.recs = <<BeginCell(call.txn, 0)>>
  <2>1. Len(call.recs) = 1 /\ call.recs[1] = BeginCell(call.txn, 0)
    BY <1>8, SeqShort
  <2>2. ~IsData(call.recs[1])
    BY <2>1 DEF IsData, IsBegin, BeginCell
  <2>3. IsLog(call.recs)
    BY <2>1, <1>3 DEF IsLog, BeginCell
  <2> QED  BY <1>3, <1>4, <1>5, <1>6, <2>1, <2>2, <2>3
<1> QED  BY <1>4, <1>7, <1>8

LEMMA FaultIs ==
    ASSUME Counters, NEW kind, Fault(kind)
    PROVE  faults' \in 0..MaxFaults
  BY StoreAssumption DEF Counters, Fault

LEMMA AtomicInit == Init => AtomicInd
<1> SUFFICES ASSUME Init PROVE AtomicInd
  OBVIOUS
<1>1. Len(issued) = 0 /\ IsSeq(issued) /\ 1..0 = {} /\ MaxTxns \in Nat
  BY SeqShort, StoreAssumption DEF Init
<1>2. History(issued) /\ \A M : Whole(M, issued)
  BY <1>1 DEF History, Whole
<1>3. SoundDisk(disk, issued) /\ Sound(job.bytes, issued) /\ Sound(call.bytes, issued)
  BY SoundEmpty DEF Init, SoundDisk, NoJob, NoCall
<1>4. Control /\ CallRecords
  BY DEF Init, Control, CallRecords, NoCall, NoJob, Path
<1>5. Knowledge /\ Counters
  BY <1>2, StoreAssumption DEF Init, Knowledge, Counters
<1> QED  BY <1>2, <1>3, <1>4, <1>5 DEF AtomicInd

\* A call that returns leaves no bytes on their way.
LEMMA ReturnErrorKeeps ==
    ASSUME AtomicInd, ReturnError, SoundDisk(disk', issued), faults' \in 0..MaxFaults
    PROVE  AtomicInd'
<1>1. /\ pc' = "idle" /\ call' = NoCall /\ job' = NoJob
      /\ UNCHANGED <<mem, acked, issued, checkpoints>>
  BY DEF ReturnError
<1>2. Control' /\ CallRecords'
  BY <1>1 DEF Control, CallRecords, NoCall, NoJob, Path
<1>3. Sound(job.bytes, issued)' /\ Sound(call.bytes, issued)'
  BY <1>1, SoundEmpty DEF NoCall, NoJob
<1>4. Knowledge' /\ Counters' /\ History(issued)' /\ SoundDisk(disk, issued)'
  BY <1>1 DEF AtomicInd, Knowledge, Counters
<1> QED  BY <1>2, <1>3, <1>4 DEF AtomicInd

LEMMA WholeUnion ==
    ASSUME NEW M, NEW N, NEW h, Whole(M, h), Whole(N, h)
    PROVE  Whole(M \cup N, h)
  BY DEF Whole

\* What a returning call adds to the caller's knowledge.
LEMMA CallMutations ==
    ASSUME AtomicInd
    PROVE  MutationsOf(call.recs) \subseteq IssuedBy(issued) /\ Whole(MutationsOf(call.recs), issued)
<1>1. CASE call.op = "append"
  BY <1>1, CallIsGood
<1>2. CASE call.op # "append"
  <2>1. call.recs = <<>> /\ 1..0 = {}
    BY <1>2 DEF AtomicInd, CallRecords
  <2>2. MutationsOf(call.recs) = {}
    BY <2>1, SeqShort DEF MutationsOf
  <2> QED  BY <2>2 DEF Whole
<1> QED  BY <1>1, <1>2

LEMMA ReturnOkKeeps ==
    ASSUME AtomicInd, ReturnOk, SoundDisk(disk', issued), faults' \in 0..MaxFaults
    PROVE  AtomicInd'
<1>1. /\ pc' = "idle" /\ call' = NoCall /\ job' = NoJob
      /\ mem' = [sequence  |-> call.seq,
                 mutations |-> mem.mutations \cup MutationsOf(call.recs)]
      /\ acked' = acked \cup MutationsOf(call.recs)
      /\ UNCHANGED <<issued, checkpoints>>
  BY DEF ReturnOk
<1>2. Control' /\ CallRecords'
  BY <1>1 DEF Control, CallRecords, NoCall, NoJob, Path
<1>3. Sound(job.bytes, issued)' /\ Sound(call.bytes, issued)'
  BY <1>1, SoundEmpty DEF NoCall, NoJob
<1>4. Knowledge'
  <2>1. /\ mem.mutations \subseteq IssuedBy(issued) /\ Whole(mem.mutations, issued)
        /\ acked \subseteq IssuedBy(issued) /\ call.seq \in Nat
    BY DEF AtomicInd, Knowledge, Control
  <2>2. Whole(mem.mutations \cup MutationsOf(call.recs), issued)
    BY <2>1, CallMutations, WholeUnion
  <2>3. /\ mem'.sequence = call.seq /\ mem'.mutations = mem.mutations \cup MutationsOf(call.recs)
        /\ issued' = issued
    BY <1>1
  <2> QED  BY <1>1, <2>1, <2>2, <2>3, CallMutations DEF Knowledge
<1>5. Counters' /\ History(issued)' /\ SoundDisk(disk, issued)'
  BY <1>1 DEF AtomicInd, Counters
<1> QED  BY <1>2, <1>3, <1>4, <1>5 DEF AtomicInd

\* A file of the disk is replaced by sound bytes, or sound bytes are appended.
LEMMA SoundDiskExcept ==
    ASSUME NEW d, NEW h, SoundDisk(d, h), NEW p \in Path, NEW bytes, Sound(bytes, h)
    PROVE  SoundDisk([d EXCEPT ![p] = bytes], h)
<1> DEFINE e == [d EXCEPT ![p] = bytes]
<1>1. DOMAIN e = Path /\ \A q \in Path : e[q] = IF q = p THEN bytes ELSE d[q]
  BY DEF SoundDisk
<1> HIDE DEF e
<1>2. SoundDisk(e, h)
  BY <1>1 DEF SoundDisk
<1> QED  BY <1>2 DEF e

LEMMA SoundAppended ==
    ASSUME AtomicInd, Appending,
           NEW cells \in PartOf(TailBytes) \cup {TailBytes}, AppendToLog(cells)
    PROVE  SoundDisk(disk', issued)
<1>1. call.op = "append" /\ GoodRecords(call.recs, issued)
  BY CallIsGood DEF AtomicInd, Control, Appending
<1>2. /\ call.txn \in Nat /\ call.seq \in Nat /\ Whole(MutationsOf(call.recs), issued)
      /\ IsSeq(call.bytes) /\ Sound(disk["state.log"], issued)
  BY <1>1, CallIsGood DEF AtomicInd, Control, Sound, SoundDisk, Path
<1>3. TailBytes = TailOf(call.bytes, call.txn, call.seq, call.recs)
  BY DEF TailBytes, TailOf
<1>4. Sound(disk["state.log"] \o cells, issued)
  BY <1>1, <1>2, <1>3, SoundWhole, SoundPart
<1>5. disk' = [disk EXCEPT !["state.log"] = disk["state.log"] \o cells]
  BY DEF AppendToLog
<1> QED  BY <1>4, <1>5, SoundDiskExcept DEF AtomicInd, Path

LEMMA AfterReplaceIs ==
    ASSUME AtomicInd, pc \in {"replace", "retry"}, AfterReplace
    PROVE  \/ /\ call.op = "append" /\ pc' = "append" /\ job' = NoJob
              /\ UNCHANGED <<call, mem, acked, issued, checkpoints>>
           \/ /\ call.op = "checkpoint" /\ job.path = "checkpoint.fst" /\ pc' = "replace"
              /\ job' = [path |-> "state.log", bytes |-> <<>>]
              /\ UNCHANGED <<call, mem, acked, issued, checkpoints>>
           \/ call.op = "checkpoint" /\ job.path = "state.log" /\ ReturnOk
<1>1. call.op \in {"append", "checkpoint"} /\ job.path \in {"state.log", "checkpoint.fst"}
  BY DEF AtomicInd, Control, Path
<1>2. CASE call.op = "append"
  BY <1>2 DEF AfterReplace
<1>3. CASE call.op = "checkpoint" /\ job.path = "checkpoint.fst"
  BY <1>3 DEF AfterReplace
<1>4. CASE call.op = "checkpoint" /\ job.path = "state.log"
  BY <1>4 DEF AfterReplace
<1> QED  BY <1>1, <1>2, <1>3, <1>4

LEMMA AfterReplaceKeeps ==
    ASSUME AtomicInd, pc \in {"replace", "retry"}, AfterReplace, SoundDisk(disk', issued),
           faults' \in 0..MaxFaults
    PROVE  AtomicInd'
<1>1. CASE ReturnOk
  BY <1>1, ReturnOkKeeps
<1>2. CASE /\ pc' \in {"append", "replace"} /\ UNCHANGED <<call, mem, acked, issued, checkpoints>>
           /\ pc' = "append" => call.op = "append"
           /\ job' \in {NoJob, [path |-> "state.log", bytes |-> <<>>]}
  <2>1. job'.path = "state.log" /\ job'.bytes = <<>> /\ call.op # "none"
    BY <1>2 DEF NoJob, AtomicInd, Control
  <2>2. Control' /\ CallRecords' /\ Knowledge' /\ Counters' /\ History(issued)'
    BY <1>2, <2>1 DEF AtomicInd, Control, CallRecords, Knowledge, Counters, Path
  <2>3. Sound(job.bytes, issued)' /\ Sound(call.bytes, issued)' /\ SoundDisk(disk, issued)'
    BY <1>2, <2>1, SoundEmpty DEF AtomicInd
  <2> QED  BY <2>2, <2>3 DEF AtomicInd
<1> QED  BY <1>1, <1>2, AfterReplaceIs

\* Everything known stays sound when the next transaction is issued.
LEMMA IssueKeeps ==
    ASSUME AtomicInd, Len(issued) < MaxTxns,
           NEW N, N \subseteq {Len(issued) + 1} \X (1..MaxBatch), issued' = Append(issued, N)
    PROVE  /\ History(issued') /\ Len(issued') = Len(issued) + 1
           /\ N \subseteq IssuedBy(issued') /\ Whole(N, issued')
           /\ issued'[Len(issued) + 1] = N
           /\ \A t \in 1..Len(issued) : issued'[t] = issued[t]
           /\ \A l : Sound(l, issued) => Sound(l, issued')
           /\ SoundDisk(disk, issued')
           /\ mem.mutations \subseteq IssuedBy(issued') /\ Whole(mem.mutations, issued')
           /\ acked \subseteq IssuedBy(issued')
<1>1. History(issued)
  BY DEF AtomicInd
<1>2. /\ History(issued') /\ Len(issued') = Len(issued) + 1
      /\ issued'[Len(issued) + 1] = N
      /\ \A t \in 1..Len(issued) : issued'[t] = issued[t]
      /\ IssuedBy(issued) \subseteq IssuedBy(issued')
      /\ N \subseteq IssuedBy(issued') /\ Whole(N, issued')
  BY <1>1, HistoryGrows
<1>3. \A l : Sound(l, issued) => Sound(l, issued')
  BY <1>1, SoundGrows
<1>4. SoundDisk(disk, issued')
  BY <1>3 DEF AtomicInd, SoundDisk
<1>5. mem.mutations \subseteq IssuedBy(issued') /\ Whole(mem.mutations, issued')
  BY <1>1, WholeGrows DEF AtomicInd, Knowledge
<1>6. acked \subseteq IssuedBy(issued')
  BY <1>2 DEF AtomicInd, Knowledge
<1> QED  BY <1>2, <1>3, <1>4, <1>5, <1>6

LEMMA BeginAppendKeeps ==
    ASSUME AtomicInd, NEW existing, Sound(existing, issued), BeginAppend(existing),
           faults' \in 0..MaxFaults
    PROVE  AtomicInd'
<1>0. Len(issued) \in Nat /\ MaxTxns \in Nat
  BY SeqLen, StoreAssumption DEF AtomicInd, History
<1>1. PICK recs, clean :
          /\ recs \in Batches(Len(issued) + 1)
          /\ clean = CleanLogBytes(existing)
          /\ pc = "idle"
          /\ Len(issued) < MaxTxns
          /\ issued' = Append(issued, MutationsOf(recs))
          /\ call' = [op |-> "append", txn |-> Len(issued) + 1, seq |-> mem.sequence + 1,
                      recs |-> recs, bytes |-> clean]
          /\ \/ pc' = "replace" /\ job' = [path |-> "state.log", bytes |-> clean]
             \/ pc' = "append" /\ UNCHANGED job
          /\ UNCHANGED <<disk, mem, acked, checkpoints>>
  BY DEF BeginAppend
<1>2. MutationsOf(recs) \subseteq {Len(issued) + 1} \X (1..MaxBatch)
  <2>1. Len(issued) + 1 \in Nat \ {0}
    BY <1>0
  <2> QED  BY <1>1, <2>1, BatchIs
<1>3. /\ History(issued') /\ Len(issued') = Len(issued) + 1
      /\ issued'[Len(issued) + 1] = MutationsOf(recs)
      /\ \A l : Sound(l, issued) => Sound(l, issued')
      /\ SoundDisk(disk, issued')
      /\ mem.mutations \subseteq IssuedBy(issued') /\ Whole(mem.mutations, issued')
      /\ acked \subseteq IssuedBy(issued')
  BY <1>1, <1>2, IssueKeeps
<1>4. Sound(clean, issued') /\ Sound(job.bytes, issued')
  BY <1>1, <1>3, SoundClean DEF AtomicInd
<1>5. /\ call'.op = "append" /\ call'.txn = Len(issued) + 1 /\ call'.seq = mem.sequence + 1
      /\ call'.recs = recs /\ call'.bytes = clean
  BY <1>1
<1>6. job'.path \in Path /\ Sound(job'.bytes, issued')
  <2>1. CASE job' = [path |-> "state.log", bytes |-> clean]
    BY <2>1, <1>4 DEF Path
  <2>2. CASE job' = job
    BY <2>2, <1>4 DEF AtomicInd, Control
  <2> QED  BY <1>1, <2>1, <2>2
<1>7. Control'
  BY <1>1, <1>5, <1>6 DEF AtomicInd, Control, Knowledge
<1>8. CallRecords'
  <2>1. Len(issued) + 1 \in 1..Len(issued')
    BY <1>0, <1>3
  <2> QED  BY <1>1, <1>3, <1>5, <2>1 DEF CallRecords
<1>9. Knowledge' /\ Counters' /\ SoundDisk(disk', issued')
  BY <1>1, <1>3 DEF AtomicInd, Knowledge, Counters
<1> QED  BY <1>3, <1>4, <1>5, <1>6, <1>7, <1>8, <1>9 DEF AtomicInd

LEMMA CheckpointRecord ==
    ASSUME AtomicInd
    PROVE  /\ GoodRecords(<<CheckpointCell(mem.mutations)>>, issued)
           /\ MutationsOf(<<CheckpointCell(mem.mutations)>>) = mem.mutations
<1>1. GoodRecords(<<CheckpointCell(mem.mutations)>>, issued)
  <2>1. GoodCell(CheckpointCell(mem.mutations), issued) /\ Mutates(CheckpointCell(mem.mutations))
    BY DEF GoodCell, CheckpointCell, Mutates, Fields, AtomicInd, Knowledge
  <2> QED  BY <2>1, SeqShort DEF GoodRecords
<1>2. MutationsOf(<<CheckpointCell(mem.mutations)>>) = mem.mutations
  <2>1. CheckpointCell(mem.mutations).payload = mem.mutations
    BY DEF CheckpointCell
  <2>2. PICK recs : recs = <<CheckpointCell(mem.mutations)>>
    OBVIOUS
  <2>3. \A x : x \in MutationsOf(recs) <=> \E k \in 1..Len(recs) : x \in recs[k].payload
    BY <1>1, <2>2, GoodIsData
  <2>4. Len(recs) = 1 /\ recs[1] = CheckpointCell(mem.mutations)
    BY <2>2, SeqShort
  <2>5. \A x : x \in MutationsOf(recs) <=> x \in mem.mutations
    BY <2>1, <2>3, <2>4
  <2> QED  BY <2>2, <2>5, Zenon
<1> QED  BY <1>1, <1>2

\* The checkpoint saves what the caller knows, which is whole.
LEMMA CheckpointKeeps ==
    ASSUME AtomicInd, Checkpoint
    PROVE  AtomicInd'
<1>1. PICK seq :
          /\ pc = "idle" /\ checkpoints < MaxCheckpoints /\ checkpoints' = checkpoints + 1
          /\ seq = mem.sequence + CheckpointStep
          /\ call' = [NoCall EXCEPT !.op = "checkpoint", !.seq = seq]
          /\ job' = [path |-> "checkpoint.fst", bytes |-> CheckpointBytes(seq)]
          /\ pc' = "replace"
          /\ UNCHANGED <<disk, mem, acked, issued, faults>>
  BY DEF Checkpoint
<1>2. seq \in Nat
  BY <1>1, StoreAssumption DEF AtomicInd, Knowledge
<1>3. /\ GoodRecords(<<CheckpointCell(mem.mutations)>>, issued)
      /\ MutationsOf(<<CheckpointCell(mem.mutations)>>) = mem.mutations
  BY CheckpointRecord
<1>5. Sound(CheckpointBytes(seq), issued)
  <2>1. Whole(MutationsOf(<<CheckpointCell(mem.mutations)>>), issued)
    BY <1>3 DEF AtomicInd, Knowledge
  <2> QED  BY <1>2, <1>3, <2>1, SoundTransaction, SoundEmpty, StoreAssumption DEF CheckpointBytes
<1>6. /\ call'.op = "checkpoint" /\ call'.seq = seq /\ call'.recs = <<>> /\ call'.txn = 0
      /\ call'.bytes = <<>>
  BY <1>1 DEF NoCall
<1>7. job'.path = "checkpoint.fst" /\ job'.bytes = CheckpointBytes(seq)
  BY <1>1
<1>8. Sound(job.bytes, issued)' /\ Sound(call.bytes, issued)'
  <2>1. Sound(job'.bytes, issued) /\ Sound(call'.bytes, issued)
    BY <1>5, <1>6, <1>7, SoundEmpty, Zenon
  <2> QED  BY <2>1, <1>1, Zenon
<1>9. Control' /\ CallRecords'
  BY <1>1, <1>2, <1>6, <1>7 DEF Control, CallRecords, Path
<1>10. Knowledge' /\ History(issued)' /\ SoundDisk(disk, issued)'
  BY <1>1 DEF AtomicInd, Knowledge
<1>11. Counters'
  BY <1>1, StoreAssumption DEF AtomicInd, Counters
<1> QED  BY <1>8, <1>9, <1>10, <1>11 DEF AtomicInd

LEMMA RecoveredIs ==
    ASSUME NEW d, NEW h, SoundDisk(d, h)
    PROVE  /\ Recovered(d).sequence \in Nat
           /\ Recovered(d).mutations =
                 MutationsIn(d["checkpoint.fst"]) \cup MutationsIn(d["state.log"])
           /\ Recovered(d).mutations \subseteq IssuedBy(h) /\ Whole(Recovered(d).mutations, h)
<1>1. Sound(d["checkpoint.fst"], h) /\ Sound(d["state.log"], h)
  BY DEF SoundDisk, Path
<1>2. /\ Recovered(d).mutations = MutationsIn(d["checkpoint.fst"]) \cup MutationsIn(d["state.log"])
      /\ Recovered(d).sequence \in {LastSequence(d["checkpoint.fst"]), LastSequence(d["state.log"])}
  BY DEF Recovered
<1>3. /\ MutationsIn(d["checkpoint.fst"]) \subseteq IssuedBy(h) /\ Whole(MutationsIn(d["checkpoint.fst"]), h)
      /\ LastSequence(d["checkpoint.fst"]) \in Nat
      /\ MutationsIn(d["state.log"]) \subseteq IssuedBy(h) /\ Whole(MutationsIn(d["state.log"]), h)
      /\ LastSequence(d["state.log"]) \in Nat
  BY <1>1, SoundRecovered
<1>4. Whole(MutationsIn(d["checkpoint.fst"]) \cup MutationsIn(d["state.log"]), h)
  BY <1>3, WholeUnion
<1> QED  BY <1>2, <1>3, <1>4

LEMMA RecoverKeeps ==
    ASSUME AtomicInd, NEW d, SoundDisk(d, issued), RecoverFrom(d), faults' \in 0..MaxFaults
    PROVE  AtomicInd'
<1>1. /\ pc = "down" /\ pc' = "idle" /\ mem' = Recovered(d)
      /\ UNCHANGED <<disk, call, job, acked, issued, checkpoints>>
  BY DEF RecoverFrom
<1>2. Knowledge'
  BY <1>1, RecoveredIs DEF AtomicInd, Knowledge
<1>3. Control' /\ CallRecords' /\ Counters' /\ History(issued)' /\ SoundDisk(disk, issued)'
  BY <1>1 DEF AtomicInd, Control, CallRecords, Counters
<1>4. Sound(job.bytes, issued)' /\ Sound(call.bytes, issued)'
  BY <1>1 DEF AtomicInd
<1> QED  BY <1>2, <1>3, <1>4 DEF AtomicInd

LEMMA OtherAppendsKeeps ==
    ASSUME AtomicInd, OtherAppends
    PROVE  AtomicInd'
<1>0. Len(issued) \in Nat /\ MaxTxns \in Nat /\ 1 \in 1..MaxBatch /\ faults' \in 0..MaxFaults
  BY SeqLen, StoreAssumption, FaultIs DEF AtomicInd, History, OtherAppends
<1>1. PICK t, recs, log :
          /\ t = Len(issued) + 1 /\ recs = <<DeltaCell(t, 1)>> /\ log = disk["state.log"]
          /\ Len(issued) < MaxTxns
          /\ issued' = Append(issued, MutationsOf(recs))
          /\ disk' = [disk EXCEPT !["state.log"] =
                         Transaction(CleanLogBytes(log), t, Recovered(disk).sequence + 1, recs)]
          /\ UNCHANGED <<pc, call, job, mem, acked, checkpoints>>
  BY DEF OtherAppends
<1>2. IsSeq(recs) /\ Len(recs) = 1 /\ recs[1] = DeltaCell(t, 1)
  BY <1>1, SeqShort
<1>3. MutationsOf(recs) \subseteq {t} \X (1..MaxBatch)
  <2>1. DeltaCell(t, 1).payload = {<<t, 1>>}
    BY DEF DeltaCell
  <2>2. \A x \in MutationsOf(recs) : \E k \in 1..Len(recs) : x \in recs[k].payload
    BY DEF MutationsOf
  <2>3. \A x \in MutationsOf(recs) : x = <<t, 1>>
    BY <2>1, <2>2, <1>2
  <2> QED  BY <2>3, <1>0
<1>4. /\ History(issued') /\ Len(issued') = Len(issued) + 1
      /\ Whole(MutationsOf(recs), issued')
      /\ \A i \in 1..Len(issued) : issued'[i] = issued[i]
      /\ \A l : Sound(l, issued) => Sound(l, issued')
      /\ SoundDisk(disk, issued')
      /\ mem.mutations \subseteq IssuedBy(issued') /\ Whole(mem.mutations, issued')
      /\ acked \subseteq IssuedBy(issued')
  BY <1>1, <1>3, IssueKeeps
<1>5. SoundDisk(disk', issued')
  <2>1. GoodRecords(recs, issued')
    <3>1. t \in 1..Len(issued') /\ IsSeq(issued')
      BY <1>0, <1>1, <1>4 DEF History
    <3>2. GoodCell(DeltaCell(t, 1), issued') /\ Mutates(DeltaCell(t, 1))
      BY <1>0, <3>1, DeltaIs
    <3> QED  BY <1>2, <3>2 DEF GoodRecords
  <2>2. Sound(CleanLogBytes(log), issued')
    BY <1>1, <1>4, SoundClean DEF SoundDisk, Path
  <2>3. t \in Nat /\ Recovered(disk).sequence + 1 \in Nat
    BY <1>0, <1>1, RecoveredIs DEF AtomicInd
  <2>4. Sound(Transaction(CleanLogBytes(log), t, Recovered(disk).sequence + 1, recs), issued')
    BY <2>1, <2>2, <2>3, <1>4, SoundTransaction
  <2> QED  BY <2>4, <1>1, <1>4, SoundDiskExcept DEF Path
<1>6. Sound(job.bytes, issued)' /\ Sound(call.bytes, issued)'
  BY <1>1, <1>4 DEF AtomicInd
<1>7. CallRecords'
  BY <1>0, <1>1, <1>4 DEF AtomicInd, CallRecords
<1>8. Control' /\ Knowledge' /\ Counters'
  BY <1>0, <1>1, <1>4 DEF AtomicInd, Control, Knowledge, Counters
<1> QED  BY <1>4, <1>5, <1>6, <1>7, <1>8 DEF AtomicInd

LEMMA CrashKeeps ==
    ASSUME AtomicInd, Crash
    PROVE  AtomicInd'
<1>1. /\ faults < MaxFaults /\ faults' = faults + 1
      /\ pc' = "down" /\ call' = NoCall /\ job' = NoJob
      /\ mem' = [sequence |-> 0, mutations |-> {}]
      /\ UNCHANGED <<acked, issued, checkpoints>>
  BY DEF Crash
<1>2. SoundDisk(disk', issued)
  <2>1. CASE Appending
    BY <2>1, SoundAppended DEF Crash
  <2>2. CASE ~Appending
    BY <2>2 DEF Crash, AtomicInd
  <2> QED  BY <2>1, <2>2
<1>3. Control' /\ CallRecords'
  BY <1>1 DEF Control, CallRecords, NoCall, NoJob, Path
<1>4. Sound(job.bytes, issued)' /\ Sound(call.bytes, issued)'
  BY <1>1, SoundEmpty DEF NoCall, NoJob
<1>5. Knowledge'
  BY <1>1 DEF AtomicInd, Knowledge, Whole
<1>6. Counters' /\ History(issued)' /\ SoundDisk(disk, issued)'
  BY <1>1, <1>2, StoreAssumption DEF AtomicInd, Counters
<1> QED  BY <1>3, <1>4, <1>5, <1>6 DEF AtomicInd

LEMMA AtomicNext == AtomicInd /\ [Next]_vars => AtomicInd'
<1> SUFFICES ASSUME AtomicInd, [Next]_vars PROVE AtomicInd'
  OBVIOUS
<1>0. /\ SoundDisk(disk, issued) /\ Counters /\ Sound(job.bytes, issued) /\ job.path \in Path
      /\ faults \in 0..MaxFaults
  BY DEF AtomicInd, Counters, Control
<1>1. CASE AppendTransaction
  BY <1>0, <1>1, BeginAppendKeeps DEF AppendTransaction, SoundDisk, Path
<1>2. CASE AppendTransactionStatError
  BY <1>0, <1>2, BeginAppendKeeps, SoundEmpty, FaultIs DEF AppendTransactionStatError
<1>3. CASE RejectReserved
  BY <1>0, <1>3, ReturnErrorKeeps DEF RejectReserved
<1>4. CASE AppendFile
  BY <1>0, <1>4, ReturnOkKeeps, SoundAppended DEF AppendFile
<1>5. CASE AppendFileError
  BY <1>0, <1>5, ReturnErrorKeeps, SoundAppended, FaultIs DEF AppendFileError
<1>6. CASE ReplaceFile
  BY <1>0, <1>6, AfterReplaceKeeps, SoundDiskExcept DEF ReplaceFile
<1>7. CASE ReplaceFileError
  BY <1>0, <1>7, ReturnErrorKeeps, FaultIs DEF ReplaceFileError
<1>8. CASE RenameError
  <2>1. /\ pc = "replace" /\ pc' = "retry" /\ disk' = [disk EXCEPT ![job.path] = <<>>]
        /\ UNCHANGED <<call, job, mem, acked, issued, checkpoints>> /\ faults' \in 0..MaxFaults
    BY <1>0, <1>8, FaultIs DEF RenameError
  <2>2. SoundDisk(disk', issued)
    BY <1>0, <2>1, SoundEmpty, SoundDiskExcept
  <2> QED  BY <2>1, <2>2 DEF AtomicInd, Control, CallRecords, Knowledge, Counters
<1>9. CASE RenameAgain
  BY <1>0, <1>9, AfterReplaceKeeps, SoundDiskExcept DEF RenameAgain
<1>10. CASE RenameAgainError
  BY <1>0, <1>10, ReturnErrorKeeps, FaultIs DEF RenameAgainError
<1>11. CASE Checkpoint
  BY <1>11, CheckpointKeeps
<1>12. CASE Recover
  BY <1>0, <1>12, RecoverKeeps DEF Recover
<1>13. CASE RecoverStatError
  BY <1>0, <1>13, RecoverKeeps, SoundEmpty, SoundDiskExcept, FaultIs DEF RecoverStatError
<1>14. CASE OtherAppends
  BY <1>14, OtherAppendsKeeps
<1>15. CASE Crash
  BY <1>15, CrashKeeps
<1>16. CASE UNCHANGED vars
  BY <1>16 DEF vars, AtomicInd, Control, CallRecords, Knowledge, Counters
<1> QED  BY <1>1, <1>2, <1>3, <1>4, <1>5, <1>6, <1>7, <1>8, <1>9, <1>10, <1>11, <1>12,
            <1>13, <1>14, <1>15, <1>16 DEF Next

LEMMA AtomicAlways == Spec => []AtomicInd
<1> QED  BY AtomicInit, AtomicNext, PTL DEF Spec

\* Whatever is torn, cut short, lost by a rename, read as empty or written by
\* another process in between, recover() finds each transaction of
\* append_transaction as a whole or not at all.
THEOREM RecoversWholeTransactions == Spec => []TransactionsAtomic
<1>1. AtomicInd => TransactionsAtomic
  BY RecoveredIs DEF AtomicInd, TransactionsAtomic, Whole
<1> QED  BY <1>1, AtomicAlways, PTL

\* The files, the call in progress and what the caller knows have their types:
\* every record that recover() hands out is one of mutations.
THEOREM StoreTypes == Spec => []TypeOK
<1>1. AtomicInd => TypeOK
  <2> SUFFICES ASSUME AtomicInd PROVE TypeOK
    OBVIOUS
  <2>1. History(issued) /\ IsSeq(issued) /\ Len(issued) \in Nat /\ MaxTxns \in Nat /\ Len(issued) <= MaxTxns
    BY SeqLen, StoreAssumption DEF AtomicInd, History
  <2>2. IssuedBy(issued) \subseteq Mutation
    BY <2>1 DEF IssuedBy, Mutation
  <2>3. \A p \in Path : IsLog(disk[p])
    BY <2>1, SoundIsLog DEF AtomicInd, SoundDisk
  <2>4. IsLog(job.bytes) /\ IsLog(call.bytes)
    BY <2>1, SoundIsLog DEF AtomicInd
  <2>5. IsLog(call.recs) /\ call.txn \in 0..MaxTxns
    <3>1. CASE call.op = "append"
      BY <3>1, <2>1, CallIsGood
    <3>2. CASE call.op # "append"
      <4>1. call.recs = <<>> /\ call.txn = 0 /\ 1..0 = {}
        BY <3>2 DEF AtomicInd, CallRecords
      <4> QED  BY <4>1, <2>1, SeqShort DEF IsLog
    <3> QED  BY <3>1, <3>2
  <2>6. \A t \in 1..Len(issued) : issued[t] \subseteq Mutation
    <3> TAKE t \in 1..Len(issued)
    <3>1. issued[t] \subseteq {t} \X (1..MaxBatch) /\ t \in 1..MaxTxns
      BY <2>1 DEF History
    <3> QED  BY <3>1 DEF Mutation
  <2>7. Len(issued) \in 0..MaxTxns
    BY <2>1
  <2>8. DOMAIN disk = Path
    BY DEF AtomicInd, SoundDisk
  <2>9. mem.sequence \in Nat /\ mem.mutations \subseteq Mutation /\ acked \subseteq Mutation
    BY <2>2 DEF AtomicInd, Knowledge
  <2> QED  BY <2>3, <2>4, <2>5, <2>6, <2>7, <2>8, <2>9 DEF AtomicInd, Control, Counters, TypeOK
<1> QED  BY <1>1, AtomicAlways, PTL

-----------------------------------------------------------------------------
(***************************************************************************)
(* Logs recover_log has nothing to say about.                              *)
(***************************************************************************)

\* A digest is never mistaken for a payload that is too short to hold one.
Digests == \A s : IsSeq(s) => Crc(s) # Missing

LEMMA CleanCommits ==
    ASSUME NEW l, IsSeq(l), ~Diagnosed(l)
    PROVE  /\ \A i \in 1..Len(l) : ~Stops(l, i) /\ Reached(l, i)
           /\ \A b, i \in 1..Len(l) : Closes(l, b, i) => Intact(l, b, i) /\ Commits(l, b, i)
           /\ \A b \in 1..Len(l) : ~OpenAt(l, b, Len(l) + 1)
<1>1. Len(l) \in Nat
  BY SeqLen
<1>2. /\ \A i \in 1..Len(l) : ~Stops(l, i)
      /\ \A b \in 1..Len(l) : ~OpenAt(l, b, Len(l) + 1)
  BY DEF Diagnosed
<1>3. \A i \in 1..Len(l) : Reached(l, i)
  BY <1>1, <1>2 DEF Reached
<1>4. ASSUME NEW b \in 1..Len(l), NEW i \in 1..Len(l), Closes(l, b, i)
      PROVE  Intact(l, b, i)
  <2>1. b \in 1..(i - 1)
    BY <1>4 DEF Closes, OpenAt
  <2> QED  BY <2>1, <1>3, <1>4 DEF Diagnosed
<1> QED  BY <1>2, <1>3, <1>4 DEF Commits

LEMMA EmptyIsClean == ~Diagnosed(<<>>) /\ Committed(<<>>) = {} /\ MutationsIn(<<>>) = {}
<1>1. 1..0 = {} /\ Len(<<>>) = 0
  BY SeqShort
<1>2. ~Diagnosed(<<>>) /\ Committed(<<>>) = {}
  BY <1>1 DEF Diagnosed, Committed
<1> QED  BY <1>2 DEF MutationsIn, CommittedPositions

\* What is committed in front of an append stays committed.
LEMMA TackedKeeps ==
    ASSUME NEW l, NEW m, Tacked(m, l), NEW b \in Nat, NEW i \in 1..Len(l)
    PROVE  /\ Commits(l, b, i) <=> Commits(m, b, i)
           /\ Closes(l, b, i) <=> Closes(m, b, i)
           /\ Stops(l, i) <=> Stops(m, i)
           /\ b \in 1..(i - 1) => (Intact(l, b, i) <=> Intact(m, b, i))
<1>1. Len(l) \in Nat /\ \A k \in 1..Len(l) : l[k] = m[k]
  BY SeqLen DEF Tacked
<1> QED  BY <1>1, SamePrefix

Latest(S) == CHOOSE t \in S : \A u \in S : u[2] <= t[2]

\* A part of a transaction commits nothing.
LEMMA PartCommits ==
    ASSUME NEW l, NEW m, Tacked(m, l), \A k \in (Len(l) + 1)..Len(m) : ~IsCommit(m[k])
    PROVE  /\ Committed(m) = Committed(l)
           /\ CommittedPositions(m) = CommittedPositions(l)
           /\ MutationsIn(m) = MutationsIn(l)
           /\ LastSequence(m) = LastSequence(l)
<1>1. IsSeq(l) /\ IsSeq(m) /\ Len(l) \in Nat /\ Len(m) \in Nat /\ Len(l) <= Len(m)
  BY SeqLen DEF Tacked
<1>2. \A k \in 1..Len(l) : m[k] = l[k]
  BY DEF Tacked
<1>3. ASSUME NEW b \in 1..Len(m), NEW i \in 1..Len(m), Commits(m, b, i)
      PROVE  b \in 1..Len(l) /\ i \in 1..Len(l) /\ Commits(l, b, i)
  <2>1. b \in Nat /\ i \in Nat /\ b \in 1..(i - 1) /\ IsCommit(m[i])
    BY <1>1, <1>3, CommitsBounds DEF Commits
  <2>2. i \in 1..Len(l)
    BY <2>1, <1>1
  <2> QED  BY <2>1, <2>2, <1>1, <1>3, TackedKeeps
<1>4. Committed(m) \subseteq Committed(l)
  BY <1>3, CommittedPair
<1>5. ASSUME NEW t \in Committed(l) PROVE t \in Committed(m)
  <2>1. /\ t[1] \in 1..Len(l) /\ t[2] \in 1..Len(l) /\ t = <<t[1], t[2]>> /\ Commits(l, t[1], t[2])
        /\ t[1] \in Nat
    BY <1>1, CommittedPair
  <2>2. t[1] \in 1..Len(m) /\ t[2] \in 1..Len(m) /\ Commits(m, t[1], t[2])
    BY <2>1, <1>1, TackedKeeps
  <2> QED  BY <2>1, <2>2, CommittedPair
<1>6. Committed(m) = Committed(l)
  BY <1>4, <1>5
<1>7. CommittedPositions(m) = CommittedPositions(l)
  BY <1>6 DEF CommittedPositions
<1>8. CommittedPositions(l) \subseteq 1..Len(l)
  BY <1>1, PositionsAre
<1>9. MutationsIn(m) = MutationsIn(l)
  <2>1. \A p \in CommittedPositions(l) : m[p] = l[p]
    BY <1>2, <1>8
  <2> QED  BY <1>7, <2>1 DEF MutationsIn
<1>10. LastSequence(m) = LastSequence(l)
  <2>1. CASE Committed(l) = {}
    BY <2>1, <1>6 DEF LastSequence
  <2>2. CASE Committed(l) # {}
    <3>1. /\ LastSequence(l) = l[Latest(Committed(l))[2]].new_sequence
          /\ LastSequence(m) = m[Latest(Committed(m))[2]].new_sequence
      BY <2>2, <1>6 DEF LastSequence, Latest
    <3>2. Latest(Committed(l)) \in Committed(l)
      BY <2>2, <1>1, LastIs DEF Latest
    <3>3. m[Latest(Committed(l))[2]] = l[Latest(Committed(l))[2]]
      BY <3>2, <1>2, CommittedPair
    <3> QED  BY <3>1, <3>3, <1>6, Zenon
  <2> QED  BY <2>1, <2>2
<1> QED  BY <1>6, <1>7, <1>9, <1>10

\* A transaction appended to a clean log is committed, and the log is clean.
LEMMA TransactionCommits ==
    ASSUME NEW l, NEW txn, NEW seq, NEW recs, IsSeq(l), ~Diagnosed(l), DataRecords(recs),
           Digests, NEW T, T = Transaction(l, txn, seq, recs)
    PROVE  /\ ~Diagnosed(T)
           /\ Committed(T) = Committed(l) \cup {<<Len(l) + 1, Len(l) + Len(recs) + 2>>}
           /\ T[Len(l) + Len(recs) + 2].new_sequence = seq
<1> DEFINE n == Len(l)
           r == Len(recs)
           e == n + r + 2
<1>0. n \in Nat /\ r \in Nat /\ e \in Nat /\ IsSeq(recs)
  BY SeqLen DEF DataRecords
<1>1. Joined(T, l, TailOf(l, txn, seq, recs))
  BY <1>0, TackedOnBase DEF Joined
<1>2. /\ Tacked(T, l)
      /\ Len(T) = n + r + 2
      /\ T[n + 1] = BeginCell(txn, r)
      /\ T[n + r + 2] = CommitCell(txn, seq, OpenPart(l, txn, recs))
  BY <1>1, WholeTacked
<1>3. SubSeq(T, 1, n + r + 1) = OpenPart(l, txn, recs)
  BY <1>0, TransactionIs
<1> HIDE DEF n, r
<1>4. /\ IsBegin(T[n + 1]) /\ ~IsTorn(T[n + 1]) /\ ~IsCommit(T[n + 1])
      /\ T[n + 1].payload = r /\ T[n + 1].txn_id = txn
  BY <1>2 DEF BeginCell, IsBegin, IsTorn, IsCommit
<1>5. /\ IsCommit(T[e]) /\ ~IsTorn(T[e]) /\ ~IsBegin(T[e]) /\ T[e].txn_id = txn
      /\ T[e].payload = Crc(OpenPart(l, txn, recs)) /\ T[e].new_sequence = seq
  BY <1>2 DEF CommitCell, IsBegin, IsTorn, IsCommit
<1>6. \A k \in (n + 2)..(e - 1) : ~IsTorn(T[k]) /\ ~IsBegin(T[k]) /\ ~IsCommit(T[k])
  BY <1>2, MutatesIsData DEF Tacked, n
<1>7. \A i \in 1..n : T[i] = l[i]
  BY <1>2 DEF Tacked, n
<1>a. Len(T) = e /\ IsSeq(T)
  BY <1>2 DEF Tacked
<1> HIDE DEF e
<1>b. e = n + r + 2
  BY DEF e
<1>8. OpenAt(T, n + 1, e) /\ Closes(T, n + 1, e)
  <2>1. n + 1 \in 1..(e - 1)
    BY <1>0, <1>b
  <2>2. \A k \in ((n + 1) + 1)..(e - 1) : k \in (n + 2)..(e - 1)
    BY <1>0, <1>b
  <2>3. OpenAt(T, n + 1, e)
    BY <2>1, <2>2, <1>4, <1>6 DEF OpenAt, CommitOf
  <2> QED  BY <2>3, <1>4, <1>5 DEF Closes, CommitOf
<1>9. Intact(T, n + 1, e)
  <2>1. e - (n + 1) - 1 = r /\ e - 1 = n + r + 1
    BY <1>0, <1>b
  <2> QED  BY <2>1, <1>3, <1>4, <1>5, Zenon DEF Intact
<1>10. \A i \in 1..Len(T) : ~Stops(T, i)
  <2> TAKE i \in 1..Len(T)
  <2>1. CASE i \in 1..n
    <3>1. ~Stops(l, i)
      BY <2>1, CleanCommits DEF n
    <3> QED  BY <3>1, <2>1, <1>2, <1>0, TackedKeeps DEF n
  <2>2. CASE i = n + 1
    <3>1. r # Missing
      BY <1>0, StoreAssumption
    <3> QED  BY <2>2, <3>1, <1>4, Zenon DEF Stops
  <2>3. CASE i \in (n + 2)..(e - 1)
    BY <2>3, <1>6, Zenon DEF Stops, Closes, CommitOf
  <2>4. CASE i = e
    <3>1. Crc(OpenPart(l, txn, recs)) # Missing
      BY <1>0, OpenPartIs DEF Digests
    <3> QED  BY <2>4, <3>1, <1>5, Zenon DEF Stops
  <2>5. i \in 1..n \/ i = n + 1 \/ i \in (n + 2)..(e - 1) \/ i = e
    BY <1>0, <1>a, <1>b
  <2> QED  BY <2>1, <2>2, <2>3, <2>4, <2>5
<1>11. \A i \in 1..Len(T) : Reached(T, i)
  BY <1>0, <1>a, <1>10 DEF Reached
<1>12. ASSUME NEW b \in 1..Len(T), NEW i \in 1..Len(T), Closes(T, b, i)
       PROVE  /\ Intact(T, b, i)
              /\ (b = n + 1 /\ i = e) \/ (b \in 1..n /\ i \in 1..n /\ Commits(l, b, i))
  <2>0. b \in Nat /\ i \in Nat /\ b \in 1..(i - 1)
    BY <1>0, <1>a, <1>12, CommitsBounds
  <2>1. CASE i \in 1..n
    <3>1. b \in 1..n
      BY <2>0, <2>1, <1>0
    <3>2. Closes(l, b, i)
      BY <2>0, <2>1, <1>2, <1>12, TackedKeeps DEF n
    <3>3. Intact(l, b, i) /\ Commits(l, b, i)
      BY <2>1, <3>1, <3>2, CleanCommits DEF n
    <3>4. Intact(l, b, i) <=> Intact(T, b, i)
      BY <2>0, <2>1, <1>2, TackedKeeps DEF n
    <3> QED  BY <2>1, <3>1, <3>3, <3>4
  <2>2. CASE i \in (n + 1)..Len(T)
    <3>1. b = n + 1 /\ i = e
      BY <2>0, <2>2, <1>2, <1>12, <1>a, TackedCloses DEF n
    <3> QED  BY <3>1, <1>9
  <2> QED  BY <2>1, <2>2, <1>0, <1>a
<1>13. \A b \in 1..Len(T) : ~OpenAt(T, b, Len(T) + 1)
  <2> SUFFICES ASSUME NEW b \in 1..Len(T), OpenAt(T, b, Len(T) + 1) PROVE FALSE
    OBVIOUS
  <2>1. IsBegin(T[b]) /\ \A k \in (b + 1)..e : ~IsBegin(T[k]) /\ ~CommitOf(T, b, k)
    <3>1. (Len(T) + 1) - 1 = e
      BY <1>0, <1>a
    <3> QED  BY <3>1 DEF OpenAt
  <2>2. b = n + 1
    BY <2>1, <1>0, <1>a, <1>b, <1>4, <1>5, <1>6
  <2>3. e \in (b + 1)..e
    BY <2>2, <1>0, <1>b
  <2> QED  BY <2>1, <2>2, <2>3, <1>4, <1>5 DEF CommitOf
<1>14. ~Diagnosed(T)
  <2>1. \A i \in 1..Len(T) : \A b \in 1..(i - 1) : Closes(T, b, i) => Intact(T, b, i)
    <3> SUFFICES ASSUME NEW i \in 1..Len(T), NEW b \in 1..(i - 1), Closes(T, b, i)
                 PROVE  Intact(T, b, i)
      OBVIOUS
    <3>1. b \in 1..Len(T)
      BY <1>0, <1>a
    <3> QED  BY <3>1, <1>12
  <2> QED  BY <2>1, <1>10, <1>13 DEF Diagnosed
<1>15. Commits(T, n + 1, e) /\ e \in 1..Len(T) /\ n + 1 \in 1..Len(T)
  <2>1. e \in 1..Len(T) /\ n + 1 \in 1..Len(T)
    BY <1>0, <1>a, <1>b
  <2> QED  BY <2>1, <1>8, <1>9, <1>10, <1>11 DEF Commits
<1>16. Committed(T) \subseteq Committed(l) \cup {<<n + 1, e>>}
  <2> SUFFICES ASSUME NEW t \in Committed(T), t # <<n + 1, e>> PROVE t \in Committed(l)
    OBVIOUS
  <2>1. /\ t[1] \in 1..Len(T) /\ t[2] \in 1..Len(T) /\ t = <<t[1], t[2]>>
        /\ Commits(T, t[1], t[2])
    BY CommittedPair
  <2>2. t[1] \in 1..n /\ t[2] \in 1..n /\ Commits(l, t[1], t[2])
    <3>1. Closes(T, t[1], t[2])
      BY <2>1 DEF Commits
    <3>2. ~(t[1] = n + 1 /\ t[2] = e)
      BY <2>1
    <3> QED  BY <2>1, <3>1, <3>2, <1>12
  <2> QED  BY <2>1, <2>2, CommittedPair DEF n
<1>17. Committed(l) \subseteq Committed(T)
  <2> SUFFICES ASSUME NEW t \in Committed(l) PROVE t \in Committed(T)
    OBVIOUS
  <2>1. /\ t[1] \in 1..n /\ t[2] \in 1..n /\ t = <<t[1], t[2]>> /\ Commits(l, t[1], t[2])
    BY CommittedPair DEF n
  <2>2. t[1] \in Nat /\ t[1] \in 1..Len(T) /\ t[2] \in 1..Len(T)
    BY <2>1, <1>0, <1>a, <1>b
  <2>3. Commits(T, t[1], t[2])
    BY <2>1, <2>2, <1>2, TackedKeeps DEF n
  <2> QED  BY <2>1, <2>2, <2>3, CommittedPair
<1>18. <<n + 1, e>> \in Committed(T)
  BY <1>15, CommittedPair
<1>19. Committed(T) = Committed(l) \cup {<<n + 1, e>>}
  BY <1>16, <1>17, <1>18
<1> QED  BY <1>5, <1>14, <1>19, Zenon DEF e, n, r

\* It adds its mutations and sets the sequence.
LEMMA TransactionAdds ==
    ASSUME NEW l, NEW txn, NEW seq, NEW recs, NEW h, IsSeq(l), ~Diagnosed(l),
           GoodRecords(recs, h), Digests, NEW T, T = Transaction(l, txn, seq, recs)
    PROVE  /\ MutationsIn(T) = MutationsIn(l) \cup MutationsOf(recs)
           /\ LastSequence(T) = seq
           /\ CommittedPositions(T) =
                 CommittedPositions(l) \cup (Len(l) + 2)..(Len(l) + Len(recs) + 1)
<1> DEFINE n == Len(l)
           r == Len(recs)
           e == n + r + 2
<1>0. n \in Nat /\ r \in Nat /\ e \in Nat /\ IsSeq(recs) /\ DataRecords(recs)
  BY SeqLen, GoodIsData DEF DataRecords
<1>1. Committed(T) = Committed(l) \cup {<<n + 1, e>>} /\ T[e].new_sequence = seq
  BY <1>0, TransactionCommits
<1>2. /\ IsSeq(T) /\ Len(T) = n + r + 2
      /\ \A i \in 1..n : T[i] = l[i]
      /\ \A k \in 1..r : T[n + 1 + k] = Stamp(recs[k], txn)
  BY <1>0, TransactionIs
<1>3. \A k \in 1..r : T[n + 1 + k].payload = recs[k].payload
  <2> TAKE k \in 1..r
  <2>1. Stamp(recs[k], txn).payload = recs[k].payload
    BY <1>0, StampIs DEF DataRecords
  <2> QED  BY <2>1, <1>2
<1> HIDE DEF n, r, e
<1>4. e = n + r + 2
  BY DEF e
<1>5. CommittedPositions(T) = CommittedPositions(l) \cup (n + 2)..(n + r + 1)
  <2>1. <<n + 1, e>>[1] = n + 1 /\ <<n + 1, e>>[2] = e
    OBVIOUS
  <2>2. CommittedPositions(T) = CommittedPositions(l) \cup ((n + 1) + 1)..(e - 1)
    BY <1>1, <2>1 DEF CommittedPositions
  <2>3. (n + 1) + 1 = n + 2 /\ e - 1 = n + r + 1
    BY <1>0, <1>4
  <2> QED  BY <2>2, <2>3
<1>6. CommittedPositions(l) \subseteq 1..n
  BY PositionsAre DEF n
<1>7. ASSUME NEW x PROVE x \in MutationsIn(T) <=> x \in MutationsIn(l) \/ x \in MutationsOf(recs)
  <2>1. x \in MutationsIn(T) <=> \E p \in CommittedPositions(T) : x \in T[p].payload
    BY DEF MutationsIn
  <2>2. x \in MutationsIn(l) <=> \E p \in CommittedPositions(l) : x \in l[p].payload
    BY DEF MutationsIn
  <2>3. x \in MutationsOf(recs) <=> \E k \in 1..r : x \in recs[k].payload
    BY GoodIsData DEF r
  <2>4. \A p \in CommittedPositions(l) : T[p] = l[p]
    BY <1>2, <1>6
  <2>5. ASSUME NEW p \in (n + 2)..(n + r + 1), x \in T[p].payload
        PROVE  \E k \in 1..r : x \in recs[k].payload
    <3>1. p - (n + 1) \in 1..r /\ n + 1 + (p - (n + 1)) = p
      BY <1>0
    <3> QED  BY <3>1, <2>5, <1>3
  <2>6. ASSUME NEW k \in 1..r, x \in recs[k].payload
        PROVE  \E p \in (n + 2)..(n + r + 1) : x \in T[p].payload
    <3>1. n + 1 + k \in (n + 2)..(n + r + 1)
      BY <1>0
    <3> QED  BY <3>1, <2>6, <1>3
  <2> QED  BY <1>5, <2>1, <2>2, <2>3, <2>4, <2>5, <2>6, Zenon
<1>8. MutationsIn(T) = MutationsIn(l) \cup MutationsOf(recs)
  BY <1>7
<1>9. LastSequence(T) = seq
  <2>1. PICK t \in Committed(T) : /\ \A u \in Committed(T) : u[2] <= t[2]
                                  /\ LastSequence(T) = T[t[2]].new_sequence
    BY <1>1, <1>2, LastIs
  <2>2. <<n + 1, e>> \in Committed(T) /\ <<n + 1, e>>[2] = e
    BY <1>1
  <2>3. e <= t[2]
    BY <2>1, <2>2
  <2>4. t \notin Committed(l)
    <3> SUFFICES ASSUME t \in Committed(l) PROVE FALSE
      OBVIOUS
    <3>1. t[2] \in 1..n
      BY CommittedPair DEF n
    <3> QED  BY <3>1, <2>3, <1>0, <1>4
  <2>5. t[2] = e
    BY <2>1, <2>2, <2>4, <1>1
  <2> QED  BY <2>1, <2>5, <1>1
<1> QED  BY <1>5, <1>8, <1>9 DEF n, r

\* Compaction keeps every committed mutation and leaves nothing to complain of.
LEMMA CleanIs ==
    ASSUME NEW l, NEW h, Sound(l, h), Digests
    PROVE  /\ ~Diagnosed(CleanLogBytes(l))
           /\ MutationsIn(CleanLogBytes(l)) = MutationsIn(l)
           /\ CommittedPositions(CleanLogBytes(l)) = {} <=> CommittedPositions(l) = {}
           /\ CommittedPositions(l) # {} => LastSequence(CleanLogBytes(l)) = LastSequence(l)
<1>0. IsSeq(l)
  BY DEF Sound
<1>1. CASE ~Diagnosed(l)
  BY <1>1 DEF CleanLogBytes
<1>2. CASE Diagnosed(l) /\ CommittedRecords(l) = <<>>
  <2>1. CommittedPositions(l) = {}
    BY <1>0, <1>2, RecordsAre
  <2>2. CleanLogBytes(l) = <<>> /\ MutationsIn(l) = {}
    BY <1>2, <2>1 DEF CleanLogBytes, MutationsIn
  <2> QED  BY <2>1, <2>2, EmptyIsClean DEF CommittedPositions
<1>3. CASE Diagnosed(l) /\ CommittedRecords(l) # <<>>
  <2>1. PICK T, R : /\ R = CommittedRecords(l)
                    /\ T = Transaction(<<>>, kCompactionTxnId, LastSequence(l), R)
    OBVIOUS
  <2>2. CleanLogBytes(l) = T
    BY <1>3, <2>1 DEF CleanLogBytes
  <2>3. /\ IsSeq(R) /\ Len(R) \in Nat /\ Len(R) # 0 /\ CommittedPositions(l) # {}
        /\ GoodRecords(R, h) /\ MutationsOf(R) = MutationsIn(l) /\ DataRecords(R)
    BY <1>0, <1>3, <2>1, RecordsAre, SoundRecovered, SeqShort, GoodIsData
  <2>4. /\ IsSeq(<<>>) /\ Len(<<>>) = 0 /\ ~Diagnosed(<<>>) /\ MutationsIn(<<>>) = {}
        /\ CommittedPositions(<<>>) = {}
    BY SeqShort, EmptyIsClean DEF CommittedPositions
  <2>5. ~Diagnosed(T)
    BY <2>1, <2>3, <2>4, TransactionCommits
  <2>6. /\ MutationsIn(T) = MutationsIn(<<>>) \cup MutationsOf(R)
        /\ LastSequence(T) = LastSequence(l)
        /\ CommittedPositions(T) =
              CommittedPositions(<<>>) \cup (Len(<<>>) + 2)..(Len(<<>>) + Len(R) + 1)
    BY <2>1, <2>3, <2>4, TransactionAdds
  <2>7. 2 \in (Len(<<>>) + 2)..(Len(<<>>) + Len(R) + 1)
    BY <2>3, <2>4
  <2> QED  BY <2>2, <2>3, <2>4, <2>5, <2>6, <2>7
<1> QED  BY <1>1, <1>2, <1>3

\* The size tells whether compaction changed the log: append_transaction
\* compares nothing else.
LEMMA CleanShorter ==
    ASSUME NEW l, IsSeq(l), Len(CleanLogBytes(l)) = Len(l)
    PROVE  CleanLogBytes(l) = l
<1> SUFFICES ASSUME Diagnosed(l) PROVE FALSE
  BY DEF CleanLogBytes
<1> DEFINE P == CommittedPositions(l)
           n == Len(l)
<1>0. n \in Nat
  BY SeqLen
<1>1. /\ P \subseteq 1..n
      /\ \A p : p \in P <=> \E b, i \in 1..n : Commits(l, b, i) /\ p \in (b + 1)..(i - 1)
  BY PositionsAre
<1>2. /\ IsSeq(CommittedRecords(l)) /\ Len(CommittedRecords(l)) = Cardinality(P)
      /\ CommittedRecords(l) = <<>> <=> P = {}
  BY RecordsAre
<1>3. n # 0
  BY SeqShort, EmptyIsClean
<1>4. P # {} /\ n = Cardinality(P) + 2
  <2>1. CASE CommittedRecords(l) = <<>>
    BY <2>1, <1>3, SeqShort DEF CleanLogBytes
  <2>2. CASE CommittedRecords(l) # <<>>
    <3>1. CleanLogBytes(l) = Transaction(<<>>, kCompactionTxnId, LastSequence(l), CommittedRecords(l))
      BY <2>2 DEF CleanLogBytes
    <3>2. Len(CleanLogBytes(l)) = Len(<<>>) + Len(CommittedRecords(l)) + 2
      BY <3>1, <1>2, SeqShort, TransactionIs
    <3>3. Cardinality(P) \in Nat
      BY <1>2, SeqLen
    <3> QED  BY <2>2, <3>2, <3>3, <1>2, SeqShort
  <2> QED  BY <2>1, <2>2
<1>5. PICK b \in 1..n, i \in 1..n : Commits(l, b, i)
  BY <1>1, <1>4
<1> HIDE DEF P, n
<1>6. \A c, j \in 1..n : Commits(l, c, j) =>
          /\ c \in 1..(j - 1) /\ IsBegin(l[c]) /\ IsCommit(l[j]) /\ l[j].txn_id = l[c].txn_id
          /\ \A k \in (c + 1)..(j - 1) : ~IsBegin(l[k]) /\ ~CommitOf(l, c, k)
  BY DEF Commits, Closes, OpenAt, CommitOf
<1>7. b \notin P /\ i \notin P
  <2>1. b \notin P
    BY <1>1, <1>5, <1>6
  <2>2. i \notin P
    <3> SUFFICES ASSUME i \in P PROVE FALSE
      OBVIOUS
    <3>1. PICK c \in 1..n, j \in 1..n : Commits(l, c, j) /\ i \in (c + 1)..(j - 1)
      BY <1>1
    <3>2. /\ IsBegin(l[c]) /\ IsBegin(l[b]) /\ b < i /\ ~CommitOf(l, c, i)
          /\ \A k \in (c + 1)..(j - 1) : ~IsBegin(l[k])
          /\ \A k \in (b + 1)..(i - 1) : ~IsBegin(l[k])
          /\ IsCommit(l[i]) /\ l[i].txn_id = l[b].txn_id
      BY <1>0, <1>5, <1>6, <3>1
    <3>3. c < b \/ c = b \/ b < c
      BY <1>0
    <3>4. c # b
      BY <3>2 DEF CommitOf
    <3>5. ~(c < b)
      BY <1>0, <3>1, <3>2
    <3>6. ~(b < c)
      BY <1>0, <3>1, <3>2
    <3> QED  BY <3>3, <3>4, <3>5, <3>6
  <2> QED  BY <2>1, <2>2
<1>8. P = (1..n) \ {b, i}
  <2>1. IsFiniteSet(1..n) /\ Cardinality(1..n) = n
    BY <1>0, <1>3, FS_Interval
  <2>2. b # i
    BY <1>0, <1>5, <1>6
  <2>3. IsFiniteSet((1..n) \ {b}) /\ Cardinality((1..n) \ {b}) = n - 1
    BY <2>1, FS_RemoveElement
  <2>4. PICK Q : Q = (1..n) \ {b} /\ i \in Q
    BY <2>2
  <2>a. IsFiniteSet(Q \ {i}) /\ Cardinality(Q \ {i}) = Cardinality(Q) - 1
    BY <2>3, <2>4, FS_RemoveElement
  <2>5. IsFiniteSet(((1..n) \ {b}) \ {i}) /\ Cardinality(((1..n) \ {b}) \ {i}) = n - 1 - 1
    BY <2>a, <2>3, <2>4
  <2>6. P \subseteq ((1..n) \ {b}) \ {i}
    BY <1>1, <1>7
  <2>7. Cardinality(P) = n - 1 - 1
    <3>1. Cardinality(P) \in Nat
      BY <2>5, <2>6, FS_Subset, FS_CardinalityType
    <3> QED  BY <3>1, <1>0, <1>4
  <2>8. P = ((1..n) \ {b}) \ {i}
    BY <2>5, <2>6, <2>7, FS_Subset
  <2> QED  BY <2>8
<1>9. b = 1 /\ i = n
  <2>1. b < i
    BY <1>0, <1>5, <1>6
  <2>2. 1 \notin P
    BY <1>0, <1>1
  <2>3. n \notin P
    BY <1>0, <1>1
  <2> QED  BY <2>1, <2>2, <2>3, <1>0, <1>3, <1>8
<1>10. \A k \in 1..n : IsBegin(l[k]) => k = 1
  <2>1. \A k \in 2..(n - 1) : ~IsBegin(l[k])
    BY <1>0, <1>5, <1>6, <1>9
  <2>2. ~IsBegin(l[n])
    BY <1>5, <1>6, <1>9 DEF IsBegin, IsCommit
  <2> QED  BY <2>1, <2>2, <1>0
<1>11. /\ \A k \in 1..n : ~Stops(l, k)
       /\ Closes(l, 1, n) /\ Intact(l, 1, n)
  <2>1. /\ ~Stops(l, n) /\ Reached(l, n) /\ Closes(l, 1, n) /\ Intact(l, 1, n)
    BY <1>5, <1>9 DEF Commits
  <2>2. \A k \in 1..n : k = n \/ k \in 1..(n - 1)
    BY <1>0
  <2> QED  BY <2>1, <2>2 DEF Reached
<1>12. \A k \in 1..n : \A c \in 1..(k - 1) : Closes(l, c, k) => Intact(l, c, k)
  <2> SUFFICES ASSUME NEW k \in 1..n, NEW c \in 1..(k - 1), Closes(l, c, k)
               PROVE  Intact(l, c, k)
    OBVIOUS
  <2>1. c = 1
    <3>1. c \in 1..n /\ IsBegin(l[c])
      BY <1>0 DEF Closes, OpenAt
    <3> QED  BY <3>1, <1>10
  <2>2. k = n
    <3> SUFFICES ASSUME k # n PROVE FALSE
      OBVIOUS
    <3>1. k \in 2..(n - 1) /\ CommitOf(l, 1, k)
      BY <2>1, <1>0 DEF Closes
    <3> QED  BY <3>1, <1>5, <1>6, <1>9
  <2> QED  BY <2>1, <2>2, <1>11
<1>13. \A c \in 1..n : ~OpenAt(l, c, n + 1)
  <2> SUFFICES ASSUME NEW c \in 1..n, OpenAt(l, c, n + 1) PROVE FALSE
    OBVIOUS
  <2>1. c = 1
    BY <1>10 DEF OpenAt
  <2>2. n \in 2..n /\ (n + 1) - 1 = n
    BY <1>0, <1>5, <1>6, <1>9
  <2>3. ~CommitOf(l, 1, n)
    BY <2>1, <2>2 DEF OpenAt
  <2> QED  BY <2>3, <1>11 DEF Closes
<1> QED  BY <1>11, <1>12, <1>13 DEF Diagnosed, n

-----------------------------------------------------------------------------
(***************************************************************************)
(* Durability: when no rename fails, no stat fails and no other process    *)
(* writes, the bytes on their way always fit the file they go to.          *)
(***************************************************************************)
FileErrorsOnly == FaultKinds \subseteq {"io"}

\* What the call in progress is about to do to which file.
Fitting ==
    /\ pc # "retry"
    /\ pc = "append" => call.bytes = disk["state.log"] /\ ~Diagnosed(call.bytes)
    /\ pc = "replace" /\ call.op = "append" =>
          /\ job.path = "state.log" /\ job.bytes = call.bytes
          /\ call.bytes = CleanLogBytes(disk["state.log"])
    /\ pc = "replace" /\ call.op = "checkpoint" =>
          \/ job.path = "checkpoint.fst" /\ job.bytes = CheckpointBytes(call.seq)
          \/ /\ job.path = "state.log" /\ job.bytes = <<>>
             /\ MutationsIn(disk["checkpoint.fst"]) = mem.mutations

\* The caller knows the state of the files, and was told of nothing else.
UpToDate ==
    /\ pc # "down" => mem.mutations = Recovered(disk).mutations
    /\ acked \subseteq Recovered(disk).mutations

DurableInd == AtomicInd /\ Fitting /\ UpToDate

LEMMA RecoveredFields ==
    ASSUME NEW d
    PROVE  /\ Recovered(d).mutations = MutationsIn(d["checkpoint.fst"]) \cup MutationsIn(d["state.log"])
           /\ CommittedPositions(d["state.log"]) # {} =>
                 Recovered(d).sequence = LastSequence(d["state.log"])
           /\ CommittedPositions(d["state.log"]) = {} =>
                 Recovered(d).sequence = LastSequence(d["checkpoint.fst"])
  BY DEF Recovered

LEMMA FilesApart == "state.log" \in Path /\ "checkpoint.fst" \in Path /\ "state.log" # "checkpoint.fst"
  BY DEF Path

\* append_file behind the log its bytes were made for.
LEMMA AppendedWhole ==
    ASSUME DurableInd, Appending, Digests, AppendToLog(TailBytes)
    PROVE  /\ ~Diagnosed(disk'["state.log"])
           /\ Recovered(disk').mutations = Recovered(disk).mutations \cup MutationsOf(call.recs)
           /\ Len(call.recs) # 0 => Recovered(disk').sequence = call.seq
<1>0. /\ AtomicInd /\ SoundDisk(disk, issued) /\ call.op = "append" /\ pc = "append"
      /\ call.bytes = disk["state.log"] /\ ~Diagnosed(call.bytes)
  BY DEF DurableInd, AtomicInd, Control, Appending, Fitting
<1>1. /\ IsSeq(call.recs) /\ GoodRecords(call.recs, issued) /\ Len(call.recs) \in Nat
  BY <1>0, CallIsGood, SeqLen DEF Appending
<1>2. PICK l, T : l = disk["state.log"] /\ T = Transaction(l, call.txn, call.seq, call.recs)
  OBVIOUS
<1>3. IsSeq(l) /\ ~Diagnosed(l) /\ DOMAIN disk = Path /\ Len(l) \in Nat
  BY <1>0, <1>2, FilesApart, SeqLen DEF SoundDisk, Sound
<1>4. TailBytes = TailOf(l, call.txn, call.seq, call.recs)
  BY <1>0, <1>2 DEF TailBytes, TailOf
<1>5. l \o TailBytes = T
  BY <1>1, <1>2, <1>3, <1>4, TackedOnBase
<1>6. disk'["state.log"] = T /\ disk'["checkpoint.fst"] = disk["checkpoint.fst"]
  <2>1. disk' = [disk EXCEPT !["state.log"] = T]
    BY <1>2, <1>5 DEF AppendToLog
  <2> QED  BY <2>1, <1>3, FilesApart
<1>7. ~Diagnosed(T)
  BY <1>1, <1>2, <1>3, TransactionCommits, GoodIsData
<1>8. /\ MutationsIn(T) = MutationsIn(l) \cup MutationsOf(call.recs)
      /\ LastSequence(T) = call.seq
      /\ CommittedPositions(T) =
            CommittedPositions(l) \cup (Len(l) + 2)..(Len(l) + Len(call.recs) + 1)
  <2>1. PICK t, q, r : t = call.txn /\ q = call.seq /\ r = call.recs
    OBVIOUS
  <2>2. T = Transaction(l, t, q, r) /\ GoodRecords(r, issued)
    BY <2>1, <1>1, <1>2
  <2>3. /\ MutationsIn(T) = MutationsIn(l) \cup MutationsOf(r)
        /\ LastSequence(T) = q
        /\ CommittedPositions(T) = CommittedPositions(l) \cup (Len(l) + 2)..(Len(l) + Len(r) + 1)
    BY <2>2, <1>3, TransactionAdds
  <2> QED  BY <2>1, <2>3
<1>9. Recovered(disk').mutations = Recovered(disk).mutations \cup MutationsOf(call.recs)
  BY <1>2, <1>6, <1>8, RecoveredFields
<1>10. Len(call.recs) # 0 => Recovered(disk').sequence = call.seq
  <2>1. Len(call.recs) # 0 => Len(l) + 2 \in (Len(l) + 2)..(Len(l) + Len(call.recs) + 1)
    BY <1>1, <1>3
  <2>2. Len(call.recs) # 0 => CommittedPositions(T) # {}
    BY <1>8, <2>1
  <2> QED  BY <2>2, <1>6, <1>8, RecoveredFields
<1> QED  BY <1>6, <1>7, <1>9, <1>10

\* A write that is cut short changes nothing that recover() finds.
LEMMA AppendedPart ==
    ASSUME AtomicInd, Appending, NEW part \in PartOf(TailBytes), AppendToLog(part)
    PROVE  Recovered(disk') = Recovered(disk)
<1>1. call.op = "append" /\ pc = "append"
  BY DEF AtomicInd, Control, Appending
<1>2. /\ IsSeq(call.recs) /\ GoodRecords(call.recs, issued) /\ IsSeq(call.bytes)
      /\ SoundDisk(disk, issued)
  BY <1>1, CallIsGood DEF Appending, AtomicInd, Sound
<1>3. PICK l, m : l = disk["state.log"] /\ m = l \o part
  OBVIOUS
<1>4. IsSeq(l) /\ DOMAIN disk = Path /\ DataRecords(call.recs)
  BY <1>2, <1>3, FilesApart, GoodIsData DEF SoundDisk, Sound
<1>5. TailBytes = TailOf(call.bytes, call.txn, call.seq, call.recs)
  BY DEF TailBytes, TailOf
<1>6. Joined(m, l, part)
  BY <1>3 DEF Joined
<1>7. Tacked(m, l) /\ \A k \in (Len(l) + 1)..Len(m) : ~IsCommit(m[k])
  BY <1>2, <1>4, <1>5, <1>6, PartTacked
<1>8. /\ CommittedPositions(m) = CommittedPositions(l) /\ MutationsIn(m) = MutationsIn(l)
      /\ LastSequence(m) = LastSequence(l)
  BY <1>7, PartCommits
<1>9. disk'["state.log"] = m /\ disk'["checkpoint.fst"] = disk["checkpoint.fst"]
  BY <1>3, <1>4, FilesApart DEF AppendToLog
<1> QED  BY <1>3, <1>8, <1>9 DEF Recovered

\* Nor does replacing the log by the compacted one.
LEMMA ReplacedClean ==
    ASSUME NEW d, NEW h, SoundDisk(d, h), Digests, NEW e,
           e = [d EXCEPT !["state.log"] = CleanLogBytes(d["state.log"])]
    PROVE  Recovered(e) = Recovered(d)
<1>1. Sound(d["state.log"], h) /\ DOMAIN d = Path
  BY FilesApart DEF SoundDisk
<1>2. PICK l, m : l = d["state.log"] /\ m = CleanLogBytes(l)
  OBVIOUS
<1>3. /\ MutationsIn(m) = MutationsIn(l)
      /\ CommittedPositions(m) = {} <=> CommittedPositions(l) = {}
      /\ CommittedPositions(l) # {} => LastSequence(m) = LastSequence(l)
  BY <1>1, <1>2, CleanIs
<1>4. e["state.log"] = m /\ e["checkpoint.fst"] = d["checkpoint.fst"]
  BY <1>1, <1>2, FilesApart
<1> QED  BY <1>2, <1>3, <1>4 DEF Recovered

\* The checkpoint file holds all the caller knows.
LEMMA CheckpointIs ==
    ASSUME AtomicInd, Digests, NEW seq
    PROVE  /\ MutationsIn(CheckpointBytes(seq)) = mem.mutations
           /\ LastSequence(CheckpointBytes(seq)) = seq
<1>1. PICK recs, T : /\ recs = <<CheckpointCell(mem.mutations)>>
                     /\ T = Transaction(<<>>, kCompactionTxnId, seq, recs)
  OBVIOUS
<1>2. GoodRecords(recs, issued) /\ MutationsOf(recs) = mem.mutations
  BY <1>1, CheckpointRecord
<1>3. IsSeq(<<>>) /\ ~Diagnosed(<<>>) /\ MutationsIn(<<>>) = {}
  BY SeqShort, EmptyIsClean
<1>4. MutationsIn(T) = MutationsIn(<<>>) \cup MutationsOf(recs) /\ LastSequence(T) = seq
  BY <1>1, <1>2, <1>3, TransactionAdds
<1> QED  BY <1>1, <1>2, <1>3, <1>4 DEF CheckpointBytes

\* A call that fails: what recover() finds is what it was.
LEMMA ErrorDurable ==
    ASSUME DurableInd, AtomicInd', pc # "down", ReturnError,
           Recovered(disk').mutations = Recovered(disk).mutations
    PROVE  DurableInd'
<1>1. pc' = "idle" /\ mem' = mem /\ acked' = acked
  BY DEF ReturnError
<1>2. Fitting'
  BY <1>1 DEF Fitting
<1>3. UpToDate'
  BY <1>1 DEF DurableInd, UpToDate
<1> QED  BY <1>2, <1>3 DEF DurableInd

\* A call that succeeds: recover() finds what was there and its records.
LEMMA OkDurable ==
    ASSUME DurableInd, AtomicInd', pc # "down", ReturnOk,
           Recovered(disk').mutations = Recovered(disk).mutations \cup MutationsOf(call.recs)
    PROVE  DurableInd'
<1>1. /\ pc' = "idle" /\ mem'.mutations = mem.mutations \cup MutationsOf(call.recs)
      /\ acked' = acked \cup MutationsOf(call.recs)
  BY DEF ReturnOk
<1>2. Fitting'
  BY <1>1 DEF Fitting
<1>3. UpToDate'
  BY <1>1 DEF DurableInd, UpToDate
<1> QED  BY <1>2, <1>3 DEF DurableInd

\* append_transaction reads the log: it is clean, or it will be replaced.
LEMMA BeginDurable ==
    ASSUME DurableInd, AtomicInd', Digests, AppendTransaction
    PROVE  DurableInd'
<1>1. PICK clean :
          /\ clean = CleanLogBytes(disk["state.log"])
          /\ pc = "idle"
          /\ call'.op = "append" /\ call'.bytes = clean
          /\ \/ /\ Len(clean) # Len(disk["state.log"])
                /\ pc' = "replace" /\ job' = [path |-> "state.log", bytes |-> clean]
             \/ Len(clean) = Len(disk["state.log"]) /\ pc' = "append"
          /\ UNCHANGED <<disk, mem, acked>>
  BY DEF AppendTransaction, BeginAppend, MustReplace
<1>2. Sound(disk["state.log"], issued) /\ IsSeq(disk["state.log"])
  BY FilesApart DEF DurableInd, AtomicInd, SoundDisk, Sound
<1>3. ~Diagnosed(clean)
  BY <1>1, <1>2, CleanIs
<1>4. Len(clean) = Len(disk["state.log"]) => clean = disk["state.log"]
  BY <1>1, <1>2, CleanShorter
<1>5. Fitting'
  <2>1. CASE pc' = "replace"
    <3>1. job'.path = "state.log" /\ job'.bytes = clean
      BY <1>1, <2>1
    <3> QED  BY <1>1, <2>1, <3>1 DEF Fitting
  <2>2. CASE pc' = "append"
    BY <1>1, <1>3, <1>4, <2>2 DEF Fitting
  <2> QED  BY <1>1, <2>1, <2>2
<1>6. UpToDate'
  BY <1>1 DEF DurableInd, UpToDate
<1> QED  BY <1>5, <1>6 DEF DurableInd

\* replace_file: the compacted log, the checkpoint, then the empty log.
LEMMA ReplaceDurable ==
    ASSUME DurableInd, AtomicInd', Digests, ReplaceFile
    PROVE  DurableInd'
<1>0. /\ AtomicInd /\ Fitting /\ UpToDate /\ SoundDisk(disk, issued) /\ DOMAIN disk = Path
      /\ pc = "replace" /\ mem.mutations = Recovered(disk).mutations
  BY DEF DurableInd, AtomicInd, SoundDisk, ReplaceFile, UpToDate
<1>1. disk' = [disk EXCEPT ![job.path] = job.bytes] /\ AfterReplace
  BY DEF ReplaceFile
<1>2. CASE call.op = "append"
  <2>1. /\ pc' = "append" /\ UNCHANGED <<call, mem, acked, issued, checkpoints>>
    BY <1>0, <1>1, <1>2, AfterReplaceIs
  <2>2. /\ job.path = "state.log" /\ job.bytes = call.bytes
        /\ call.bytes = CleanLogBytes(disk["state.log"])
    BY <1>0, <1>2 DEF Fitting
  <2>3. disk' = [disk EXCEPT !["state.log"] = CleanLogBytes(disk["state.log"])]
    BY <1>1, <2>2
  <2>4. Recovered(disk') = Recovered(disk)
    BY <1>0, <2>3, ReplacedClean
  <2>5. disk'["state.log"] = call.bytes
    BY <1>0, <1>1, <2>2, FilesApart
  <2>6. ~Diagnosed(call.bytes)
    BY <1>0, <2>2, CleanIs, FilesApart DEF SoundDisk
  <2>7. Fitting'
    BY <2>1, <2>5, <2>6 DEF Fitting
  <2>8. UpToDate'
    BY <1>0, <2>1, <2>4 DEF UpToDate
  <2> QED  BY <2>7, <2>8 DEF DurableInd
<1>3. CASE call.op = "checkpoint" /\ job.path = "checkpoint.fst"
  <2>1. /\ pc' = "replace" /\ job' = [path |-> "state.log", bytes |-> <<>>]
        /\ UNCHANGED <<call, mem, acked, issued, checkpoints>>
    BY <1>0, <1>1, <1>3, AfterReplaceIs
  <2>2. job.bytes = CheckpointBytes(call.seq)
    BY <1>0, <1>3, FilesApart DEF Fitting
  <2>3. disk'["checkpoint.fst"] = job.bytes /\ disk'["state.log"] = disk["state.log"]
    BY <1>0, <1>1, <1>3, FilesApart
  <2>4. MutationsIn(disk'["checkpoint.fst"]) = mem.mutations
    BY <1>0, <2>2, <2>3, CheckpointIs
  <2>5. Recovered(disk').mutations = mem.mutations
    <3>1. /\ Recovered(disk').mutations = mem.mutations \cup MutationsIn(disk["state.log"])
          /\ MutationsIn(disk["state.log"]) \subseteq Recovered(disk).mutations
      BY <2>3, <2>4, RecoveredFields
    <3> QED  BY <3>1, <1>0
  <2>6. Fitting'
    <3>1. job'.path = "state.log" /\ job'.bytes = <<>>
      BY <2>1
    <3> QED  BY <1>3, <2>1, <2>4, <3>1 DEF Fitting
  <2>7. UpToDate'
    BY <1>0, <2>1, <2>5 DEF UpToDate
  <2> QED  BY <2>6, <2>7 DEF DurableInd
<1>4. CASE call.op = "checkpoint" /\ job.path = "state.log"
  <2>1. ReturnOk
    BY <1>0, <1>1, <1>4, AfterReplaceIs, FilesApart
  <2>2. job.bytes = <<>> /\ MutationsIn(disk["checkpoint.fst"]) = mem.mutations
    BY <1>0, <1>4, FilesApart DEF Fitting
  <2>3. disk'["state.log"] = <<>> /\ disk'["checkpoint.fst"] = disk["checkpoint.fst"]
    BY <1>0, <1>1, <1>4, <2>2, FilesApart
  <2>4. Recovered(disk').mutations = Recovered(disk).mutations
    <3>1. Recovered(disk').mutations = mem.mutations \cup {}
      BY <2>2, <2>3, RecoveredFields, EmptyIsClean
    <3> QED  BY <3>1, <1>0
  <2>5. MutationsOf(call.recs) = {}
    <3>1. call.recs = <<>> /\ 1..0 = {}
      BY <1>0, <1>4 DEF AtomicInd, CallRecords
    <3> QED  BY <3>1, SeqShort DEF MutationsOf
  <2>6. Recovered(disk').mutations = Recovered(disk).mutations \cup MutationsOf(call.recs)
    BY <2>4, <2>5
  <2> QED  BY <1>0, <2>1, <2>6, OkDurable
<1>5. call.op \in {"append", "checkpoint"} /\ job.path \in {"state.log", "checkpoint.fst"}
  BY <1>0 DEF AtomicInd, Control, Path
<1> QED  BY <1>2, <1>3, <1>4, <1>5

LEMMA DurableInit == Init => DurableInd
<1> SUFFICES ASSUME Init PROVE DurableInd
  OBVIOUS
<1>1. Fitting /\ UpToDate
  BY DEF Init, Fitting, UpToDate
<1> QED  BY <1>1, AtomicInit DEF DurableInd

LEMMA DurableNext ==
    ASSUME FileErrorsOnly, Digests
    PROVE  DurableInd /\ [Next]_vars => DurableInd'
<1> SUFFICES ASSUME DurableInd, [Next]_vars PROVE DurableInd'
  OBVIOUS
<1>0. /\ AtomicInd /\ AtomicInd' /\ Fitting /\ UpToDate /\ pc # "retry"
      /\ ~Fault("stat") /\ ~Fault("rename") /\ ~Fault("writer")
  <2>1. AtomicInd'
    BY AtomicNext DEF DurableInd
  <2>2. ~Fault("stat") /\ ~Fault("rename") /\ ~Fault("writer")
    BY DEF Fault, FileErrorsOnly
  <2> QED  BY <2>1, <2>2 DEF DurableInd, Fitting
<1>1. CASE AppendTransaction
  BY <1>0, <1>1, BeginDurable
<1>2. CASE RejectReserved
  <2>1. disk' = disk /\ ReturnError /\ pc # "down"
    BY <1>2 DEF RejectReserved
  <2> QED  BY <1>0, <2>1, ErrorDurable
<1>3. CASE AppendFile
  <2>1. Appending /\ AppendToLog(TailBytes) /\ ReturnOk /\ pc # "down"
    BY <1>3 DEF AppendFile, Appending
  <2> QED  BY <1>0, <2>1, AppendedWhole, OkDurable
<1>4. CASE AppendFileError
  <2>1. PICK part \in PartOf(TailBytes) : Appending /\ AppendToLog(part) /\ ReturnError /\ pc # "down"
    BY <1>4 DEF AppendFileError, Appending
  <2>2. Recovered(disk') = Recovered(disk)
    BY <1>0, <2>1, AppendedPart
  <2> QED  BY <1>0, <2>1, <2>2, ErrorDurable
<1>5. CASE ReplaceFile
  BY <1>0, <1>5, ReplaceDurable
<1>6. CASE ReplaceFileError
  <2>1. disk' = disk /\ ReturnError /\ pc # "down"
    BY <1>6 DEF ReplaceFileError
  <2> QED  BY <1>0, <2>1, ErrorDurable
<1>7. CASE Checkpoint
  <2>1. /\ pc = "idle" /\ pc' = "replace" /\ UNCHANGED <<disk, mem, acked>>
        /\ call' = [NoCall EXCEPT !.op = "checkpoint", !.seq = mem.sequence + CheckpointStep]
        /\ job' = [path  |-> "checkpoint.fst",
                   bytes |-> CheckpointBytes(mem.sequence + CheckpointStep)]
    BY <1>7 DEF Checkpoint
  <2>2. /\ call'.op = "checkpoint" /\ call'.seq = mem.sequence + CheckpointStep
        /\ job'.path = "checkpoint.fst" /\ job'.bytes = CheckpointBytes(call'.seq)
    BY <2>1 DEF NoCall
  <2>3. CheckpointBytes(call.seq)' = CheckpointBytes(call'.seq)
    BY <2>1 DEF CheckpointBytes
  <2>4. Fitting'
    BY <2>1, <2>2, <2>3 DEF Fitting
  <2>5. UpToDate'
    BY <1>0, <2>1 DEF UpToDate
  <2> QED  BY <1>0, <2>4, <2>5 DEF DurableInd
<1>8. CASE Recover
  <2>1. pc' = "idle" /\ mem' = Recovered(disk) /\ UNCHANGED <<disk, acked>>
    BY <1>8 DEF Recover, RecoverFrom
  <2>2. Fitting' /\ UpToDate'
    BY <1>0, <2>1 DEF Fitting, UpToDate
  <2> QED  BY <1>0, <2>2 DEF DurableInd
<1>9. CASE Crash
  <2>1. pc' = "down" /\ acked' = acked
    BY <1>9 DEF Crash
  <2>2. Recovered(disk).mutations \subseteq Recovered(disk').mutations
    <3>1. CASE ~Appending
      BY <1>9, <3>1 DEF Crash
    <3>2. CASE Appending /\ AppendToLog(TailBytes)
      BY <3>2, AppendedWhole
    <3>3. ASSUME NEW part \in PartOf(TailBytes), Appending, AppendToLog(part)
          PROVE  Recovered(disk').mutations = Recovered(disk).mutations
      BY <1>0, <3>3, AppendedPart
    <3> QED  BY <1>9, <3>1, <3>2, <3>3 DEF Crash
  <2>3. Fitting' /\ UpToDate'
    BY <1>0, <2>1, <2>2 DEF Fitting, UpToDate
  <2> QED  BY <1>0, <2>3 DEF DurableInd
<1>10. CASE UNCHANGED vars
  <2>1. CheckpointBytes(call.seq)' = CheckpointBytes(call.seq)
    BY <1>10 DEF CheckpointBytes, vars
  <2>2. Fitting'
    BY <1>0, <1>10, <2>1 DEF vars, Fitting
  <2> QED  BY <1>0, <1>10, <2>2 DEF vars, DurableInd, UpToDate
<1>11. ~AppendTransactionStatError /\ ~RenameError /\ ~RecoverStatError /\ ~OtherAppends
  BY <1>0 DEF AppendTransactionStatError, RenameError, RecoverStatError, OtherAppends
<1>12. ~RenameAgain /\ ~RenameAgainError
  BY <1>0 DEF RenameAgain, RenameAgainError
<1> QED  BY <1>1, <1>2, <1>3, <1>4, <1>5, <1>6, <1>7, <1>8, <1>9, <1>10, <1>11, <1>12 DEF Next

LEMMA DurableAlways ==
    ASSUME FileErrorsOnly, Digests
    PROVE  Spec => []DurableInd
<1>1. DurableInd /\ [Next]_vars => DurableInd'
  BY DurableNext
<1> QED  BY <1>1, DurableInit, PTL DEF Spec

\* When the file system fails only by refusing or cutting short a write, and
\* the process by dying anywhere, recover() finds whatever append_transaction
\* reported written.
THEOREM AcknowledgedIsDurable ==
    ASSUME FileErrorsOnly, Digests
    PROVE  Spec => []AckedDurable
<1>1. DurableInd => AckedDurable
  BY DEF DurableInd, UpToDate, AckedDurable
<1> QED  BY <1>1, DurableAlways, PTL

\* Under the same faults append_file never writes behind a file other than the
\* one its digest covers: comparing sizes in append_transaction is enough.
THEOREM AppendsToItsBase ==
    ASSUME FileErrorsOnly, Digests
    PROVE  Spec => []StoreInvariant
<1>1. DurableInd => BaseOnDisk
  BY DEF DurableInd, Fitting, BaseOnDisk
<1> QED  BY <1>1, DurableAlways, StoreTypes, PTL DEF StoreInvariant

\* An append that is acknowledged leaves a log without anything for recover_log
\* to report, whatever interrupted appends left behind before it.
THEOREM AcknowledgedAppendHeals ==
    ASSUME FileErrorsOnly, Digests
    PROVE  Spec => AckedAppendHeals
<1>1. DurableInd /\ [Next]_vars => [acked' # acked => ~Diagnosed(disk["state.log"]')]_vars
  <2> SUFFICES ASSUME DurableInd, Next, acked' # acked
               PROVE  ~Diagnosed(disk["state.log"]')
    OBVIOUS
  <2>1. AppendFile
    <3>1. \/ AppendFile \/ ReplaceFile \/ RenameAgain
      BY DEF Next, AppendTransaction, AppendTransactionStatError, BeginAppend, RejectReserved,
             AppendFileError, ReplaceFileError, RenameError, RenameAgainError, Checkpoint,
             Recover, RecoverStatError, RecoverFrom, OtherAppends, Crash, ReturnError
    <3>2. ASSUME ReplaceFile \/ RenameAgain PROVE acked' = acked
      <4>1. AfterReplace /\ AtomicInd /\ pc \in {"replace", "retry"}
        BY <3>2 DEF ReplaceFile, RenameAgain, DurableInd
      <4>2. CASE call.op = "checkpoint" /\ ReturnOk
        <5>1. call.recs = <<>> /\ 1..0 = {}
          BY <4>1, <4>2 DEF AtomicInd, CallRecords
        <5>2. MutationsOf(call.recs) = {}
          BY <5>1, SeqShort DEF MutationsOf
        <5> QED  BY <4>2, <5>2 DEF ReturnOk
      <4> QED  BY <4>1, <4>2, AfterReplaceIs
    <3> QED  BY <3>1, <3>2
  <2>2. Appending /\ AppendToLog(TailBytes)
    BY <2>1 DEF AppendFile
  <2> QED  BY <2>2, AppendedWhole
<1> QED  BY <1>1, DurableAlways, PTL DEF Spec, AckedAppendHeals

-----------------------------------------------------------------------------
(***************************************************************************)
(* The store implements DurableState, when a transaction has a record at   *)
(* least and a checkpoint is taken at the sequence the state has.          *)
(***************************************************************************)
Numbered == MinBatch > 0 /\ CheckpointStep = 0

\* The caller knows the sequence recover() would return, and numbers by it.
Sequenced ==
    /\ pc # "down" => mem.sequence = Recovered(disk).sequence
    /\ call.op = "append" => call.seq = mem.sequence + 1
    /\ call.op = "checkpoint" => call.seq = mem.sequence
    /\ pc = "replace" /\ call.op = "checkpoint" /\ job.path = "state.log" =>
          LastSequence(disk["checkpoint.fst"]) = mem.sequence

SequencedInd == DurableInd /\ Sequenced

\* A transaction that is appended has a mutation.
LEMMA AppendingSomething ==
    ASSUME AtomicInd, Appending, Numbered
    PROVE  Len(call.recs) # 0 /\ MutationsOf(call.recs) # {}
<1>1. call.op = "append" /\ MinBatch \in Nat /\ MaxBatch \in Nat
  BY StoreAssumption DEF Appending, AtomicInd, Control
<1>2. call.txn \in Nat \ {0} /\ call.recs \in Batches(call.txn)
  BY <1>1, CallIsGood DEF AtomicInd, CallRecords
<1>3. PICK t, recs : t = call.txn /\ recs = call.recs
  OBVIOUS
<1>4. \A k \in 1..Len(recs) : IsData(recs[k])
  BY <1>3 DEF Appending
<1>5. recs # <<BeginCell(t, 0)>>
  <2> SUFFICES ASSUME recs = <<BeginCell(t, 0)>> PROVE FALSE
    OBVIOUS
  <2>1. Len(recs) = 1 /\ recs[1] = BeginCell(t, 0)
    BY SeqShort
  <2>2. IsData(recs[1])
    BY <1>4, <2>1
  <2> QED  BY <2>1, <2>2 DEF IsData, IsBegin, BeginCell
<1>6. /\ \A k \in 1..Len(recs) : recs[k] = DeltaCell(t, k) /\ k \in 1..MaxBatch
      /\ Len(recs) \in MinBatch..MaxBatch
  BY <1>2, <1>3, <1>5, BatchIs
<1>7. Len(recs) # 0 /\ 1 \in 1..Len(recs)
  BY <1>1, <1>6 DEF Numbered
<1>8. IsData(recs[1]) /\ <<t, 1>> \in recs[1].payload
  <2>1. recs[1] = DeltaCell(t, 1) /\ IsData(recs[1])
    BY <1>4, <1>6, <1>7
  <2>2. DeltaCell(t, 1).payload = {<<t, 1>>}
    BY DEF DeltaCell
  <2> QED  BY <2>1, <2>2
<1>9. <<t, 1>> \in MutationsOf(recs)
  BY <1>7, <1>8 DEF MutationsOf
<1> QED  BY <1>3, <1>7, <1>9

LEMMA ReplaceSequenced ==
    ASSUME SequencedInd, Digests, ReplaceFile
    PROVE  Sequenced'
<1>0. /\ AtomicInd /\ Fitting /\ Sequenced /\ SoundDisk(disk, issued) /\ DOMAIN disk = Path
      /\ pc = "replace" /\ mem.sequence = Recovered(disk).sequence
  BY DEF SequencedInd, DurableInd, AtomicInd, SoundDisk, ReplaceFile, Sequenced
<1>1. disk' = [disk EXCEPT ![job.path] = job.bytes] /\ AfterReplace
  BY DEF ReplaceFile
<1>2. CASE call.op = "append"
  <2>1. /\ pc' = "append" /\ UNCHANGED <<call, mem, acked, issued, checkpoints>>
    BY <1>0, <1>1, <1>2, AfterReplaceIs
  <2>2. /\ job.path = "state.log" /\ job.bytes = call.bytes
        /\ call.bytes = CleanLogBytes(disk["state.log"])
    BY <1>0, <1>2 DEF Fitting
  <2>3. disk' = [disk EXCEPT !["state.log"] = CleanLogBytes(disk["state.log"])]
    BY <1>1, <2>2
  <2>4. Recovered(disk') = Recovered(disk)
    BY <1>0, <2>3, ReplacedClean
  <2> QED  BY <1>0, <1>2, <2>1, <2>4 DEF Sequenced
<1>3. CASE call.op = "checkpoint" /\ job.path = "checkpoint.fst"
  <2>1. /\ pc' = "replace" /\ UNCHANGED <<call, mem, acked, issued, checkpoints>>
    BY <1>0, <1>1, <1>3, AfterReplaceIs
  <2>2. job.bytes = CheckpointBytes(call.seq) /\ call.seq = mem.sequence
    BY <1>0, <1>3, FilesApart DEF Fitting, Sequenced
  <2>3. disk'["checkpoint.fst"] = job.bytes /\ disk'["state.log"] = disk["state.log"]
    BY <1>0, <1>1, <1>3, FilesApart
  <2>4. LastSequence(disk'["checkpoint.fst"]) = mem.sequence
    BY <1>0, <2>2, <2>3, CheckpointIs
  <2>5. Recovered(disk').sequence = mem.sequence
    BY <1>0, <2>3, <2>4, RecoveredFields
  <2> QED  BY <1>0, <1>3, <2>1, <2>4, <2>5 DEF Sequenced
<1>4. CASE call.op = "checkpoint" /\ job.path = "state.log"
  <2>1. ReturnOk
    BY <1>0, <1>1, <1>4, AfterReplaceIs, FilesApart
  <2>2. job.bytes = <<>> /\ LastSequence(disk["checkpoint.fst"]) = mem.sequence
        /\ call.seq = mem.sequence
    BY <1>0, <1>4, FilesApart DEF Fitting, Sequenced
  <2>3. disk'["state.log"] = <<>> /\ disk'["checkpoint.fst"] = disk["checkpoint.fst"]
    BY <1>0, <1>1, <1>4, <2>2, FilesApart
  <2>4. CommittedPositions(<<>>) = {}
    BY EmptyIsClean DEF CommittedPositions
  <2>5. Recovered(disk').sequence = mem.sequence
    BY <2>2, <2>3, <2>4, RecoveredFields
  <2>6. mem'.sequence = call.seq /\ call'.op = "none"
    BY <2>1 DEF ReturnOk, NoCall
  <2> QED  BY <2>2, <2>5, <2>6 DEF Sequenced
<1>5. call.op \in {"append", "checkpoint"} /\ job.path \in {"state.log", "checkpoint.fst"}
  BY <1>0 DEF AtomicInd, Control, Path
<1> QED  BY <1>2, <1>3, <1>4, <1>5

\* A step that returns an error, or in which the process dies.
LEMMA ReturnedSequenced ==
    ASSUME Sequenced, pc # "down", call' = NoCall,
           pc' = "down" \/ (mem' = mem /\ Recovered(disk').sequence = Recovered(disk).sequence)
    PROVE  Sequenced'
<1>1. call'.op = "none"
  BY DEF NoCall
<1> QED  BY <1>1 DEF Sequenced

LEMMA SequencedNext ==
    ASSUME FileErrorsOnly, Digests, Numbered
    PROVE  SequencedInd /\ [Next]_vars => SequencedInd'
<1> SUFFICES ASSUME SequencedInd, [Next]_vars PROVE Sequenced'
  BY DurableNext DEF SequencedInd
<1>0. /\ DurableInd /\ AtomicInd /\ Sequenced /\ pc # "retry"
      /\ ~Fault("stat") /\ ~Fault("rename") /\ ~Fault("writer")
      /\ mem.sequence \in Nat
  <2>1. ~Fault("stat") /\ ~Fault("rename") /\ ~Fault("writer")
    BY DEF Fault, FileErrorsOnly
  <2> QED  BY <2>1 DEF SequencedInd, DurableInd, Fitting, AtomicInd, Knowledge
<1>1. CASE AppendTransaction
  <2>1. /\ pc = "idle" /\ call'.op = "append" /\ call'.seq = mem.sequence + 1
        /\ UNCHANGED <<disk, mem>>
    BY <1>1 DEF AppendTransaction, BeginAppend
  <2> QED  BY <1>0, <2>1 DEF Sequenced
<1>2. CASE RejectReserved \/ ReplaceFileError
  <2>1. disk' = disk /\ pc # "down" /\ call' = NoCall /\ mem' = mem
    BY <1>2 DEF RejectReserved, ReplaceFileError, ReturnError
  <2> QED  BY <1>0, <2>1, ReturnedSequenced
<1>3. CASE AppendFile
  <2>1. Appending /\ AppendToLog(TailBytes)
    BY <1>3 DEF AppendFile
  <2>2. Recovered(disk').sequence = call.seq
    BY <1>0, <2>1, AppendedWhole, AppendingSomething
  <2>3. mem'.sequence = call.seq /\ call'.op = "none"
    BY <1>3 DEF AppendFile, ReturnOk, NoCall
  <2> QED  BY <2>2, <2>3 DEF Sequenced
<1>4. CASE AppendFileError
  <2>1. PICK part \in PartOf(TailBytes) : Appending /\ AppendToLog(part)
    BY <1>4 DEF AppendFileError
  <2>2. Recovered(disk') = Recovered(disk)
    BY <1>0, <2>1, AppendedPart
  <2>3. pc # "down" /\ call' = NoCall /\ mem' = mem
    BY <1>4 DEF AppendFileError, Appending, ReturnError
  <2> QED  BY <1>0, <2>2, <2>3, ReturnedSequenced
<1>5. CASE ReplaceFile
  BY <1>5, ReplaceSequenced
<1>7. CASE Checkpoint
  <2>1. /\ pc = "idle" /\ pc' = "replace" /\ UNCHANGED <<disk, mem, acked>>
        /\ call' = [NoCall EXCEPT !.op = "checkpoint", !.seq = mem.sequence + CheckpointStep]
        /\ job' = [path  |-> "checkpoint.fst",
                   bytes |-> CheckpointBytes(mem.sequence + CheckpointStep)]
    BY <1>7 DEF Checkpoint
  <2>2. call'.op = "checkpoint" /\ call'.seq = mem.sequence + CheckpointStep
    BY <2>1 DEF NoCall
  <2>3. call'.seq = mem.sequence
    BY <1>0, <2>2 DEF Numbered
  <2>4. job'.path # "state.log"
    BY <2>1
  <2> QED  BY <1>0, <2>1, <2>2, <2>3, <2>4 DEF Sequenced
<1>8. CASE Recover
  <2>1. pc = "down" /\ pc' = "idle" /\ mem' = Recovered(disk) /\ UNCHANGED <<disk, call>>
    BY <1>8 DEF Recover, RecoverFrom
  <2>2. call.op = "none"
    BY <1>0, <2>1 DEF AtomicInd, Control
  <2> QED  BY <2>1, <2>2 DEF Sequenced
<1>9. CASE Crash
  <2>1. pc' = "down" /\ call' = NoCall /\ pc # "down"
    BY <1>9 DEF Crash
  <2> QED  BY <1>0, <2>1, ReturnedSequenced
<1>10. CASE UNCHANGED vars
  BY <1>0, <1>10 DEF vars, Sequenced
<1>11. ~AppendTransactionStatError /\ ~RenameError /\ ~RecoverStatError /\ ~OtherAppends
  BY <1>0 DEF AppendTransactionStatError, RenameError, RecoverStatError, OtherAppends
<1>12. ~RenameAgain /\ ~RenameAgainError
  BY <1>0 DEF RenameAgain, RenameAgainError
<1> QED  BY <1>1, <1>2, <1>3, <1>4, <1>5, <1>7, <1>8, <1>9, <1>10, <1>11, <1>12 DEF Next

LEMMA SequencedInit == Init => SequencedInd
<1>1. Init => Sequenced
  BY DEF Init, Sequenced, NoCall
<1> QED  BY <1>1, DurableInit DEF SequencedInd

-----------------------------------------------------------------------------
\* The transaction append_transaction is working on.
Pending == IF call.op = "append" THEN MutationsOf(call.recs) ELSE {}

\* Nothing of the abstract store changes, or its pending transaction is given up.
LEMMA NothingOrAbandoned ==
    ASSUME Recovered(disk').mutations = Recovered(disk).mutations,
           Recovered(disk').sequence = Recovered(disk).sequence, acked' = acked,
           Pending' = Pending \/ Pending' = {}
    PROVE  [Durable!Next]_(Durable!vars)
  BY DEF Durable!Next, Durable!vars, Durable!Abandon, Pending

\* The whole of the pending transaction becomes durable.
LEMMA Published ==
    ASSUME SequencedInd, Numbered, Appending, Digests, AppendToLog(TailBytes), call' = NoCall
    PROVE  Durable!Publish
<1>1. DurableInd /\ AtomicInd /\ Sequenced /\ call.op = "append" /\ pc = "append"
  BY DEF SequencedInd, DurableInd, Appending, AtomicInd, Control
<1>2. Len(call.recs) # 0 /\ MutationsOf(call.recs) # {}
  BY <1>1, AppendingSomething
<1>3. /\ Recovered(disk').mutations = Recovered(disk).mutations \cup MutationsOf(call.recs)
      /\ Recovered(disk').sequence = call.seq
  BY <1>1, <1>2, AppendedWhole
<1>4. call.seq = mem.sequence + 1 /\ mem.sequence = Recovered(disk).sequence /\ call'.op = "none"
  BY <1>1 DEF Sequenced, NoCall
<1>5. Recovered(disk').sequence = Recovered(disk).sequence + 1
  BY <1>3, <1>4
<1>6. Recovered(disk)' = Recovered(disk')
  BY DEF Recovered
<1> QED  BY <1>1, <1>2, <1>3, <1>4, <1>5, <1>6 DEF Durable!Publish

\* A transaction that is handed over is a new one.
LEMMA Submitted ==
    ASSUME SequencedInd, AppendTransaction
    PROVE  Durable!Submit
<1>0. AtomicInd /\ SoundDisk(disk, issued) /\ History(issued) /\ Len(issued) \in Nat /\ MaxTxns \in Nat
  BY SeqLen, StoreAssumption DEF SequencedInd, DurableInd, AtomicInd, History
<1>1. PICK recs \in Batches(Len(issued) + 1) :
          /\ pc = "idle" /\ Len(issued) < MaxTxns
          /\ call'.op = "append" /\ call'.recs = recs /\ UNCHANGED <<disk, acked>>
  BY DEF AppendTransaction, BeginAppend
<1>2. MutationsOf(recs) \subseteq {Len(issued) + 1} \X (1..MaxBatch)
  <2>1. Len(issued) + 1 \in Nat \ {0}
    BY <1>0
  <2> QED  BY <2>1, BatchIs
<1>3. Recovered(disk).mutations \subseteq IssuedBy(issued)
  BY <1>0, RecoveredIs
<1>4. \A x \in IssuedBy(issued) : x[1] # Len(issued) + 1
  BY <1>0 DEF IssuedBy
<1>a. \A x \in MutationsOf(recs) : x[1] = Len(issued) + 1
  BY <1>2
<1>5. MutationsOf(recs) \cap Recovered(disk).mutations = {}
  BY <1>a, <1>3, <1>4, Zenon
<1>6. Len(issued) + 1 \in 1..MaxTxns
  BY <1>0, <1>1
<1>7. MutationsOf(recs) \subseteq Mutation
  BY <1>2, <1>6 DEF Mutation
<1>8. MutationsOf(recs) \in SUBSET (Mutation \ Recovered(disk).mutations)
  BY <1>5, <1>7
<1>9. call.op = "none"
  BY <1>0, <1>1 DEF AtomicInd, Control
<1> QED  BY <1>1, <1>8, <1>9 DEF Durable!Submit

\* The file operations of append_transaction and checkpoint, the failures of
\* each and the death of the process between any two of them implement a store
\* in which a transaction becomes durable in one step, moves the sequence by
\* one, and is acknowledged in that step or never.
THEOREM StoreImplementsDurableState ==
    ASSUME FileErrorsOnly, Digests, Numbered
    PROVE  Spec => ImplementsDurableState
<1>1. Init => Durable!Init
  <2> SUFFICES ASSUME Init PROVE Durable!Init
    OBVIOUS
  <2>1. disk["state.log"] = <<>> /\ disk["checkpoint.fst"] = <<>>
    BY FilesApart DEF Init
  <2>2. Committed(<<>>) = {} /\ CommittedPositions(<<>>) = {} /\ MutationsIn(<<>>) = {}
    BY EmptyIsClean DEF CommittedPositions
  <2>3. LastSequence(<<>>) = 0
    BY <2>2 DEF LastSequence
  <2>4. Recovered(disk).mutations = {} /\ Recovered(disk).sequence = 0
    BY <2>1, <2>2, <2>3, RecoveredFields
  <2>5. call.op = "none" /\ acked = {}
    BY DEF Init, NoCall
  <2> QED  BY <2>4, <2>5 DEF Durable!Init
<1>2. SequencedInd /\ SequencedInd' /\ [Next]_vars => [Durable!Next]_(Durable!vars)
  <2> SUFFICES ASSUME SequencedInd, SequencedInd', [Next]_vars
               PROVE  [Durable!Next]_(Durable!vars)
    OBVIOUS
  <2>0. /\ DurableInd /\ AtomicInd /\ Sequenced /\ UpToDate /\ UpToDate' /\ Sequenced'
        /\ pc # "retry" /\ ~Fault("stat") /\ ~Fault("rename") /\ ~Fault("writer")
    <3>1. ~Fault("stat") /\ ~Fault("rename") /\ ~Fault("writer")
      BY DEF Fault, FileErrorsOnly
    <3> QED  BY <3>1 DEF SequencedInd, DurableInd, Fitting
  <2>1. CASE AppendTransaction
    BY <2>1, Submitted DEF Durable!Next
  <2>2. CASE RejectReserved \/ ReplaceFileError
    <3>1. disk' = disk /\ call' = NoCall /\ acked' = acked
      BY <2>2 DEF RejectReserved, ReplaceFileError, ReturnError
    <3>2. Pending' = {}
      BY <3>1 DEF Pending, NoCall
    <3> QED  BY <3>1, <3>2, NothingOrAbandoned
  <2>3. CASE AppendFile
    <3>1. Appending /\ AppendToLog(TailBytes) /\ call' = NoCall
      BY <2>3 DEF AppendFile, ReturnOk
    <3>2. call.op = "append" /\ acked' = acked \cup MutationsOf(call.recs)
      BY <2>0, <2>3 DEF AppendFile, ReturnOk, AtomicInd, Control, Appending
    <3>3. Durable!Publish
      BY <3>1, Published
    <3> QED  BY <3>2, <3>3 DEF Durable!Next, Durable!Acknowledge
  <2>4. CASE AppendFileError
    <3>1. PICK part \in PartOf(TailBytes) : Appending /\ AppendToLog(part)
      BY <2>4 DEF AppendFileError
    <3>2. Recovered(disk') = Recovered(disk)
      BY <2>0, <3>1, AppendedPart
    <3>3. call' = NoCall /\ acked' = acked
      BY <2>4 DEF AppendFileError, ReturnError
    <3>4. Pending' = {}
      BY <3>3 DEF Pending, NoCall
    <3> QED  BY <3>2, <3>3, <3>4, NothingOrAbandoned
  <2>5. CASE ReplaceFile
    <3>1. pc = "replace" /\ AfterReplace
      BY <2>5 DEF ReplaceFile
    <3>2. CASE call' = call /\ mem' = mem /\ acked' = acked /\ pc' \in {"append", "replace"}
      <4>1. /\ Recovered(disk').mutations = Recovered(disk).mutations
            /\ Recovered(disk').sequence = Recovered(disk).sequence
        BY <2>0, <3>1, <3>2 DEF UpToDate, Sequenced
      <4>2. Pending' = Pending
        BY <3>2 DEF Pending
      <4> QED  BY <3>2, <4>1, <4>2, NothingOrAbandoned
    <3>3. CASE call.op = "checkpoint" /\ ReturnOk
      <4>1. call.recs = <<>> /\ 1..0 = {} /\ call.seq = mem.sequence
        BY <2>0, <3>3 DEF AtomicInd, CallRecords, Sequenced
      <4>2. MutationsOf(call.recs) = {}
        BY <4>1, SeqShort DEF MutationsOf
      <4>3. /\ pc' = "idle" /\ mem'.sequence = mem.sequence /\ mem'.mutations = mem.mutations
            /\ acked' = acked /\ call'.op = "none"
        BY <3>3, <4>1, <4>2 DEF ReturnOk, NoCall
      <4>4. /\ Recovered(disk').mutations = Recovered(disk).mutations
            /\ Recovered(disk').sequence = Recovered(disk).sequence
        BY <2>0, <3>1, <4>3 DEF UpToDate, Sequenced
      <4>5. Pending' = {}
        BY <4>3 DEF Pending
      <4> QED  BY <4>3, <4>4, <4>5, NothingOrAbandoned
    <3> QED  BY <2>0, <3>1, <3>2, <3>3, AfterReplaceIs
  <2>6. CASE Checkpoint
    <3>1. /\ pc = "idle" /\ UNCHANGED <<disk, acked>>
          /\ call' = [NoCall EXCEPT !.op = "checkpoint", !.seq = mem.sequence + CheckpointStep]
      BY <2>6 DEF Checkpoint
    <3>2. call'.op = "checkpoint"
      BY <3>1 DEF NoCall
    <3>3. Pending' = {}
      BY <3>2 DEF Pending
    <3> QED  BY <3>1, <3>3, NothingOrAbandoned
  <2>7. CASE Recover \/ UNCHANGED vars
    <3>1. UNCHANGED <<disk, call, acked>>
      BY <2>7 DEF Recover, RecoverFrom, vars
    <3>2. Pending' = Pending
      BY <3>1 DEF Pending
    <3> QED  BY <3>1, <3>2, NothingOrAbandoned
  <2>8. CASE Crash
    <3>1. call' = NoCall /\ acked' = acked
      BY <2>8 DEF Crash
    <3>2. Pending' = {}
      BY <3>1 DEF Pending, NoCall
    <3>3. CASE ~Appending
      <4>1. disk' = disk
        BY <2>8, <3>3 DEF Crash
      <4> QED  BY <3>1, <3>2, <4>1, NothingOrAbandoned
    <3>4. CASE Appending /\ AppendToLog(TailBytes)
      <4>1. Durable!Publish
        BY <3>1, <3>4, Published
      <4> QED  BY <3>1, <4>1 DEF Durable!Next, Durable!PublishUnheard
    <3>5. ASSUME NEW part \in PartOf(TailBytes), Appending, AppendToLog(part)
          PROVE  [Durable!Next]_(Durable!vars)
      <4>1. Recovered(disk') = Recovered(disk)
        BY <2>0, <3>5, AppendedPart
      <4> QED  BY <3>1, <3>2, <4>1, NothingOrAbandoned
    <3> QED  BY <2>8, <3>3, <3>4, <3>5 DEF Crash
  <2>9. ~AppendTransactionStatError /\ ~RenameError /\ ~RecoverStatError /\ ~OtherAppends
    BY <2>0 DEF AppendTransactionStatError, RenameError, RecoverStatError, OtherAppends
  <2>10. ~RenameAgain /\ ~RenameAgainError
    BY <2>0 DEF RenameAgain, RenameAgainError
  <2> QED  BY <2>1, <2>2, <2>3, <2>4, <2>5, <2>6, <2>7, <2>8, <2>9, <2>10 DEF Next
<1>3. SequencedInd /\ [Next]_vars => SequencedInd'
  BY SequencedNext
<1> QED  BY <1>1, <1>2, <1>3, SequencedInit, PTL DEF Spec, ImplementsDurableState, Durable!Spec

-----------------------------------------------------------------------------
(***************************************************************************)
(* The order of the log, under every fault.  A transaction that another    *)
(* process overtook is not committed: its digest covers the log it was     *)
(* made for, and no other log has that digest.                             *)
(***************************************************************************)
CollisionFree == \A s, t : IsSeq(s) /\ IsSeq(t) /\ Crc(s) = Crc(t) => s = t

Before(x, y) == x[1] < y[1] \/ (x[1] = y[1] /\ x[2] < y[2])
AllBefore(S, T) == \A x \in S, y \in T : Before(x, y)

InOrder(l) ==
    \A p, q \in CommittedPositions(l) : p < q => AllBefore(l[p].payload, l[q].payload)
RecordsInOrder(recs) ==
    \A j, k \in 1..Len(recs) : j < k => AllBefore(recs[j].payload, recs[k].payload)

\* The committed mutations of l are of transactions before t.
Below(l, t) == \A p \in CommittedPositions(l) : \A x \in l[p].payload : x[1] < t

LEMMA TackedPositions ==
    ASSUME NEW l, NEW m, Tacked(m, l), NEW p \in CommittedPositions(m)
    PROVE  \/ p \in CommittedPositions(l)
           \/ Commits(m, Len(l) + 1, Len(m)) /\ p \in (Len(l) + 2)..(Len(m) - 1)
<1>1. IsSeq(l) /\ IsSeq(m) /\ Len(l) \in Nat /\ Len(m) \in Nat /\ Len(l) <= Len(m)
  BY SeqLen DEF Tacked
<1>2. PICK b \in 1..Len(m), i \in 1..Len(m) : Commits(m, b, i) /\ p \in (b + 1)..(i - 1)
  BY <1>1, PositionsAre
<1>3. b \in Nat /\ i \in Nat /\ Closes(m, b, i)
  BY <1>1, <1>2 DEF Commits
<1>4. CASE i \in 1..Len(l)
  <2>1. b \in 1..Len(l)
    BY <1>1, <1>3, <1>4, CommitsBounds
  <2>2. Commits(l, b, i)
    BY <1>2, <1>3, <1>4, TackedKeeps
  <2> QED  BY <1>1, <1>2, <1>4, <2>1, <2>2, PositionsAre
<1>5. CASE i \in (Len(l) + 1)..Len(m)
  <2>1. b = Len(l) + 1 /\ i = Len(m)
    BY <1>3, <1>5, TackedCloses
  <2>2. (Len(l) + 1) + 1 = Len(l) + 2
    BY <1>1
  <2> QED  BY <1>2, <2>1, <2>2
<1> QED  BY <1>1, <1>4, <1>5

\* A log stays in order when what is committed behind it comes after it.
LEMMA InOrderTacked ==
    ASSUME NEW l, NEW m, Tacked(m, l), InOrder(l),
           Commits(m, Len(l) + 1, Len(m)) =>
              \A q \in (Len(l) + 2)..(Len(m) - 1) :
                 /\ \A p \in CommittedPositions(l) : AllBefore(l[p].payload, m[q].payload)
                 /\ \A p \in (Len(l) + 2)..(Len(m) - 1) :
                       p < q => AllBefore(m[p].payload, m[q].payload)
    PROVE  InOrder(m)
<1>1. /\ IsSeq(l) /\ Len(l) \in Nat /\ Len(m) \in Nat /\ \A i \in 1..Len(l) : m[i] = l[i]
      /\ CommittedPositions(l) \subseteq 1..Len(l)
  BY SeqLen, PositionsAre DEF Tacked
<1> SUFFICES ASSUME NEW p \in CommittedPositions(m), NEW q \in CommittedPositions(m), p < q
             PROVE  AllBefore(m[p].payload, m[q].payload)
  BY DEF InOrder
<1>2. /\ \/ p \in CommittedPositions(l)
         \/ Commits(m, Len(l) + 1, Len(m)) /\ p \in (Len(l) + 2)..(Len(m) - 1)
      /\ \/ q \in CommittedPositions(l)
         \/ Commits(m, Len(l) + 1, Len(m)) /\ q \in (Len(l) + 2)..(Len(m) - 1)
  BY TackedPositions
<1>3. CASE p \in CommittedPositions(l) /\ q \in CommittedPositions(l)
  BY <1>1, <1>3 DEF InOrder
<1>4. CASE p \in CommittedPositions(l) /\ q \in (Len(l) + 2)..(Len(m) - 1)
           /\ Commits(m, Len(l) + 1, Len(m))
  <2>1. AllBefore(l[p].payload, m[q].payload)
    BY <1>4
  <2> QED  BY <2>1, <1>1, <1>4
<1>5. CASE p \in (Len(l) + 2)..(Len(m) - 1) /\ q \in (Len(l) + 2)..(Len(m) - 1)
           /\ Commits(m, Len(l) + 1, Len(m))
  BY <1>5
<1>6. ~(q \in CommittedPositions(l) /\ p \in (Len(l) + 2)..(Len(m) - 1))
  BY <1>1
<1> QED  BY <1>2, <1>3, <1>4, <1>5, <1>6

\* The whole of a transaction is appended, behind whatever log.
LEMMA InOrderWhole ==
    ASSUME NEW l, NEW base, NEW txn, NEW seq, NEW recs, NEW m, IsSeq(l), IsSeq(base),
           DataRecords(recs), Joined(m, l, TailOf(base, txn, seq, recs)),
           InOrder(l), RecordsInOrder(recs),
           Commits(m, Len(l) + 1, Len(m)) =>
              \A p \in CommittedPositions(l), k \in 1..Len(recs) :
                 AllBefore(l[p].payload, recs[k].payload)
    PROVE  InOrder(m)
<1> DEFINE n == Len(l)
           r == Len(recs)
<1>0. n \in Nat /\ r \in Nat /\ IsSeq(recs)
  BY SeqLen DEF DataRecords
<1>1. /\ Tacked(m, l) /\ Len(m) = n + r + 2
      /\ \A k \in 1..r : m[n + 1 + k] = Stamp(recs[k], txn)
  BY WholeTacked
<1>2. \A k \in 1..r : m[n + 1 + k].payload = recs[k].payload
  <2> TAKE k \in 1..r
  <2>1. Stamp(recs[k], txn).payload = recs[k].payload
    BY StampIs DEF DataRecords
  <2> QED  BY <2>1, <1>1
<1>3. ASSUME NEW q \in (n + 2)..(Len(m) - 1)
      PROVE  q - (n + 1) \in 1..r /\ m[q].payload = recs[q - (n + 1)].payload
  <2>1. q - (n + 1) \in 1..r /\ n + 1 + (q - (n + 1)) = q
    BY <1>0, <1>1
  <2> QED  BY <2>1, <1>2
<1> HIDE DEF n, r
<1>4. ASSUME Commits(m, n + 1, Len(m)), NEW q \in (n + 2)..(Len(m) - 1)
      PROVE  /\ \A p \in CommittedPositions(l) : AllBefore(l[p].payload, m[q].payload)
             /\ \A p \in (n + 2)..(Len(m) - 1) :
                   p < q => AllBefore(m[p].payload, m[q].payload)
  <2>1. \A p \in CommittedPositions(l) : AllBefore(l[p].payload, m[q].payload)
    BY <1>3, <1>4 DEF n, r
  <2>2. ASSUME NEW p \in (n + 2)..(Len(m) - 1), p < q
        PROVE  AllBefore(m[p].payload, m[q].payload)
    <3>1. p - (n + 1) < q - (n + 1)
      BY <1>0, <2>2
    <3> QED  BY <1>3, <3>1 DEF RecordsInOrder, r
  <2> QED  BY <2>1, <2>2
<1> QED  BY <1>1, <1>4, InOrderTacked DEF n

\* A digest is matched only behind the log it was taken of.
LEMMA SameBase ==
    ASSUME NEW l, NEW base, NEW txn, NEW seq, NEW recs, NEW m, IsSeq(l), IsSeq(base),
           DataRecords(recs), Joined(m, l, TailOf(base, txn, seq, recs)),
           Commits(m, Len(l) + 1, Len(m)), CollisionFree
    PROVE  l = base
<1> DEFINE n == Len(l)
           r == Len(recs)
           o == OpenPart(base, txn, recs)
           f == SubSeq(m, 1, n + r + 1)
<1>0. n \in Nat /\ r \in Nat /\ IsSeq(recs) /\ Len(base) \in Nat /\ n + r + 1 \in Nat
  BY SeqLen DEF DataRecords
<1>1. /\ Tacked(m, l) /\ Len(m) = n + r + 2
      /\ m[n + r + 2] = CommitCell(txn, seq, o)
  BY WholeTacked
<1>2. m[Len(m)].payload = Crc(SubSeq(m, 1, Len(m) - 1))
  BY DEF Commits, Intact
<1>3. Len(m) - 1 = n + r + 1 /\ n + r + 1 <= Len(m)
  BY <1>0, <1>1
<1>4. Crc(o) = Crc(f)
  <2>1. CommitCell(txn, seq, o).payload = Crc(o)
    BY DEF CommitCell
  <2> QED  BY <2>1, <1>1, <1>2, <1>3
<1>5. IsSeq(f) /\ Len(f) = n + r + 1 /\ \A i \in 1..(n + r + 1) : f[i] = m[i]
  <2>1. IsSeq(m)
    BY <1>1 DEF Tacked
  <2> QED  BY <2>1, <1>0, <1>3, PrefixIs
<1>6. IsSeq(o) /\ Len(o) = Len(base) + r + 1 /\ \A i \in 1..Len(base) : o[i] = base[i]
  BY <1>0, OpenPartIs
<1>7. o = f
  BY <1>4, <1>5, <1>6 DEF CollisionFree
<1> HIDE DEF n, r, o, f
<1>8. n = Len(base)
  BY <1>0, <1>5, <1>6, <1>7
<1>9. \A i \in 1..n : l[i] = base[i]
  <2>1. \A i \in 1..n : m[i] = l[i] /\ i \in 1..(n + r + 1)
    BY <1>0, <1>1 DEF Tacked, n
  <2> QED  BY <2>1, <1>5, <1>6, <1>7, <1>8
<1> QED  BY <1>8, <1>9, SeqSame DEF n

\* The committed records are in the order of the log.
LEMMA RecoveredInOrder ==
    ASSUME NEW l, IsSeq(l), InOrder(l)
    PROVE  RecordsInOrder(CommittedRecords(l))
<1> DEFINE P == CommittedPositions(l)
           R == CommittedRecords(l)
<1>1. P \subseteq 1..Len(l) /\ Len(l) \in Nat
  BY PositionsAre, SeqLen
<1>2. /\ Len(R) = Cardinality(P)
      /\ \A k \in 1..Len(R) : Nth(P, k) \in P /\ R[k] = l[Nth(P, k)]
  BY RecordsAre
<1>3. \A j, k \in 1..Cardinality(P) : j < k => Nth(P, j) < Nth(P, k)
  BY <1>1, NthIs
<1>4. \A p, q \in P : p < q => AllBefore(l[p].payload, l[q].payload)
  BY DEF InOrder
<1> HIDE DEF P, R
<1>5. RecordsInOrder(R)
  BY <1>2, <1>3, <1>4 DEF RecordsInOrder
<1> QED  BY <1>5 DEF R

LEMMA InOrderEmpty == InOrder(<<>>)
<1>1. CommittedPositions(<<>>) = {}
  BY EmptyIsClean DEF CommittedPositions
<1> QED  BY <1>1 DEF InOrder

\* Compaction keeps the order.
LEMMA InOrderClean ==
    ASSUME NEW l, NEW h, Sound(l, h), InOrder(l)
    PROVE  InOrder(CleanLogBytes(l))
<1>0. IsSeq(l)
  BY DEF Sound
<1>1. CASE ~Diagnosed(l) \/ CommittedRecords(l) = <<>>
  BY <1>1, InOrderEmpty DEF CleanLogBytes
<1>2. CASE Diagnosed(l) /\ CommittedRecords(l) # <<>>
  <2>1. PICK R, seq, m : /\ R = CommittedRecords(l) /\ seq = LastSequence(l)
                         /\ m = Transaction(<<>>, kCompactionTxnId, seq, R)
    OBVIOUS
  <2>2. RecordsInOrder(R) /\ GoodRecords(R, h) /\ DataRecords(R) /\ IsSeq(R) /\ IsSeq(<<>>)
    BY <1>0, <2>1, RecoveredInOrder, SoundRecovered, GoodIsData, SeqShort DEF DataRecords
  <2>3. Joined(m, <<>>, TailOf(<<>>, kCompactionTxnId, seq, R))
    BY <2>1, <2>2, TackedOnBase DEF Joined
  <2>4. CommittedPositions(<<>>) = {}
    BY EmptyIsClean DEF CommittedPositions
  <2>5. InOrder(m)
    BY <2>2, <2>3, <2>4, InOrderEmpty, InOrderWhole
  <2>6. CleanLogBytes(l) = m
    BY <1>2, <2>1 DEF CleanLogBytes
  <2> QED  BY <2>5, <2>6
<1> QED  BY <1>1, <1>2

\* A sound log is of transactions that were issued.
LEMMA SoundIsBelow ==
    ASSUME NEW l, NEW h, Sound(l, h), Len(h) \in Nat
    PROVE  Below(l, Len(h) + 1)
<1>1. MutationsIn(l) \subseteq IssuedBy(h)
  BY SoundRecovered
<1>2. \A p \in CommittedPositions(l) : \A x \in l[p].payload : x \in MutationsIn(l)
  BY DEF MutationsIn
<1>3. \A x \in IssuedBy(h) : x[1] < Len(h) + 1
  BY DEF IssuedBy
<1> QED  BY <1>1, <1>2, <1>3 DEF Below

\* The mutations of transaction t, in order, behind those below t.
LEMMA DeltasInOrder ==
    ASSUME NEW l, NEW t \in Nat, NEW recs, Len(recs) \in Nat,
           \A k \in 1..Len(recs) : recs[k] = DeltaCell(t, k)
    PROVE  /\ RecordsInOrder(recs)
           /\ Below(l, t) => \A p \in CommittedPositions(l), k \in 1..Len(recs) :
                                AllBefore(l[p].payload, recs[k].payload)
<1>1. \A k \in 1..Len(recs) : recs[k].payload = {<<t, k>>}
  <2>1. \A k : DeltaCell(t, k).payload = {<<t, k>>}
    BY DEF DeltaCell
  <2> QED  BY <2>1
<1>2. RecordsInOrder(recs)
  BY <1>1 DEF RecordsInOrder, AllBefore, Before
<1>3. ASSUME Below(l, t), NEW p \in CommittedPositions(l), NEW k \in 1..Len(recs)
      PROVE  AllBefore(l[p].payload, recs[k].payload)
  BY <1>1, <1>3 DEF Below, AllBefore, Before
<1> QED  BY <1>2, <1>3

-----------------------------------------------------------------------------
\* The inductive invariant: the log, and what is to become the log, are in
\* order, and a call's transaction comes after the log it was made for.
OrderInd ==
    /\ AtomicInd
    /\ InOrder(disk["state.log"])
    /\ call.op = "append" => InOrder(call.bytes) /\ Below(call.bytes, call.txn)
    /\ job.path = "state.log" => InOrder(job.bytes)

LEMMA OrderInit == Init => OrderInd
<1> SUFFICES ASSUME Init PROVE OrderInd
  OBVIOUS
<1>1. AtomicInd
  BY AtomicInit
<1>2. disk["state.log"] = <<>> /\ call.op = "none" /\ job.bytes = <<>>
  BY FilesApart DEF Init, NoCall, NoJob
<1> QED  BY <1>1, <1>2, InOrderEmpty DEF OrderInd

\* What append_file, whole or in part, leaves is in order.
LEMMA AppendedInOrder ==
    ASSUME OrderInd, CollisionFree, Appending,
           NEW cells \in PartOf(TailBytes) \cup {TailBytes}, AppendToLog(cells)
    PROVE  InOrder(disk'["state.log"])
<1>0. AtomicInd /\ call.op = "append" /\ SoundDisk(disk, issued) /\ IsSeq(call.bytes)
  BY DEF OrderInd, AtomicInd, Control, Appending, Sound
<1>1. /\ IsSeq(call.recs) /\ GoodRecords(call.recs, issued) /\ call.txn \in Nat \ {0}
      /\ call.recs \in Batches(call.txn)
  BY <1>0, CallIsGood DEF Appending, AtomicInd, CallRecords
<1>2. PICK l, m, base, txn, seq, recs :
          /\ l = disk["state.log"] /\ m = l \o cells
          /\ base = call.bytes /\ txn = call.txn /\ seq = call.seq /\ recs = call.recs
  OBVIOUS
<1>3. /\ IsSeq(l) /\ IsSeq(base) /\ DOMAIN disk = Path /\ DataRecords(recs) /\ IsSeq(recs)
      /\ InOrder(l) /\ InOrder(base) /\ Below(base, txn) /\ txn \in Nat /\ Len(recs) \in Nat
  BY <1>0, <1>1, <1>2, FilesApart, GoodIsData, SeqLen DEF SoundDisk, Sound, OrderInd
<1>4. TailBytes = TailOf(base, txn, seq, recs)
  BY <1>2 DEF TailBytes, TailOf
<1>5. Joined(m, l, cells)
  BY <1>2 DEF Joined
<1>6. disk'["state.log"] = m
  BY <1>2, <1>3, FilesApart DEF AppendToLog
<1>7. CASE cells \in PartOf(TailBytes)
  <2>1. Tacked(m, l) /\ \A k \in (Len(l) + 1)..Len(m) : ~IsCommit(m[k])
    BY <1>3, <1>4, <1>5, <1>7, PartTacked
  <2>2. CommittedPositions(m) = CommittedPositions(l) /\ CommittedPositions(l) \subseteq 1..Len(l)
    BY <2>1, <1>3, PartCommits, PositionsAre
  <2>3. \A i \in 1..Len(l) : m[i] = l[i]
    BY <2>1 DEF Tacked
  <2> QED  BY <2>2, <2>3, <1>3, <1>6 DEF InOrder
<1>8. CASE cells = TailBytes
  <2>1. Joined(m, l, TailOf(base, txn, seq, recs))
    BY <1>4, <1>5, <1>8
  <2>2. \A k \in 1..Len(recs) : recs[k] = DeltaCell(txn, k)
    <3>1. recs # <<BeginCell(txn, 0)>>
      <4> SUFFICES ASSUME recs = <<BeginCell(txn, 0)>> PROVE FALSE
        OBVIOUS
      <4>1. Len(recs) = 1 /\ recs[1] = BeginCell(txn, 0)
        BY SeqShort
      <4>a. \A k \in 1..Len(recs) : IsData(recs[k])
        BY <1>2 DEF Appending
      <4>2. IsData(recs[1])
        BY <4>1, <4>a
      <4> QED  BY <4>1, <4>2 DEF IsData, IsBegin, BeginCell
    <3> QED  BY <3>1, <1>1, <1>2, BatchIs
  <2>3. RecordsInOrder(recs)
    BY <2>2, <1>3, DeltasInOrder
  <2>4. ASSUME Commits(m, Len(l) + 1, Len(m))
        PROVE  \A p \in CommittedPositions(l), k \in 1..Len(recs) :
                  AllBefore(l[p].payload, recs[k].payload)
    <3>1. l = base
      BY <2>1, <2>4, <1>3, SameBase
    <3> QED  BY <3>1, <2>2, <1>3, DeltasInOrder
  <2>5. InOrder(m)
    BY <2>1, <2>3, <2>4, <1>3, InOrderWhole
  <2> QED  BY <2>5, <1>6
<1> QED  BY <1>7, <1>8

\* A call that returns, or a process that dies, has nothing on its way.
LEMMA ReturnedInOrder ==
    ASSUME AtomicInd', InOrder(disk'["state.log"]), call' = NoCall, job' = NoJob
    PROVE  OrderInd'
<1>1. call'.op = "none" /\ job'.bytes = <<>>
  BY DEF NoCall, NoJob
<1> QED  BY <1>1, InOrderEmpty DEF OrderInd

LEMMA BeginInOrder ==
    ASSUME OrderInd, AtomicInd', NEW existing, Sound(existing, issued), InOrder(existing),
           BeginAppend(existing)
    PROVE  OrderInd'
<1>0. AtomicInd /\ Len(issued) \in Nat
  BY SeqLen DEF OrderInd, AtomicInd, History
<1>1. PICK clean :
          /\ clean = CleanLogBytes(existing)
          /\ call'.op = "append" /\ call'.txn = Len(issued) + 1 /\ call'.bytes = clean
          /\ job' = [path |-> "state.log", bytes |-> clean] \/ job' = job
          /\ UNCHANGED disk
  BY DEF BeginAppend
<1>2. InOrder(clean) /\ Below(clean, Len(issued) + 1)
  BY <1>0, <1>1, InOrderClean, SoundClean, SoundIsBelow
<1>3. job'.path = "state.log" => InOrder(job'.bytes)
  <2>1. CASE job' = [path |-> "state.log", bytes |-> clean]
    BY <2>1, <1>2
  <2>2. CASE job' = job
    BY <2>2 DEF OrderInd
  <2> QED  BY <1>1, <2>1, <2>2
<1> QED  BY <1>1, <1>2, <1>3 DEF OrderInd

\* A file is put in place.
LEMMA ReplacedInOrder ==
    ASSUME OrderInd, AtomicInd', pc \in {"replace", "retry"}, AfterReplace,
           disk' = [disk EXCEPT ![job.path] = job.bytes]
    PROVE  OrderInd'
<1>0. AtomicInd /\ DOMAIN disk = Path
  BY DEF OrderInd, AtomicInd, SoundDisk
<1>1. InOrder(disk'["state.log"])
  <2>1. CASE job.path = "state.log"
    BY <2>1, <1>0, FilesApart DEF OrderInd
  <2>2. CASE job.path # "state.log"
    BY <2>2, <1>0, FilesApart DEF OrderInd
  <2> QED  BY <2>1, <2>2
<1>2. CASE ReturnOk
  BY <1>1, <1>2, ReturnedInOrder DEF ReturnOk
<1>3. CASE call' = call /\ job'.bytes = <<>>
  BY <1>1, <1>3, InOrderEmpty DEF OrderInd
<1>4. ReturnOk \/ (call' = call /\ job'.bytes = <<>>)
  BY <1>0, AfterReplaceIs DEF NoJob
<1> QED  BY <1>2, <1>3, <1>4

\* The transaction of another process comes after everything issued.
LEMMA OtherInOrder ==
    ASSUME OrderInd, AtomicInd', OtherAppends
    PROVE  OrderInd'
<1>0. /\ AtomicInd /\ Len(issued) \in Nat /\ SoundDisk(disk, issued) /\ DOMAIN disk = Path
      /\ InOrder(disk["state.log"])
  BY SeqLen DEF OrderInd, AtomicInd, History, SoundDisk
<1>1. PICK t, recs, log, l, seq, m :
          /\ t = Len(issued) + 1 /\ recs = <<DeltaCell(t, 1)>> /\ log = disk["state.log"]
          /\ l = CleanLogBytes(log) /\ seq = Recovered(disk).sequence + 1
          /\ m = Transaction(l, t, seq, recs)
          /\ disk' = [disk EXCEPT !["state.log"] = m]
          /\ UNCHANGED <<call, job>>
  BY DEF OtherAppends
<1>2. /\ IsSeq(recs) /\ Len(recs) = 1 /\ recs[1] = DeltaCell(t, 1) /\ t \in Nat
  BY <1>0, <1>1, SeqShort
<1>3. Sound(log, issued) /\ Sound(l, issued) /\ IsSeq(l) /\ InOrder(l) /\ Below(l, t)
  <2>1. Sound(log, issued) /\ InOrder(log)
    BY <1>0, <1>1, FilesApart DEF SoundDisk
  <2> QED  BY <2>1, <1>0, <1>1, SoundClean, InOrderClean, SoundIsBelow DEF Sound
<1>4. \A k \in 1..Len(recs) : recs[k] = DeltaCell(t, k)
  BY <1>2
<1>5. DataRecords(recs)
  <2>1. DOMAIN DeltaCell(t, 1) = Fields /\ Mutates(DeltaCell(t, 1))
    BY DEF DeltaCell, Fields, Mutates
  <2> QED  BY <2>1, <1>2 DEF DataRecords
<1>6. Joined(m, l, TailOf(l, t, seq, recs))
  BY <1>1, <1>2, <1>3, TackedOnBase DEF Joined
<1>7. InOrder(m)
  <2>1. RecordsInOrder(recs) /\ \A p \in CommittedPositions(l), k \in 1..Len(recs) :
                                   AllBefore(l[p].payload, recs[k].payload)
    BY <1>2, <1>3, <1>4, DeltasInOrder
  <2> QED  BY <2>1, <1>3, <1>5, <1>6, InOrderWhole
<1>8. disk'["state.log"] = m
  BY <1>0, <1>1, FilesApart
<1> QED  BY <1>1, <1>7, <1>8 DEF OrderInd

LEMMA OrderNext ==
    ASSUME CollisionFree
    PROVE  OrderInd /\ [Next]_vars => OrderInd'
<1> SUFFICES ASSUME OrderInd, [Next]_vars PROVE OrderInd'
  OBVIOUS
<1>0. /\ AtomicInd /\ AtomicInd' /\ InOrder(disk["state.log"]) /\ DOMAIN disk = Path
      /\ Sound(disk["state.log"], issued) /\ Sound(<<>>, issued)
  BY AtomicNext, SoundEmpty, FilesApart DEF OrderInd, AtomicInd, SoundDisk
<1>1. CASE AppendTransaction \/ AppendTransactionStatError
  BY <1>0, <1>1, BeginInOrder, InOrderEmpty DEF AppendTransaction, AppendTransactionStatError
<1>2. CASE RejectReserved \/ ReplaceFileError \/ RenameAgainError
  <2>1. disk' = disk /\ ReturnError
    BY <1>2 DEF RejectReserved, ReplaceFileError, RenameAgainError
  <2> QED  BY <1>0, <2>1, ReturnedInOrder DEF ReturnError
<1>3. CASE AppendFile \/ AppendFileError
  <2>1. PICK cells \in PartOf(TailBytes) \cup {TailBytes} : Appending /\ AppendToLog(cells)
    BY <1>3 DEF AppendFile, AppendFileError
  <2>2. InOrder(disk'["state.log"])
    BY <2>1, AppendedInOrder
  <2>3. call' = NoCall /\ job' = NoJob
    BY <1>3 DEF AppendFile, AppendFileError, ReturnOk, ReturnError
  <2> QED  BY <1>0, <2>2, <2>3, ReturnedInOrder
<1>4. CASE ReplaceFile \/ RenameAgain
  BY <1>0, <1>4, ReplacedInOrder DEF ReplaceFile, RenameAgain
<1>5. CASE RenameError
  <2>1. disk' = [disk EXCEPT ![job.path] = <<>>] /\ UNCHANGED <<call, job>>
    BY <1>5 DEF RenameError
  <2>2. InOrder(disk'["state.log"])
    <3>1. disk'["state.log"] \in {<<>>, disk["state.log"]}
      BY <1>0, <2>1, FilesApart
    <3> QED  BY <3>1, <1>0, InOrderEmpty
  <2> QED  BY <1>0, <2>1, <2>2 DEF OrderInd
<1>6. CASE Checkpoint
  <2>1. /\ UNCHANGED disk
        /\ call' = [NoCall EXCEPT !.op = "checkpoint", !.seq = mem.sequence + CheckpointStep]
        /\ job' = [path  |-> "checkpoint.fst",
                   bytes |-> CheckpointBytes(mem.sequence + CheckpointStep)]
    BY <1>6 DEF Checkpoint
  <2>2. call'.op = "checkpoint"
    BY <2>1 DEF NoCall
  <2>3. job'.path # "state.log"
    BY <2>1
  <2> QED  BY <1>0, <2>1, <2>2, <2>3 DEF OrderInd
<1>7. CASE Recover \/ RecoverStatError \/ UNCHANGED vars
  <2>1. UNCHANGED <<disk, call, job>>
    BY <1>7 DEF Recover, RecoverStatError, RecoverFrom, vars
  <2> QED  BY <1>0, <2>1 DEF OrderInd
<1>8. CASE OtherAppends
  BY <1>0, <1>8, OtherInOrder
<1>9. CASE Crash
  <2>1. call' = NoCall /\ job' = NoJob
    BY <1>9 DEF Crash
  <2>2. InOrder(disk'["state.log"])
    <3>1. CASE ~Appending
      BY <1>0, <1>9, <3>1 DEF Crash
    <3>2. CASE Appending
      BY <1>9, <3>2, AppendedInOrder DEF Crash
    <3> QED  BY <3>1, <3>2
  <2> QED  BY <1>0, <2>1, <2>2, ReturnedInOrder
<1> QED  BY <1>1, <1>2, <1>3, <1>4, <1>5, <1>6, <1>7, <1>8, <1>9 DEF Next

\* Under every fault, another process that writes between two steps of this one
\* included, recover() replays the mutations of the log in the order in which
\* they were issued, and none twice.
THEOREM ReplayedInCommitOrder ==
    ASSUME CollisionFree
    PROVE  Spec => []LogInCommitOrder
<1>1. OrderInd => LogInCommitOrder
  <2> SUFFICES ASSUME OrderInd PROVE LogInCommitOrder
    OBVIOUS
  <2>1. IsSeq(disk["state.log"]) /\ InOrder(disk["state.log"])
    BY FilesApart DEF OrderInd, AtomicInd, SoundDisk, Sound
  <2>2. RecordsInOrder(CommittedRecords(disk["state.log"]))
    BY <2>1, RecoveredInOrder
  <2> QED  BY <2>2 DEF RecordsInOrder, AllBefore, Before, LogInCommitOrder
<1>2. OrderInd /\ [Next]_vars => OrderInd'
  BY OrderNext
<1> QED  BY <1>1, <1>2, OrderInit, PTL DEF Spec

=============================================================================
