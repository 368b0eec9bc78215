------------------------- MODULE CampaignFanOutProofs -------------------------
(***************************************************************************)
(* Proofs about CampaignFanOut and KeyRanges, for any number of ids,       *)
(* window size, invocations, joins, leavings and failures: what planFanOut *)
(* and the merge of completedRanges compute, that no id is lost between    *)
(* plans, queue and record, and that what is recorded was mailed.          *)
(***************************************************************************)
EXTENDS CampaignFanOut, FiniteSetTheorems, SequenceTheorems, WellFoundedInduction, TLAPS

-----------------------------------------------------------------------------
(* Induction over naturals, for sets.                                      *)

\* A set of naturals has a least element.
LEMMA LeastNatural ==
    ASSUME NEW S \in SUBSET Nat, S # {}
    PROVE  \E m \in S : \A k \in S : m <= k
<1>1. PICK m \in S : \A k \in S : ~(<<k, m>> \in OpToRel(<, Nat))
    BY NatLessThanWellFounded, WFMin
<1>2. \A k \in S : ~(k < m)
    BY <1>1 DEF OpToRel
<1> QED BY <1>2

LEMMA AllNaturals ==
    ASSUME NEW S, 0 \in S, \A n \in Nat : n \in S => n + 1 \in S
    PROVE  \A n \in Nat : n \in S
<1> DEFINE T == Nat \ S
<1> SUFFICES ASSUME T # {} PROVE FALSE
    OBVIOUS
<1>1. PICK m \in T : \A k \in T : m <= k
    BY LeastNatural
<1>2. m - 1 \in Nat /\ m - 1 \in S
    BY <1>1
<1> QED BY <1>2

-----------------------------------------------------------------------------
(* What the merge loop computes: its results after each range.             *)

\* The recursive function inside FoldLeft, on the sets of positions D.
Folds(it, D, in) ==
    it = [s \in SUBSET D |-> IF s = {} THEN <<>> ELSE MergeNext(it[s \ {Max(s)}], in[Max(s)])]

LEMMA MaxOfInitial ==
    ASSUME NEW n \in Nat, NEW s \in SUBSET (1..(n + 1)), n + 1 \in s
    PROVE  Max(s) = n + 1
<1>1. \A y \in s : n + 1 >= y
    OBVIOUS
<1>2. \A x \in s : (\A y \in s : x >= y) => x = n + 1
    OBVIOUS
<1> QED BY <1>1, <1>2 DEF Max

LEMMA FoldsExist ==
    ASSUME NEW in
    PROVE  \A n \in Nat : \E it : Folds(it, 1..n, in)
<1> DEFINE S == {n \in Nat : \E it : Folds(it, 1..n, in)}
<1>1. 0 \in S
    <2> DEFINE it == [s \in SUBSET (1..0) |-> <<>>]
    <2>1. \A s \in SUBSET (1..0) : s = {}
        OBVIOUS
    <2>2. Folds(it, 1..0, in)
        BY <2>1 DEF Folds
    <2> QED BY <2>2
<1>2. ASSUME NEW n \in Nat, n \in S PROVE n + 1 \in S
    <2>1. PICK f : Folds(f, 1..n, in)
        BY <1>2
    <2> DEFINE D == 1..n
               E == 1..(n + 1)
               it == [s \in SUBSET E |->
                        IF n + 1 \in s THEN MergeNext(f[s \ {n + 1}], in[n + 1]) ELSE f[s]]
    <2>2. D \subseteq E /\ (\A s \in SUBSET E : s \ {n + 1} \in SUBSET D) /\ n + 1 \notin D
        OBVIOUS
    <2>3. ASSUME NEW s \in SUBSET E
          PROVE  it[s] = IF s = {} THEN <<>> ELSE MergeNext(it[s \ {Max(s)}], in[Max(s)])
        <3>1. CASE n + 1 \in s
            <4>1. Max(s) = n + 1
                BY <3>1, MaxOfInitial
            <4>2. it[s \ {n + 1}] = f[s \ {n + 1}]
                BY <2>2
            <4> QED BY <3>1, <4>1, <4>2
        <3>2. CASE n + 1 \notin s
            <4>1. s \in SUBSET D /\ s \ {Max(s)} \in SUBSET D
                BY <2>2, <3>2
            <4>2. f[s] = IF s = {} THEN <<>> ELSE MergeNext(f[s \ {Max(s)}], in[Max(s)])
                BY <2>1, <4>1 DEF Folds
            <4>3. it[s] = f[s] /\ it[s \ {Max(s)}] = f[s \ {Max(s)}]
                BY <2>2, <3>2, <4>1
            <4> QED BY <4>2, <4>3
        <3> QED BY <3>1, <3>2
    <2> HIDE DEF D
    <2>4. it = [s \in SUBSET E |-> it[s]]
        OBVIOUS
    <2>5. Folds(it, E, in)
        BY <2>3, <2>4 DEF Folds
    <2> QED BY <2>5
<1> HIDE DEF S
<1>3. \A n \in Nat : n \in S
    BY <1>1, <1>2, AllNaturals
<1> QED BY <1>3 DEF S

LEMMA FoldSteps ==
    ASSUME NEW in, NEW n \in Nat, DOMAIN in = 1..n
    PROVE  \E it : /\ it[0] = <<>>
                   /\ \A k \in 1..n : it[k] = MergeNext(it[k - 1], in[k])
                   /\ FoldLeft(MergeNext, <<>>, in) = it[n]
<1> DEFINE f == CHOOSE it : Folds(it, 1..n, in)
           it == [k \in 0..n |-> f[1..k]]
<1>1. Folds(f, 1..n, in)
    BY FoldsExist
<1>2. FoldLeft(MergeNext, <<>>, in) = f[1..n]
    BY DEF FoldLeft, MapThenFoldSet, Folds
<1> HIDE DEF f
<1>3. it[0] = <<>>
    <2>1. 1..0 = {} /\ 1..0 \in SUBSET (1..n)
        OBVIOUS
    <2> QED BY <1>1, <2>1 DEF Folds
<1>4. ASSUME NEW k \in 1..n PROVE it[k] = MergeNext(it[k - 1], in[k])
    <2>0. PICK j \in 0..n : k = j + 1
        OBVIOUS
    <2>1. /\ 1..k \in SUBSET (1..n) /\ k \in 1..k /\ k \in 0..n
          /\ (1..k) \ {k} = 1..(k - 1) /\ k - 1 \in 0..n
        OBVIOUS
    <2>2. Max(1..k) = k
        BY <2>0, MaxOfInitial
    <2>3. f[1..k] = MergeNext(f[1..(k - 1)], in[k])
        BY <1>1, <2>1, <2>2 DEF Folds
    <2> QED BY <2>1, <2>3
<1>5. it[n] = f[1..n]
    OBVIOUS
<1> QED BY <1>2, <1>3, <1>4, <1>5

-----------------------------------------------------------------------------
(* The merge loop.                                                         *)

\* A list of ranges in order with gaps between them.
Gapped(list) ==
    /\ list \in Seq(AllRanges)
    /\ \A i, j \in 1..Len(list) : i < j => list[i].until < list[j].after

\* The list ends before or where the range begins.
UpTo(list, r) == list # <<>> => list[Len(list)].after <= r.after

LEMMA RangeType ==
    ASSUME NEW r \in AllRanges
    PROVE  /\ r.after \in Nat /\ r.until \in Nat /\ r.after < r.until /\ r.until <= Open /\ Open \in Nat
           /\ CellsOf(r) \subseteq Cells
           /\ \A x : x \in CellsOf(r) <=> x \in Nat /\ r.after < x /\ x <= r.until
BY MaxKeyAssumption DEF AllRanges, Cells, Open, CellsOf

LEMMA UnionIs ==
    ASSUME NEW list \in Seq(AllRanges)
    PROVE  \A x : x \in Union(list) <=> \E i \in 1..Len(list) : x \in CellsOf(list[i])
BY DEF Union

LEMMA ExtendIs ==
    ASSUME NEW p \in AllRanges, NEW r \in AllRanges, Touches(p, r), p.after <= r.after
    PROVE  /\ Extend(p, r) \in AllRanges
           /\ Extend(p, r).after = p.after /\ p.until <= Extend(p, r).until
           /\ CellsOf(Extend(p, r)) = CellsOf(p) \cup CellsOf(r)
<1> DEFINE e == Extend(p, r)
<1>1. p = [after |-> p.after, until |-> p.until] /\ p.after \in 0..MaxKey /\ r.until \in Cells
    BY DEF AllRanges
<1>2. r.after <= p.until
    BY RangeType DEF Touches
<1>3. e.after = p.after /\ (e.until = p.until \/ e.until = r.until)
      /\ p.until <= e.until /\ r.until <= e.until
    BY <1>1, RangeType DEF Extend
<1>4. e \in AllRanges
    BY <1>1, <1>3, RangeType DEF Extend, AllRanges
<1> HIDE DEF e
<1>5. \A x : x \in CellsOf(e) <=> x \in CellsOf(p) \cup CellsOf(r)
    BY <1>2, <1>3, <1>4, RangeType
<1> QED BY <1>3, <1>4, <1>5 DEF e

\* One turn of the loop keeps the list gapped and adds the range's cells to it.
LEMMA MergeNextIs ==
    ASSUME NEW m, Gapped(m), NEW r \in AllRanges, UpTo(m, r)
    PROVE  /\ Gapped(MergeNext(m, r)) /\ UpTo(MergeNext(m, r), r)
           /\ Union(MergeNext(m, r)) = Union(m) \cup CellsOf(r)
<1> DEFINE n == Len(m)
           new == MergeNext(m, r)
<1>1. m \in Seq(AllRanges) /\ n \in Nat /\ (m = <<>> <=> n = 0)
      /\ \A i \in 1..n : m[i] \in AllRanges
    BY DEF Gapped
<1>2. CASE m # <<>> /\ Touches(m[n], r)
    <2> DEFINE e == Extend(m[n], r)
    <2>1. n \in 1..n /\ m[n] \in AllRanges
        BY <1>1, <1>2
    <2>2. /\ e \in AllRanges /\ e.after = m[n].after /\ m[n].until <= e.until
          /\ CellsOf(e) = CellsOf(m[n]) \cup CellsOf(r)
        BY <1>2, <2>1, ExtendIs DEF UpTo
    <2> HIDE DEF e
    <2>3. new = Append(SubSeq(m, 1, n - 1), e)
        BY <1>2 DEF MergeNext, Last, Front, e
    <2>4. /\ new \in Seq(AllRanges) /\ Len(new) = n
          /\ \A i \in 1..n : new[i] = IF i = n THEN e ELSE m[i]
        <3> DEFINE front == SubSeq(m, 1, n - 1)
        <3>1. /\ front \in Seq(AllRanges) /\ Len(front) = n - 1
              /\ \A i \in 1..(n - 1) : front[i] = m[i]
            <4>1. n - 1 \in Int /\ 1 \in Int /\ \A i \in 1..(n - 1) : m[i] \in AllRanges
                BY <1>1
            <4>2. front \in Seq(AllRanges) /\ Len(front) = (IF 1 <= n - 1 THEN n - 1 - 1 + 1 ELSE 0)
                  /\ \A i \in 1..(n - 1 - 1 + 1) : front[i] = m[1 + i - 1]
                BY <4>1, SubSeqProperties
            <4> HIDE DEF front
            <4> HIDE DEF n
            <4>3. n - 1 - 1 + 1 = n - 1 /\ (IF 1 <= n - 1 THEN n - 1 - 1 + 1 ELSE 0) = n - 1
                BY <1>1, <2>1
            <4>4. \A i \in 1..(n - 1) : 1 + i - 1 = i
                BY <1>1
            <4> QED BY <4>2, <4>3, <4>4
        <3> HIDE DEF front
        <3>2. Append(front, e) \in Seq(AllRanges) /\ Len(Append(front, e)) = n
              /\ \A i \in 1..n : Append(front, e)[i] = IF i = n THEN e ELSE front[i]
            BY <1>1, <2>2, <3>1
        <3>3. \A i \in 1..n : i # n => i \in 1..(n - 1)
            BY <1>1
        <3> QED BY <2>3, <3>1, <3>2, <3>3 DEF front
    <2> HIDE DEF new
    <2>5. \A i, j \in 1..n : i < j => new[i].until < new[j].after
        BY <2>2, <2>4 DEF Gapped
    <2>6. \A x : x \in Union(new) <=> x \in Union(m) \/ x \in CellsOf(r)
        BY <1>1, <2>1, <2>2, <2>4, UnionIs
    <2>7. new[Len(new)].after <= r.after
        BY <1>2, <2>1, <2>2, <2>4 DEF UpTo
    <2> QED BY <2>4, <2>5, <2>6, <2>7 DEF Gapped, UpTo, new
<1>3. CASE ~(m # <<>> /\ Touches(m[n], r))
    <2>1. new = Append(m, r)
        BY <1>3 DEF MergeNext, Last
    <2>2. /\ new \in Seq(AllRanges) /\ Len(new) = n + 1
          /\ \A i \in 1..(n + 1) : new[i] = IF i = n + 1 THEN r ELSE m[i]
        BY <1>1, <2>1
    <2> HIDE DEF new
    <2>3. ASSUME NEW i \in 1..n PROVE m[i].until < r.after
        <3>1. n \in 1..n /\ m[n].until < r.after
            BY <1>1, <1>3, <2>3, RangeType DEF Touches
        <3>2. i # n => m[i].until < m[n].after
            BY <3>1 DEF Gapped
        <3> QED BY <1>1, <3>1, <3>2, RangeType
    <2>4. \A i, j \in 1..(n + 1) : i < j => new[i].until < new[j].after
        BY <1>1, <2>2, <2>3 DEF Gapped
    <2>5. \A x : x \in Union(new) <=> x \in Union(m) \/ x \in CellsOf(r)
        BY <1>1, <2>2, UnionIs
    <2>6. new[Len(new)].after <= r.after
        BY <1>1, <2>2, RangeType
    <2> QED BY <2>2, <2>4, <2>5, <2>6 DEF Gapped, UpTo, new
<1> QED BY <1>2, <1>3

LEMMA ConcatIs ==
    ASSUME NEW S, NEW s \in Seq(S), NEW t \in Seq(S)
    PROVE  /\ s \o t \in Seq(S) /\ Len(s \o t) = Len(s) + Len(t)
           /\ \A i \in 1..(Len(s) + Len(t)) :
                 (s \o t)[i] = IF i <= Len(s) THEN s[i] ELSE t[i - Len(s)]
OBVIOUS

\* The finished window is put in its place in the recorded list.
LEMMA InOrderIs ==
    ASSUME NEW list, Gapped(list), NEW r \in AllRanges
    PROVE  /\ InOrder(list, r) \in Seq(AllRanges) /\ Len(InOrder(list, r)) = Len(list) + 1
           /\ \A i, j \in 1..(Len(list) + 1) :
                 i < j => InOrder(list, r)[i].after <= InOrder(list, r)[j].after
           /\ Union(InOrder(list, r)) = Union(list) \cup CellsOf(r)
<1> DEFINE n == Len(list)
           Prefix(b) == \A i \in DOMAIN list : list[i].after <= r.after <=> i <= b
           b == CHOOSE b \in 0..n : Prefix(b)
           in == InOrder(list, r)
<1>1. /\ list \in Seq(AllRanges) /\ n \in Nat /\ DOMAIN list = 1..n
      /\ \A i \in 1..n : list[i] \in AllRanges
    BY DEF Gapped
<1>2. \A i, j \in 1..n : i < j => list[i].after < list[j].after
    BY <1>1, RangeType DEF Gapped
<1>3. b \in 0..n /\ Prefix(b)
    <2> SUFFICES \E c \in 0..n : Prefix(c)
        OBVIOUS
    <2> DEFINE Behind == {i \in 1..n : ~(list[i].after <= r.after)}
    <2>1. CASE Behind = {}
        BY <1>1, <2>1
    <2>2. CASE Behind # {}
        <3>0. Behind \in SUBSET Nat
            BY <1>1
        <3>1. PICK c \in Behind : \A i \in Behind : c <= i
            <4> HIDE DEF Behind
            <4> QED BY <2>2, <3>0, LeastNatural
        <3>2. c - 1 \in 0..n
            BY <1>1, <3>1
        <3>3. \A i \in 1..n : list[i].after <= r.after <=> i <= c - 1
            <4> SUFFICES ASSUME NEW i \in 1..n PROVE list[i].after <= r.after <=> i <= c - 1
                OBVIOUS
            <4>1. i < c => list[i].after <= r.after
                BY <3>1
            <4>2. c < i => list[c].after < list[i].after
                BY <1>2, <3>1
            <4>3. ~(list[c].after <= r.after)
                BY <3>1
            <4> QED BY <1>1, <3>1, <4>1, <4>2, <4>3, RangeType
        <3> QED BY <1>1, <3>2, <3>3
    <2> QED BY <2>1, <2>2
<1>4. in = (SubSeq(list, 1, b) \o <<r>>) \o SubSeq(list, b + 1, n)
    <2>1. in = InsertAt(list, b + 1, r)
        BY DEF InOrder
    <2> HIDE DEF b, in
    <2>2. (b + 1) - 1 = b
        BY <1>3
    <2> QED BY <2>1, <2>2 DEF InsertAt
<1> HIDE DEF b, Prefix
<1>5. /\ in \in Seq(AllRanges) /\ Len(in) = n + 1
      /\ \A i \in 1..(n + 1) :
            in[i] = IF i <= b THEN list[i] ELSE IF i = b + 1 THEN r ELSE list[i - 1]
    <2> DEFINE s == SubSeq(list, 1, b)
               t == SubSeq(list, b + 1, n)
               u == s \o <<r>>
    <2>1. /\ s \in Seq(AllRanges) /\ Len(s) = b
          /\ \A i \in 1..b : s[i] = list[i]
        BY <1>1, <1>3, SubSeqProperties
    <2>2. /\ t \in Seq(AllRanges) /\ Len(t) = n - b
          /\ \A i \in 1..(n - b) : t[i] = list[b + i]
        BY <1>1, <1>3, SubSeqProperties
    <2>3. <<r>> \in Seq(AllRanges) /\ Len(<<r>>) = 1 /\ <<r>>[1] = r
        OBVIOUS
    <2> HIDE DEF s, t
    <2>4. /\ u \in Seq(AllRanges) /\ Len(u) = b + 1
          /\ \A i \in 1..(b + 1) : u[i] = IF i <= b THEN list[i] ELSE r
        BY <1>3, <2>1, <2>3, ConcatIs
    <2>5. in = u \o t
        BY <1>4 DEF s, t
    <2> HIDE DEF u, in
    <2>6. in \in Seq(AllRanges) /\ Len(in) = n + 1
        BY <1>1, <1>3, <2>2, <2>4, <2>5, ConcatIs
    <2>7. \A i \in 1..(n + 1) : in[i] = IF i <= b + 1 THEN u[i] ELSE t[i - (b + 1)]
        BY <1>1, <1>3, <2>2, <2>4, <2>5, ConcatIs
    <2>8. \A i \in 1..(n + 1) : ~(i <= b + 1) => i - (b + 1) \in 1..(n - b) /\ b + (i - (b + 1)) = i - 1
        BY <1>1, <1>3
    <2>9. ASSUME NEW i \in 1..(n + 1)
          PROVE  in[i] = IF i <= b THEN list[i] ELSE IF i = b + 1 THEN r ELSE list[i - 1]
        <3>1. CASE i <= b + 1
            <4>1. i \in 1..(b + 1)
                BY <1>3, <3>1
            <4> QED BY <1>3, <2>4, <2>7, <3>1, <4>1
        <3>2. CASE ~(i <= b + 1)
            <4>1. in[i] = list[i - 1]
                BY <2>2, <2>7, <2>8, <3>2
            <4>2. ~(i <= b) /\ i # b + 1
                BY <1>3, <3>2
            <4> QED BY <4>1, <4>2
        <3> QED BY <3>1, <3>2
    <2> QED BY <2>6, <2>9
<1> HIDE DEF in
<1>6. ASSUME NEW i \in 1..(n + 1), NEW j \in 1..(n + 1), i < j PROVE in[i].after <= in[j].after
    <2> DEFINE At(k) == IF k <= b THEN list[k] ELSE IF k = b + 1 THEN r ELSE list[k - 1]
    <2>1. in[i] = At(i) /\ in[j] = At(j)
        BY <1>5
    <2>2. \A k \in 1..n : list[k].after \in Nat /\ (k <= b <=> list[k].after <= r.after)
        BY <1>1, <1>3, RangeType DEF Prefix
    <2>3. r.after \in Nat
        BY RangeType
    <2>4. CASE j <= b
        <3>1. i \in 1..n /\ j \in 1..n /\ i <= b
            BY <1>1, <1>3, <1>6, <2>4
        <3> QED BY <1>2, <1>6, <2>1, <2>2, <2>4, <3>1
    <2>5. CASE j = b + 1
        <3>1. i \in 1..n /\ i <= b
            BY <1>1, <1>3, <1>6, <2>5
        <3> QED BY <1>3, <2>1, <2>2, <2>5, <3>1
    <2>6. CASE ~(j <= b) /\ j # b + 1
        <3>1. j - 1 \in 1..n /\ ~(j - 1 <= b)
            BY <1>1, <1>3, <2>6
        <3>2. in[j] = list[j - 1]
            BY <2>1, <2>6
        <3>3. CASE i <= b
            <4>1. i \in 1..n /\ i < j - 1
                BY <1>1, <1>3, <3>1, <3>3
            <4> QED BY <1>2, <2>1, <2>2, <3>1, <3>2, <3>3, <4>1
        <3>4. CASE i = b + 1
            BY <1>3, <2>1, <2>2, <2>3, <3>1, <3>2, <3>4
        <3>5. CASE ~(i <= b) /\ i # b + 1
            <4>1. i - 1 \in 1..n /\ i - 1 < j - 1
                BY <1>1, <1>3, <1>6, <3>5
            <4> QED BY <1>2, <2>1, <2>2, <3>1, <3>2, <3>5, <4>1
        <3> QED BY <3>3, <3>4, <3>5
    <2> QED BY <2>4, <2>5, <2>6
<1>7. \A x : x \in Union(in) <=> x \in Union(list) \/ x \in CellsOf(r)
    <2>1. ASSUME NEW x, x \in Union(in) PROVE x \in Union(list) \/ x \in CellsOf(r)
        <3>1. PICK i \in 1..(n + 1) : x \in CellsOf(in[i])
            BY <1>5, <2>1, UnionIs
        <3>2. (i <= b => i \in 1..n) /\ (~(i <= b) /\ i # b + 1 => i - 1 \in 1..n)
            BY <1>1, <1>3
        <3> QED BY <1>1, <1>5, <3>1, <3>2, UnionIs
    <2>2. ASSUME NEW x, x \in Union(list) PROVE x \in Union(in)
        <3>1. PICK i \in 1..n : x \in CellsOf(list[i])
            BY <1>1, <2>2, UnionIs
        <3>2. (i <= b => i \in 1..(n + 1) /\ in[i] = list[i])
              /\ (~(i <= b) => i + 1 \in 1..(n + 1) /\ in[i + 1] = list[i])
            BY <1>1, <1>3, <1>5
        <3> QED BY <1>5, <3>1, <3>2, UnionIs
    <2>3. ASSUME NEW x, x \in CellsOf(r) PROVE x \in Union(in)
        <3>1. b + 1 \in 1..(n + 1) /\ in[b + 1] = r
            BY <1>1, <1>3, <1>5
        <3> QED BY <1>5, <2>3, <3>1, UnionIs
    <2> QED BY <2>1, <2>2, <2>3
<1> QED BY <1>5, <1>6, <1>7 DEF in

\* Merging a finished window keeps the record gapped, and adds its cells.
LEMMA MergeRangeIs ==
    ASSUME NEW list, Gapped(list), NEW r \in AllRanges
    PROVE  /\ Gapped(MergeRange(list, r))
           /\ Union(MergeRange(list, r)) = Union(list) \cup CellsOf(r)
<1> DEFINE in == InOrder(list, r)
           n == Len(in)
           UpToHere(k) == UNION {CellsOf(in[i]) : i \in 1..k}
<1>1. /\ in \in Seq(AllRanges) /\ n \in Nat /\ DOMAIN in = 1..n /\ \A i \in 1..n : in[i] \in AllRanges
      /\ \A i, j \in 1..n : i < j => in[i].after <= in[j].after
      /\ Union(in) = Union(list) \cup CellsOf(r)
    BY InOrderIs
<1>2. Union(in) = UpToHere(n)
    BY <1>1 DEF Union
<1>3. MergeRange(list, r) = FoldLeft(MergeNext, <<>>, in)
    BY DEF MergeRange
<1> HIDE DEF in, n
<1>4. PICK it : /\ it[0] = <<>>
                /\ \A k \in 1..n : it[k] = MergeNext(it[k - 1], in[k])
                /\ FoldLeft(MergeNext, <<>>, in) = it[n]
    BY <1>1, FoldSteps
<1> DEFINE Done(k) == /\ Gapped(it[k]) /\ Union(it[k]) = UpToHere(k)
                      /\ k > 0 => UpTo(it[k], in[k])
                      /\ k = 0 => it[k] = <<>>
           S == {k \in Nat : k <= n => Done(k)}
<1>5. 0 \in S
    <2>1. Gapped(<<>>)
        BY DEF Gapped
    <2>2. Union(<<>>) = {} /\ UpToHere(0) = {}
        BY DEF Union
    <2> QED BY <1>4, <2>1, <2>2
<1>6. ASSUME NEW k \in Nat, k \in S PROVE k + 1 \in S
    <2> SUFFICES ASSUME k + 1 <= n PROVE Done(k + 1)
        OBVIOUS
    <2>1. k + 1 \in 1..n /\ k + 1 - 1 = k /\ k <= n
        BY <1>1
    <2>2. it[k + 1] = MergeNext(it[k], in[k + 1]) /\ in[k + 1] \in AllRanges
        BY <1>1, <1>4, <2>1
    <2>3. Done(k)
        BY <1>6, <2>1
    <2>4. UpTo(it[k], in[k + 1])
        <3>1. CASE k = 0
            BY <2>3, <3>1 DEF UpTo
        <3>2. CASE k > 0
            <4>1. k \in 1..n /\ in[k].after <= in[k + 1].after /\ in[k] \in AllRanges
                BY <1>1, <2>1, <3>2
            <4>2. it[k] # <<>> => it[k][Len(it[k])] \in AllRanges
                BY <2>3 DEF Gapped
            <4> QED BY <2>2, <2>3, <3>2, <4>1, <4>2, RangeType DEF UpTo
        <3> QED BY <3>1, <3>2
    <2>5. UpToHere(k + 1) = UpToHere(k) \cup CellsOf(in[k + 1])
        <3>1. \A i : i \in 1..(k + 1) <=> i \in 1..k \/ i = k + 1
            OBVIOUS
        <3> QED BY <3>1
    <2>6. k + 1 > 0 /\ k + 1 # 0
        OBVIOUS
    <2> HIDE DEF UpToHere
    <2> QED BY <2>2, <2>3, <2>4, <2>5, <2>6, MergeNextIs
<1> HIDE DEF S, Done
<1>7. n \in S
    BY <1>1, <1>5, <1>6, AllNaturals
<1>8. Done(n)
    BY <1>1, <1>7 DEF S
<1> QED BY <1>1, <1>2, <1>3, <1>4, <1>8 DEF Done

-----------------------------------------------------------------------------
(* The plan.                                                               *)

Sorted(a, S) ==
    a \in [1..Cardinality(S) -> S] /\ \A i, j \in 1..Cardinality(S) : i < j => a[i] < a[j]

\* A set of ids has a last one.
LEMMA LastId ==
    ASSUME NEW S \in SUBSET Ids, S # {}
    PROVE  \E k \in S : \A p \in S : p <= k
<1> DEFINE Bounds == {k \in Nat : \A p \in S : p <= k}
<1>1. MaxKey \in Bounds
    BY MaxKeyAssumption DEF Ids
<1>2. PICK k \in Bounds : \A j \in Bounds : k <= j
    <2>1. Bounds \in SUBSET Nat /\ Bounds # {}
        BY <1>1
    <2> HIDE DEF Bounds
    <2> QED BY <2>1, LeastNatural
<1>3. ASSUME k \notin S PROVE FALSE
    <2>1. \A p \in S : p \in Nat /\ p <= k - 1 /\ 1 <= p
        BY <1>2, <1>3, MaxKeyAssumption DEF Ids
    <2>2. k - 1 \in Bounds
        BY <1>2, <2>1
    <2> QED BY <1>2, <2>2
<1> QED BY <1>2, <1>3

LEMMA IdsFinite ==
    ASSUME NEW S \in SUBSET Ids
    PROVE  IsFiniteSet(S) /\ Cardinality(S) \in Nat
<1>1. IsFiniteSet(Ids)
    BY FS_Interval, MaxKeyAssumption DEF Ids
<1> QED BY <1>1, FS_Subset, FS_CardinalityType

LEMMA SortedExists ==
    ASSUME NEW S \in SUBSET Ids
    PROVE  \E a : Sorted(a, S)
<1> DEFINE N == {n \in Nat : \A U \in SUBSET Ids : Cardinality(U) = n => \E a : Sorted(a, U)}
<1>1. 0 \in N
    <2> SUFFICES ASSUME NEW U \in SUBSET Ids, Cardinality(U) = 0 PROVE \E a : Sorted(a, U)
        OBVIOUS
    <2> DEFINE a == [i \in 1..0 |-> i]
    <2>1. 1..Cardinality(U) = {} /\ 1..0 = {}
        OBVIOUS
    <2>2. a \in [1..Cardinality(U) -> U]
        BY <2>1
    <2> QED BY <2>1, <2>2 DEF Sorted
<1>2. ASSUME NEW n \in Nat, n \in N PROVE n + 1 \in N
    <2> SUFFICES ASSUME NEW U \in SUBSET Ids, Cardinality(U) = n + 1 PROVE \E a : Sorted(a, U)
        OBVIOUS
    <2>1. U # {}
        BY FS_EmptySet
    <2>2. PICK k \in U : \A p \in U : p <= k
        BY <2>1, LastId
    <2> DEFINE V == U \ {k}
    <2>3. V \in SUBSET Ids /\ Cardinality(V) = n
        BY FS_RemoveElement, IdsFinite
    <2>4. PICK a : Sorted(a, V)
        BY <1>2, <2>3
    <2> DEFINE b == [i \in 1..(n + 1) |-> IF i = n + 1 THEN k ELSE a[i]]
    <2>5. \A i \in 1..n : a[i] \in V
        BY <2>3, <2>4 DEF Sorted
    <2>6. \A p \in V : p < k
        BY <2>2, MaxKeyAssumption DEF Ids
    <2>7. \A i \in 1..(n + 1) : i # n + 1 => i \in 1..n
        OBVIOUS
    <2>8. b \in [1..(n + 1) -> U]
        BY <2>2, <2>5, <2>7
    <2>9. ASSUME NEW i \in 1..(n + 1), NEW j \in 1..(n + 1), i < j PROVE b[i] < b[j]
        <3>1. i # n + 1 /\ i \in 1..n /\ b[i] = a[i]
            BY <2>9
        <3>2. CASE j = n + 1
            BY <2>5, <2>6, <3>1, <3>2
        <3>3. CASE j # n + 1
            BY <2>3, <2>4, <2>7, <2>9, <3>1, <3>3 DEF Sorted
        <3> QED BY <3>2, <3>3
    <2> HIDE DEF b
    <2> QED BY <2>8, <2>9 DEF Sorted
<1> HIDE DEF N
<1>3. Cardinality(S) \in N
    BY <1>1, <1>2, AllNaturals, IdsFinite
<1> QED BY <1>3 DEF N

\* The ids in order, all of them.
LEMMA AscendingIs ==
    ASSUME NEW S \in SUBSET Ids
    PROVE  /\ Sorted(Ascending(S), S) /\ Len(Ascending(S)) = Cardinality(S)
           /\ \A p \in S : \E i \in 1..Cardinality(S) : p = Ascending(S)[i]
<1> DEFINE n == Cardinality(S)
           a == Ascending(S)
           P(ids) == \A i, j \in DOMAIN ids : i < j => ids[i] < ids[j]
<1>1. n \in Nat /\ IsFiniteSet(S)
    BY IdsFinite
<1>2. \E ids \in [1..n -> S] : P(ids)
    BY SortedExists DEF Sorted
<1>3. a \in [1..n -> S] /\ P(a)
    <2>1. a = CHOOSE ids \in [1..n -> S] : P(ids)
        BY DEF Ascending
    <2> HIDE DEF a, P
    <2> QED BY <1>2, <2>1
<1> HIDE DEF a
<1>4. Sorted(a, S) /\ Len(a) = n
    BY <1>1, <1>3 DEF Sorted
<1>5. a \in Injection(1..n, S)
    <2>1. \A i, j \in 1..n : a[i] = a[j] => i = j
        <3> SUFFICES ASSUME NEW i \in 1..n, NEW j \in 1..n, i # j PROVE a[i] # a[j]
            OBVIOUS
        <3>1. a[i] \in S /\ a[j] \in S /\ DOMAIN a = 1..n
            BY <1>3
        <3>2. a[i] \in Nat /\ a[j] \in Nat
            <4>1. S \subseteq Nat
                BY MaxKeyAssumption DEF Ids
            <4> HIDE DEF n
            <4> QED BY <3>1, <4>1
        <3>3. i < j \/ j < i
            BY <1>1
        <3>4. (i < j => a[i] < a[j]) /\ (j < i => a[j] < a[i])
            BY <1>3, <3>1
        <3> QED BY <3>2, <3>3, <3>4
    <2> HIDE DEF n
    <2> QED BY <1>3, <2>1 DEF Injection, IsInjective
<1>6. a \in Surjection(1..n, S)
    BY <1>1, <1>5, FS_Injection, FS_Interval
<1> QED BY <1>4, <1>6 DEF Surjection, a

LEMMA DivIs ==
    ASSUME NEW m \in Nat, NEW c \in Nat \ {0}
    PROVE  m \div c \in Nat /\ (m \div c) * c <= m /\ m < (m \div c) * c + c
OBVIOUS

\* The windows of a plan for more than no member: they follow on each other, the
\* first begins at the first id, the last is open, each ends at the last of its
\* members.
LEMMA PlanIs ==
    ASSUME NEW S \in SUBSET Ids, NEW c \in Nat \ {0}, S # {}
    PROVE  LET n == Cardinality(S)
               a == Ascending(S)
               W == WindowCount(n, c)
               p == PlanFanOut(S, c)
           IN  /\ W \in Nat \ {0} /\ (W - 1) * c < n /\ n <= W * c
               /\ p \in Seq(AllRanges) /\ Len(p) = W
               /\ \A i \in 1..W : /\ p[i].after = IF i = 1 THEN 0 ELSE a[(i - 1) * c]
                                  /\ p[i].until = IF i * c >= n THEN Open ELSE a[i * c]
<1> DEFINE n == Cardinality(S)
           a == Ascending(S)
           W == WindowCount(n, c)
           p == PlanFanOut(S, c)
<1>1. n \in Nat \ {0} /\ a \in [1..n -> S] /\ Len(a) = n
      /\ \A i, j \in 1..n : i < j => a[i] < a[j]
    BY IdsFinite, FS_EmptySet, AscendingIs DEF Sorted
<1>2. W \in Nat \ {0} /\ (W - 1) * c < n /\ n <= W * c
    <2>1. n + c - 1 \in Nat /\ W = (n + c - 1) \div c
        BY <1>1 DEF WindowCount
    <2>2. W \in Nat /\ W * c <= n + c - 1 /\ n + c - 1 < W * c + c
        BY <2>1, DivIs
    <2> HIDE DEF n, W
    <2>3. W # 0 /\ (W - 1) * c = W * c - c
        BY <1>1, <2>2
    <2> QED BY <1>1, <2>2, <2>3
<1> DEFINE from(i) == IF i = 1 THEN 0 ELSE a[(i - 1) * c]
           upto(i) == IF i * c >= n THEN Open ELSE a[i * c]
<1>3. p = [i \in 1..W |-> Range0(from(i), upto(i))]
    BY <1>1 DEF PlanFanOut
<1> HIDE DEF n, a, W, p
<1>4. ASSUME NEW i \in 1..W PROVE Range0(from(i), upto(i)) \in AllRanges
    <2>1. i \in Nat /\ i >= 1 /\ i * c \in Nat /\ (i - 1) * c \in Nat /\ (i - 1) * c < i * c
        BY <1>2
    <2>2. (i - 1) * c < n
        BY <1>1, <1>2, <2>1
    <2>3. i # 1 => (i - 1) * c \in 1..n
        BY <1>1, <2>1, <2>2
    <2>4. ~(i * c >= n) => i * c \in 1..n
        BY <1>1, <2>1
    <2>5. \A k \in 1..n : a[k] \in Ids
        BY <1>1
    <2>6. from(i) \in 0..MaxKey /\ upto(i) \in Cells
        BY <2>3, <2>4, <2>5, MaxKeyAssumption DEF Ids, Cells, Open
    <2>7. from(i) < upto(i)
        BY <1>1, <2>1, <2>3, <2>4, <2>5, MaxKeyAssumption DEF Ids, Open
    <2> HIDE DEF from, upto
    <2> QED BY <2>6, <2>7 DEF Range0, AllRanges
<1>5. p \in [1..W -> AllRanges]
    BY <1>3, <1>4
<1>6. \A i \in 1..W : p[i].after = from(i) /\ p[i].until = upto(i)
    BY <1>3 DEF Range0
<1> QED BY <1>2, <1>5, <1>6 DEF n, a, W, p

\* planFanOut returns a partition of all ids, with at most c members in a window.
LEMMA PlanIsPartition ==
    ASSUME NEW S \in SUBSET Ids, NEW c \in Nat \ {0}, S # {}
    PROVE  LET p == PlanFanOut(S, c)
           IN  /\ p \in Seq(AllRanges)
               /\ Union(p) = Cells
               /\ \A i, j \in DOMAIN p : i # j => CellsOf(p[i]) \cap CellsOf(p[j]) = {}
               /\ \A i \in DOMAIN p : Cardinality(RecipientsInSlice(S, p[i])) \in 1..c
<1> DEFINE n == Cardinality(S)
           a == Ascending(S)
           W == WindowCount(n, c)
           p == PlanFanOut(S, c)
<1>1. /\ n \in Nat \ {0} /\ a \in [1..n -> S]
      /\ \A i, j \in 1..n : i < j => a[i] < a[j]
      /\ \A x \in S : \E i \in 1..n : x = a[i]
    BY IdsFinite, FS_EmptySet, AscendingIs DEF Sorted
<1>2. /\ W \in Nat \ {0} /\ (W - 1) * c < n /\ n <= W * c
      /\ p \in Seq(AllRanges) /\ Len(p) = W
      /\ \A i \in 1..W : /\ p[i].after = IF i = 1 THEN 0 ELSE a[(i - 1) * c]
                         /\ p[i].until = IF i * c >= n THEN Open ELSE a[i * c]
    BY PlanIs
<1> HIDE DEF n, a, W, p
<1>3. DOMAIN p = 1..W /\ \A i \in 1..W : p[i] \in AllRanges
    BY <1>2
<1>4. /\ \A k \in 1..n : a[k] \in Nat /\ a[k] >= 1 /\ a[k] <= MaxKey
      /\ \A k, m \in 1..n : a[m] < a[k] <=> m < k
    <2>1. \A k \in 1..n : a[k] \in Ids
        BY <1>1
    <2>2. \A k \in 1..n : a[k] \in Nat /\ a[k] >= 1 /\ a[k] <= MaxKey
        BY <2>1, MaxKeyAssumption DEF Ids
    <2>3. ASSUME NEW k \in 1..n, NEW m \in 1..n PROVE a[m] < a[k] <=> m < k
        <3>1. m < k \/ k < m \/ k = m
            BY <1>1
        <3>2. (m < k => a[m] < a[k]) /\ (k < m => a[k] < a[m])
            BY <1>1
        <3> QED BY <2>2, <3>1, <3>2
    <2> QED BY <2>2, <2>3
<1>5. ASSUME NEW i \in 1..W
      PROVE  /\ i * c \in Nat /\ i * c >= 1 /\ (i - 1) * c \in Nat /\ (i - 1) * c = i * c - c
             /\ (i - 1) * c < n
             /\ i # 1 => i - 1 \in 1..W /\ (i - 1) * c \in 1..n
             /\ i * c < n => i * c \in 1..n /\ i + 1 \in 1..W
    <2>1. i \in Nat /\ i >= 1 /\ i <= W
        BY <1>2
    <2>2. i * c \in Nat /\ i * c >= c /\ (i - 1) * c = i * c - c
        BY <2>1
    <2>3. i # W => i <= W - 1
        BY <1>2, <2>1
    <2>4. i # W => i * c <= (W - 1) * c
        BY <1>2, <2>1, <2>3
    <2>5. (i - 1) * c < n
        <3>1. CASE i = W
            BY <1>2, <3>1
        <3>2. CASE i # W
            <4> DEFINE x == i * c
                       y == (i - 1) * c
                       z == (W - 1) * c
            <4>1. x \in Nat /\ y = x - c /\ x <= z /\ z < n /\ z \in Int
                BY <1>2, <2>2, <2>4, <3>2
            <4> HIDE DEF x, y, z
            <4>2. y < n
                BY <1>1, <4>1
            <4> QED BY <4>2 DEF y
        <3> QED BY <3>1, <3>2
    <2>6. i * c < n => i # W
        BY <1>1, <1>2
    <2>7. i # 1 => (i - 1) * c >= 1
        BY <2>1
    <2> QED BY <1>1, <1>2, <2>1, <2>2, <2>5, <2>6, <2>7
\* A window ends where the next one begins.
<1>6. ASSUME NEW i \in 1..W, i # 1 PROVE p[i - 1].until = p[i].after
    <2>1. i - 1 \in 1..W /\ ~((i - 1) * c >= n)
        BY <1>1, <1>5, <1>6
    <2> QED BY <1>2, <1>6, <2>1
<1>7. ASSUME NEW i \in 1..W, NEW j \in 1..W, i < j PROVE p[i].until <= p[j].after
    <2>1. i * c <= (j - 1) * c
        <3>1. i \in Nat /\ j - 1 \in Nat /\ i <= j - 1
            BY <1>2, <1>7
        <3> QED BY <3>1
    <2>2. j # 1 /\ i * c < n /\ i * c \in 1..n /\ (j - 1) * c \in 1..n
        <3>1. j # 1 /\ (j - 1) * c \in 1..n /\ (j - 1) * c < n
            <4>1. j # 1
                BY <1>2, <1>7
            <4> QED BY <1>5, <4>1
        <3>2. i * c \in Nat /\ i * c >= 1
            BY <1>5
        <3> QED BY <1>1, <2>1, <3>1, <3>2
    <2>3. p[i].until = a[i * c] /\ p[j].after = a[(j - 1) * c]
        BY <1>1, <1>2, <2>2
    <2> DEFINE x == i * c
               y == (j - 1) * c
    <2>4. x \in 1..n /\ y \in 1..n /\ x <= y /\ p[i].until = a[x] /\ p[j].after = a[y]
        BY <2>1, <2>2, <2>3
    <2> HIDE DEF x, y
    <2>5. a[x] < a[y] \/ x = y
        BY <1>1, <1>4, <2>4
    <2> QED BY <1>4, <2>4, <2>5
<1>8. Union(p) = Cells
    <2>1. \A x \in Union(p) : x \in Cells
        BY <1>2, <1>3, UnionIs, RangeType
    <2>2. ASSUME NEW x \in Cells PROVE x \in Union(p)
        <3> DEFINE Reach == {i \in 1..W : x <= p[i].until}
        <3>1. W \in 1..W /\ p[W].until = Open
            BY <1>1, <1>2
        <3>2. x \in Nat /\ 0 < x /\ x <= Open
            BY MaxKeyAssumption DEF Cells, Open
        <3>3. W \in Reach /\ Reach \in SUBSET Nat
            BY <1>2, <3>1, <3>2
        <3>4. PICK i \in Reach : \A j \in Reach : i <= j
            <4> HIDE DEF Reach
            <4> QED BY <3>3, LeastNatural
        <3>5. p[i].after < x
            <4>1. CASE i = 1
                BY <1>2, <3>2, <4>1
            <4>2. CASE i # 1
                <5>1. i - 1 \in 1..W /\ i - 1 \notin Reach
                    BY <1>5, <3>4, <4>2
                <5>2. p[i - 1].until \in Nat
                    BY <1>3, <5>1, RangeType
                <5> QED BY <1>6, <3>2, <3>4, <4>2, <5>1, <5>2
            <4> QED BY <4>1, <4>2
        <3>6. i \in 1..W /\ x \in CellsOf(p[i])
            BY <1>3, <3>2, <3>4, <3>5, RangeType
        <3> QED BY <1>2, <3>6, UnionIs
    <2> QED BY <2>1, <2>2
<1>9. ASSUME NEW i \in 1..W, NEW j \in 1..W, i < j PROVE CellsOf(p[i]) \cap CellsOf(p[j]) = {}
    <2>1. \A x : x \in CellsOf(p[i]) => x \in Nat /\ x <= p[i].until
        BY <1>3, RangeType
    <2>2. \A x : x \in CellsOf(p[j]) => p[j].after < x
        BY <1>3, RangeType
    <2>3. p[i].until \in Nat /\ p[j].after \in Nat /\ p[i].until <= p[j].after
        BY <1>3, <1>7, <1>9, RangeType
    <2> QED BY <2>1, <2>2, <2>3
<1>10. ASSUME NEW i \in 1..W PROVE Cardinality(RecipientsInSlice(S, p[i])) \in 1..c
    <2> DEFINE lo == (i - 1) * c + 1
               hi == IF i * c >= n THEN n ELSE i * c
               R == RecipientsInSlice(S, p[i])
    <2>1. lo \in 1..n /\ hi \in 1..n /\ lo <= hi /\ hi - lo + 1 \in 1..c
        BY <1>1, <1>5
    <2>2. ASSUME NEW k \in 1..n PROVE a[k] \in R <=> k \in lo..hi
        <3>1. a[k] \in R <=> p[i].after < a[k] /\ a[k] <= p[i].until
            BY <1>1 DEF RecipientsInSlice
        <3>2. p[i].after < a[k] <=> lo <= k
            <4>1. CASE i = 1
                BY <1>2, <1>4, <4>1
            <4>2. CASE i # 1
                <5> DEFINE m == (i - 1) * c
                <5>1. m \in 1..n /\ p[i].after = a[m]
                    BY <1>2, <1>5, <4>2
                <5> HIDE DEF m
                <5>2. a[m] < a[k] <=> m < k
                    BY <1>4, <5>1
                <5> QED BY <1>1, <5>1, <5>2 DEF m
            <4> QED BY <4>1, <4>2
        <3>3. a[k] <= p[i].until <=> k <= hi
            <4>1. CASE i * c >= n
                BY <1>2, <1>4, <4>1, MaxKeyAssumption DEF Open
            <4>2. CASE ~(i * c >= n)
                <5> DEFINE m == i * c
                <5>1. m \in 1..n /\ p[i].until = a[m]
                    BY <1>1, <1>2, <1>5, <4>2
                <5> HIDE DEF m
                <5>2. a[k] <= a[m] <=> k <= m
                    <6>1. a[m] < a[k] <=> m < k
                        BY <1>4, <5>1
                    <6>2. a[m] \in Nat /\ a[k] \in Nat
                        BY <1>4, <5>1
                    <6> QED BY <1>1, <5>1, <6>1, <6>2
                <5> QED BY <4>2, <5>1, <5>2 DEF m
            <4> QED BY <4>1, <4>2
        <3> QED BY <2>1, <3>1, <3>2, <3>3
    <2> DEFINE b == [k \in lo..hi |-> a[k]]
    <2>3. lo..hi \subseteq 1..n /\ R \subseteq S
        <3>1. R \subseteq S
            BY DEF RecipientsInSlice
        <3>2. \A k \in lo..hi : k \in 1..n
            <4> HIDE DEF lo, hi
            <4> QED BY <1>1, <2>1
        <3> HIDE DEF lo, hi, R
        <3> QED BY <3>1, <3>2
    <2> HIDE DEF lo, hi, R
    <2>4. b \in [lo..hi -> R]
        BY <2>2, <2>3
    <2>5. \A k, m \in lo..hi : b[k] = b[m] => k = m
        <3> SUFFICES ASSUME NEW k \in lo..hi, NEW m \in lo..hi, k # m PROVE b[k] # b[m]
            OBVIOUS
        <3>1. k \in 1..n /\ m \in 1..n /\ b[k] = a[k] /\ b[m] = a[m]
            BY <2>3
        <3>2. k < m \/ m < k
            BY <1>1, <3>1
        <3> QED BY <1>1, <1>4, <3>1, <3>2
    <2>6. \A x \in R : \E k \in lo..hi : b[k] = x
        BY <1>1, <2>2, <2>3
    <2>7. b \in Bijection(lo..hi, R)
        BY <2>4, <2>5, <2>6 DEF Bijection, Injection, Surjection, IsInjective
    <2>8. Cardinality(R) = Cardinality(lo..hi) /\ Cardinality(lo..hi) = hi - lo + 1
        <3>1. lo \in Int /\ hi \in Int /\ ~(lo > hi)
            BY <2>1
        <3>2. IsFiniteSet(lo..hi) /\ Cardinality(lo..hi) = hi - lo + 1
            BY <3>1, FS_Interval
        <3>3. ExistsBijection(lo..hi, R)
            BY <2>7 DEF ExistsBijection
        <3> QED BY <3>2, <3>3, FS_Bijection
    <2> QED BY <2>1, <2>8 DEF R
<1> QED
    <2>1. \A i, j \in 1..W : i # j => CellsOf(p[i]) \cap CellsOf(p[j]) = {}
        <3> SUFFICES ASSUME NEW i \in 1..W, NEW j \in 1..W, i # j
                     PROVE  CellsOf(p[i]) \cap CellsOf(p[j]) = {}
            OBVIOUS
        <3>1. i < j \/ j < i
            BY <1>2
        <3> QED BY <1>9, <3>1
    <2> QED BY <1>2, <1>3, <1>8, <1>10, <2>1 DEF p

-----------------------------------------------------------------------------
(* The fan-out.                                                            *)

Messages == AllRanges \cup {RootMsg}
Labels == {"idle", "plan", "enqueue", "list", "send"}

FanOutTypeOK ==
    /\ confirmed \in SUBSET Ids /\ steady \subseteq confirmed
    /\ queue \subseteq Messages /\ dead \subseteq queue
    /\ pc \in [Workers -> Labels]
    /\ job \in [Workers -> Messages \cup {NoMsg}]
    /\ plan \in [Workers -> Seq(AllRanges)]
    /\ todo \in [Workers -> SUBSET Ids]
    /\ mailed \in SUBSET Ids
    /\ left \in [join : Nat, leave : Nat, crash : Nat]
    /\ \A w \in Workers : /\ pc[w] # "idle" => job[w] \in Messages
                          /\ pc[w] \in {"plan", "enqueue"} => job[w] = RootMsg

LEMMA WindowType ==
    /\ Whole \in AllRanges /\ CellsOf(Whole) = Cells
    /\ \A m \in Messages : WindowOf(m) \in AllRanges
<1>1. Whole \in AllRanges /\ Whole.after = 0 /\ Whole.until = Open
    BY MaxKeyAssumption DEF Whole, Range0, AllRanges, Cells, Open
<1>2. CellsOf(Whole) = Cells
    BY <1>1 DEF CellsOf, Cells
<1> QED BY <1>1, <1>2 DEF WindowOf, Messages

LEMMA PlanType ==
    ASSUME NEW S \in SUBSET Ids, Cardinality(S) > Chunk
    PROVE  /\ S # {} /\ Chunk \in Nat \ {0}
           /\ PlanFanOut(S, Chunk) \in Seq(AllRanges) /\ Union(PlanFanOut(S, Chunk)) = Cells
<1>1. S # {} /\ Chunk \in Nat \ {0}
    BY FS_EmptySet, FanOutAssumption
<1> QED BY <1>1, PlanIsPartition

\* An invocation that leaves is idle.
LEMMA LeaveIs ==
    ASSUME FanOutTypeOK, NEW w \in Workers, Leave(w)
    PROVE  /\ pc' = [pc EXCEPT ![w] = "idle"] /\ pc' \in [Workers -> Labels]
           /\ job' = [job EXCEPT ![w] = NoMsg] /\ job' \in [Workers -> Messages \cup {NoMsg}]
           /\ plan' = [plan EXCEPT ![w] = <<>>] /\ plan' \in [Workers -> Seq(AllRanges)]
           /\ todo' = [todo EXCEPT ![w] = {}] /\ todo' \in [Workers -> SUBSET Ids]
           /\ pc'[w] = "idle"
           /\ \A v \in Workers : v # w => pc'[v] = pc[v] /\ job'[v] = job[v] /\ plan'[v] = plan[v]
                                          /\ todo'[v] = todo[v]
BY DEF FanOutTypeOK, Leave, Labels

LEMMA LeaveType ==
    ASSUME FanOutTypeOK, NEW w \in Workers, Leave(w), UNCHANGED <<confirmed, steady, mailed>>,
           queue' \subseteq queue, dead' \subseteq queue', left' \in [join : Nat, leave : Nat, crash : Nat]
    PROVE  FanOutTypeOK'
BY LeaveIs DEF FanOutTypeOK

\* The next recipient is one of the list.
LEMMA NextRecipient ==
    ASSUME NEW S \in SUBSET Ids, S # {}
    PROVE  (CHOOSE p \in S : \A q \in S : p <= q) \in S
<1>1. S \in SUBSET Nat
    BY MaxKeyAssumption DEF Ids
<1> QED BY <1>1, LeastNatural

LEMMA LeftType ==
    ASSUME FanOutTypeOK
    PROVE  /\ left.crash > 0 => [left EXCEPT !.crash = @ - 1] \in [join : Nat, leave : Nat, crash : Nat]
           /\ left.join > 0 => [left EXCEPT !.join = @ - 1] \in [join : Nat, leave : Nat, crash : Nat]
           /\ left.leave > 0 => [left EXCEPT !.leave = @ - 1] \in [join : Nat, leave : Nat, crash : Nat]
<1>1. /\ left \in [join : Nat, leave : Nat, crash : Nat]
      /\ left.crash \in Nat /\ left.join \in Nat /\ left.leave \in Nat
    BY DEF FanOutTypeOK
<1>2. /\ left.crash > 0 => left.crash - 1 \in Nat
      /\ left.join > 0 => left.join - 1 \in Nat
      /\ left.leave > 0 => left.leave - 1 \in Nat
    BY <1>1
<1> QED BY <1>1, <1>2

LEMMA NextType ==
    ASSUME FanOutTypeOK, [Next]_vars
    PROVE  FanOutTypeOK'
<1>1. CASE UNCHANGED vars
    BY <1>1 DEF FanOutTypeOK, vars
<1> SUFFICES ASSUME Next PROVE FanOutTypeOK'
    BY <1>1
<1>2. ASSUME NEW w \in Workers, NEW m \in AllRanges \cup {RootMsg}, Receive(w, m)
      PROVE  FanOutTypeOK'
    <2>1. left' \in [join : Nat, leave : Nat, crash : Nat]
        <3>1. left' = left \/ (left.crash > 0 /\ left' = [left EXCEPT !.crash = @ - 1])
            BY <1>2 DEF Receive
        <3> QED BY <3>1, LeftType DEF FanOutTypeOK
    <2>2. m \in Messages
        BY DEF Messages
    <2>3. job' = [job EXCEPT ![w] = m] /\ UNCHANGED <<confirmed, queue, dead, plan, todo, mailed, steady>>
        BY <1>2 DEF Receive
    <2>4. PICK label \in {"plan", "list"} : pc' = [pc EXCEPT ![w] = label]
        BY <1>2 DEF Receive, Goto
    <2>5. label \in Labels /\ label # "enqueue" /\ label # "idle"
        BY DEF Labels
    <2>6. pc' \in [Workers -> Labels] /\ job' \in [Workers -> Messages \cup {NoMsg}]
        BY <2>2, <2>3, <2>4, <2>5 DEF FanOutTypeOK
    <2>7. ASSUME NEW v \in Workers
          PROVE  (pc'[v] # "idle" => job'[v] \in Messages) /\ (pc'[v] \in {"enqueue", "plan"} => job'[v] = RootMsg)
        BY <1>2, <2>2, <2>3, <2>4, <2>5 DEF FanOutTypeOK, Receive, Goto
    <2> QED BY <2>1, <2>3, <2>6, <2>7 DEF FanOutTypeOK
<1>3. ASSUME NEW w \in Workers, Plan(w) PROVE FanOutTypeOK'
    <2>1. Cardinality(confirmed) \in Nat /\ Chunk \in Nat
        BY IdsFinite, FanOutAssumption DEF FanOutTypeOK
    <2>2. CASE Cardinality(confirmed) <= Chunk
        BY <1>3, <2>2 DEF FanOutTypeOK, Plan, Goto, Labels
    <2>3. CASE ~(Cardinality(confirmed) <= Chunk)
        <3>1. PlanFanOut(confirmed, Chunk) \in Seq(AllRanges)
            <4>1. confirmed \in SUBSET Ids /\ Cardinality(confirmed) > Chunk
                BY <2>1, <2>3 DEF FanOutTypeOK
            <4> QED BY <4>1, PlanType
        <3> QED BY <1>3, <2>3, <3>1 DEF FanOutTypeOK, Plan, Goto, Labels
    <2> QED BY <2>2, <2>3
<1>4. ASSUME NEW w \in Workers, Enqueue(w) PROVE FanOutTypeOK'
    <2>1. plan[w] \in Seq(AllRanges) /\ plan[w] # <<>>
        BY <1>4 DEF FanOutTypeOK, Enqueue
    <2>2. Head(plan[w]) \in AllRanges /\ Tail(plan[w]) \in Seq(AllRanges)
        BY <2>1
    <2> QED BY <1>4, <2>2 DEF FanOutTypeOK, Enqueue, Messages
<1>5. ASSUME NEW w \in Workers, FannedOut(w) \/ Skip(w) \/ Complete(w) PROVE FanOutTypeOK'
    <2>1. Leave(w) /\ UNCHANGED <<confirmed, steady, mailed, left>>
          /\ queue' \subseteq queue /\ dead' \subseteq queue'
        BY <1>5 DEF FannedOut, Skip, Complete, Delete, FanOutTypeOK
    <2> QED BY <2>1, LeaveType DEF FanOutTypeOK
<1>6. ASSUME NEW w \in Workers, List(w) PROVE FanOutTypeOK'
    BY <1>6 DEF FanOutTypeOK, List, Goto, RecipientsInSlice, Labels
<1>7. ASSUME NEW w \in Workers, SendNext(w) PROVE FanOutTypeOK'
    <2>1. PICK r \in todo[w] : mailed' = mailed \cup {r} /\ todo' = [todo EXCEPT ![w] = @ \ {r}]
        BY <1>7, NextRecipient DEF FanOutTypeOK, SendNext
    <2> QED BY <1>7, <2>1 DEF FanOutTypeOK, SendNext
<1>8. ASSUME NEW w \in Workers, Fail(w) \/ DeadLetter(w) PROVE FanOutTypeOK'
    <2>1. left' \in [join : Nat, leave : Nat, crash : Nat]
        BY <1>8, LeftType DEF Fail, DeadLetter
    <2>2. Leave(w) /\ UNCHANGED <<confirmed, steady, mailed, queue>> /\ dead' \subseteq queue'
        BY <1>8 DEF Fail, DeadLetter, FanOutTypeOK
    <2> QED BY <2>1, <2>2, LeaveType
<1>9. ASSUME NEW p \in Ids, Join(p) \/ Depart(p) PROVE FanOutTypeOK'
    <2>1. left' \in [join : Nat, leave : Nat, crash : Nat]
        BY <1>9, LeftType DEF Join, Depart
    <2> QED BY <1>9, <2>1 DEF FanOutTypeOK, Join, Depart
<1>10. ASSUME NEW m \in AllRanges \cup {RootMsg}, Replay(m) PROVE FanOutTypeOK'
    BY <1>10 DEF FanOutTypeOK, Replay
<1> QED BY <1>2, <1>3, <1>4, <1>5, <1>6, <1>7, <1>8, <1>9, <1>10 DEF Next, WorkerStep

\* Readers of an open window who were confirmed all along are listed or mailed.
Listed ==
    \A w \in Workers : pc[w] = "send" =>
        steady \cap CellsOf(WindowOf(job[w])) \subseteq mailed \cup todo[w]

\* What the windows that an invocation has still to enqueue leave out is in a window
\* of the queue or on record.
PlanCovers ==
    \A w \in Workers : pc[w] = "enqueue" =>
        \A x \in Cells : \/ x \in Union(plan[w]) \/ x \in Union(ranges)
                         \/ \E m \in queue \ {RootMsg} : x \in CellsOf(m)

FanOutInv ==
    /\ Gapped(ranges)
    /\ Listed /\ DeliveredIsMailed
    /\ PlanCovers /\ NoKeyLost

\* A completed record covers everything.
LEMMA CompleteCovers ==
    ASSUME Gapped(ranges), IsComplete(ranges)
    PROVE  Union(ranges) = Cells
<1>1. ranges \in Seq(AllRanges) /\ Len(ranges) = 1 /\ ranges[1] = Whole
    BY DEF Gapped, IsComplete
<1>2. \A x : x \in Union(ranges) <=> x \in CellsOf(ranges[1])
    BY <1>1, UnionIs
<1> QED BY <1>1, <1>2, WindowType

\* A window that completes adds its cells to the record.
LEMMA CompleteIs ==
    ASSUME FanOutTypeOK, Gapped(ranges), NEW w \in Workers, Complete(w)
    PROVE  /\ Gapped(ranges') /\ WindowOf(job[w]) \in AllRanges
           /\ Union(ranges') = Union(ranges) \cup CellsOf(WindowOf(job[w]))
<1>1. WindowOf(job[w]) \in AllRanges
    BY WindowType DEF FanOutTypeOK, Complete
<1>2. CASE IsComplete(ranges)
    <2>1. ranges' = ranges
        BY <1>2 DEF Complete
    <2>2. Union(ranges) = Cells /\ CellsOf(WindowOf(job[w])) \subseteq Cells
        BY <1>1, <1>2, CompleteCovers, RangeType
    <2> QED BY <1>1, <2>1, <2>2
<1>3. CASE ~IsComplete(ranges)
    <2>1. ranges' = MergeRange(ranges, WindowOf(job[w]))
        BY <1>3 DEF Complete
    <2> QED BY <1>1, <2>1, MergeRangeIs
<1> QED BY <1>2, <1>3

LEMMA NextListed ==
    ASSUME FanOutTypeOK, Listed, [Next]_vars
    PROVE  Listed'
<1>1. CASE UNCHANGED vars
    BY <1>1 DEF Listed, vars
<1> SUFFICES ASSUME Next PROVE Listed'
    BY <1>1
<1>2. ASSUME NEW w \in Workers, Leave(w), steady' \subseteq steady, mailed' = mailed PROVE Listed'
    BY <1>2, LeaveIs DEF Listed
<1>3. ASSUME NEW w \in Workers, NEW m \in AllRanges \cup {RootMsg}, Receive(w, m) PROVE Listed'
    <2>1. \A v \in Workers : pc'[v] = "send" => pc[v] = "send" /\ job'[v] = job[v]
        BY <1>3 DEF FanOutTypeOK, Receive, Goto
    <2> QED BY <1>3, <2>1 DEF Listed, Receive
<1>4. ASSUME NEW w \in Workers, Plan(w) \/ Enqueue(w) PROVE Listed'
    <2>1. \A v \in Workers : pc'[v] = "send" => pc[v] = "send"
        BY <1>4 DEF FanOutTypeOK, Plan, Enqueue, Goto
    <2> QED BY <1>4, <2>1 DEF Listed, Plan, Enqueue
<1>5. ASSUME NEW w \in Workers, FannedOut(w) \/ Skip(w) \/ Complete(w) \/ Fail(w) \/ DeadLetter(w)
      PROVE  Listed'
    BY <1>2, <1>5 DEF FannedOut, Skip, Complete, Fail, DeadLetter
<1>6. ASSUME NEW w \in Workers, List(w) PROVE Listed'
    <2>1. todo'[w] = RecipientsInSlice(confirmed, WindowOf(job[w]))
          /\ UNCHANGED <<job, mailed, steady>> /\ steady \subseteq confirmed
        BY <1>6 DEF FanOutTypeOK, List
    <2>2. WindowOf(job[w]) \in AllRanges
        BY <1>6, WindowType DEF FanOutTypeOK, List
    <2>3. steady \cap CellsOf(WindowOf(job[w])) \subseteq todo'[w]
        BY <2>1, <2>2, RangeType DEF RecipientsInSlice
    <2>4. \A v \in Workers : v # w => pc'[v] = pc[v] /\ todo'[v] = todo[v]
        BY <1>6 DEF FanOutTypeOK, List, Goto
    <2> QED BY <2>1, <2>3, <2>4 DEF Listed
<1>7. ASSUME NEW w \in Workers, SendNext(w) PROVE Listed'
    <2>1. PICK r : mailed' = mailed \cup {r} /\ todo' = [todo EXCEPT ![w] = @ \ {r}]
        BY <1>7 DEF SendNext
    <2>2. \A v \in Workers : mailed \cup todo[v] \subseteq mailed' \cup todo'[v]
        BY <2>1 DEF FanOutTypeOK
    <2> QED BY <1>7, <2>2 DEF Listed, SendNext
<1>8. ASSUME NEW p \in Ids, Join(p) \/ Depart(p) PROVE Listed'
    BY <1>8 DEF Listed, Join, Depart
<1>9. ASSUME NEW m \in AllRanges \cup {RootMsg}, Replay(m) PROVE Listed'
    BY <1>9 DEF Listed, Replay
<1> QED BY <1>3, <1>4, <1>5, <1>6, <1>7, <1>8, <1>9 DEF Next, WorkerStep

LEMMA NextDelivered ==
    ASSUME FanOutTypeOK, Gapped(ranges), Listed, DeliveredIsMailed, [Next]_vars
    PROVE  Gapped(ranges') /\ DeliveredIsMailed'
<1>1. CASE UNCHANGED ranges /\ steady' \subseteq steady /\ mailed \subseteq mailed'
    BY <1>1 DEF DeliveredIsMailed
<1>2. ASSUME NEW w \in Workers, Complete(w) PROVE Gapped(ranges') /\ DeliveredIsMailed'
    <2>1. steady \cap CellsOf(WindowOf(job[w])) \subseteq mailed
        BY <1>2 DEF Listed, Complete
    <2>2. UNCHANGED <<steady, mailed>>
        BY <1>2 DEF Complete
    <2> QED BY <1>2, <2>1, <2>2, CompleteIs DEF DeliveredIsMailed
<1>3. ASSUME ~\E w \in Workers : Complete(w)
      PROVE  UNCHANGED ranges /\ steady' \subseteq steady /\ mailed \subseteq mailed'
    BY <1>3 DEF vars, Next, WorkerStep, Receive, Plan, Enqueue, FannedOut, Skip, List, SendNext, Fail, DeadLetter, Replay,
                Join, Depart
<1> QED BY <1>1, <1>2, <1>3

\* What is in a message of the queue, or on record, stays so.
LEMMA NextKept ==
    ASSUME FanOutTypeOK, Gapped(ranges), [Next]_vars, NEW x \in Cells, NEW m \in queue, m # RootMsg,
           x \in CellsOf(m)
    PROVE  m \in queue' \/ x \in Union(ranges')
<1>1. CASE UNCHANGED queue
    BY <1>1
<1>2. ASSUME NEW w \in Workers, Enqueue(w) PROVE m \in queue'
    BY <1>2 DEF Enqueue
<1>3. ASSUME NEW w \in Workers, FannedOut(w) PROVE m \in queue'
    BY <1>3 DEF FannedOut, Delete, FanOutTypeOK
<1>4. ASSUME NEW w \in Workers, Skip(w) PROVE x \in Union(ranges')
    <2>1. Union(ranges) = Cells /\ ranges' = ranges
        BY <1>4, CompleteCovers DEF Skip
    <2> QED BY <2>1
<1>5. ASSUME NEW w \in Workers, Complete(w) PROVE m \in queue' \/ x \in Union(ranges')
    <2>1. CASE job[w] = m
        BY <1>5, <2>1, CompleteIs DEF WindowOf
    <2>2. CASE job[w] # m
        BY <1>5, <2>2 DEF Complete, Delete
    <2> QED BY <2>1, <2>2
<1> QED BY <1>1, <1>2, <1>3, <1>4, <1>5
        DEF vars, Next, WorkerStep, Receive, Plan, List, SendNext, Fail,
            DeadLetter, Replay, Join, Depart

LEMMA NextRecorded ==
    ASSUME FanOutTypeOK, Gapped(ranges), [Next]_vars
    PROVE  Union(ranges) \subseteq Union(ranges')
<1>1. CASE UNCHANGED ranges
    BY <1>1
<1>2. ASSUME NEW w \in Workers, Complete(w) PROVE Union(ranges) \subseteq Union(ranges')
    BY <1>2, CompleteIs
<1> QED BY <1>1, <1>2
        DEF vars, Next, WorkerStep, Receive, Plan, Enqueue, FannedOut, Skip, List, SendNext, Fail,
            DeadLetter, Replay, Join, Depart

\* The first of the windows to be enqueued, and the rest.
LEMMA HeadAndTail ==
    ASSUME NEW p \in Seq(AllRanges), p # <<>>
    PROVE  Head(p) \in AllRanges /\ Union(p) \subseteq CellsOf(Head(p)) \cup Union(Tail(p))
<1>1. /\ Head(p) = p[1] /\ Len(p) \in Nat /\ Len(p) > 0 /\ p[1] \in AllRanges
      /\ Tail(p) \in Seq(AllRanges) /\ Len(Tail(p)) = Len(p) - 1
      /\ \A i \in 1..(Len(p) - 1) : Tail(p)[i] = p[i + 1]
    OBVIOUS
<1>2. ASSUME NEW i \in 1..Len(p), i # 1 PROVE i - 1 \in 1..Len(Tail(p)) /\ Tail(p)[i - 1] = p[i]
    BY <1>1, <1>2
<1>3. ASSUME NEW x, x \in Union(p), x \notin CellsOf(Head(p)) PROVE x \in Union(Tail(p))
    <2>1. PICK i \in 1..Len(p) : x \in CellsOf(p[i])
        BY <1>3, UnionIs
    <2>2. i # 1
        BY <1>1, <1>3, <2>1
    <2> QED BY <1>1, <1>2, <2>1, <2>2, UnionIs
<1> QED BY <1>1, <1>3

LEMMA NextPlanCovers ==
    ASSUME FanOutTypeOK, Gapped(ranges), PlanCovers, [Next]_vars
    PROVE  PlanCovers'
<1> SUFFICES ASSUME NEW v \in Workers, pc'[v] = "enqueue", NEW x \in Cells, x \notin Union(plan'[v])
             PROVE  x \in Union(ranges') \/ \E m \in queue' \ {RootMsg} : x \in CellsOf(m)
    BY DEF PlanCovers
<1>1. ASSUME pc[v] = "enqueue", x \in Union(plan[v]) => x \in Union(plan'[v])
      PROVE  x \in Union(ranges') \/ \E m \in queue' \ {RootMsg} : x \in CellsOf(m)
    <2>1. x \in Union(ranges) \/ \E m \in queue \ {RootMsg} : x \in CellsOf(m)
        BY <1>1 DEF PlanCovers
    <2> QED BY <2>1, NextKept, NextRecorded
<1>2. ASSUME pc'[v] = pc[v], plan'[v] = plan[v]
      PROVE  x \in Union(ranges') \/ \E m \in queue' \ {RootMsg} : x \in CellsOf(m)
    BY <1>1, <1>2
<1>3. CASE UNCHANGED vars
    BY <1>2, <1>3 DEF vars
<1>4. ASSUME NEW w \in Workers, NEW m \in AllRanges \cup {RootMsg}, Receive(w, m)
      PROVE  pc'[v] = pc[v] /\ plan'[v] = plan[v]
    BY <1>4 DEF FanOutTypeOK, Receive, Goto
<1>5. ASSUME NEW w \in Workers, Plan(w)
      PROVE  x \in Union(ranges') \/ \E m \in queue' \ {RootMsg} : x \in CellsOf(m)
    <2>1. CASE v # w
        <3>1. pc'[v] = pc[v] /\ plan'[v] = plan[v]
            BY <1>5, <2>1 DEF FanOutTypeOK, Plan, Goto
        <3> QED BY <1>2, <3>1
    <2>2. CASE v = w
        <3>1. ~(Cardinality(confirmed) <= Chunk) /\ plan'[v] = PlanFanOut(confirmed, Chunk)
            BY <1>5, <2>2 DEF FanOutTypeOK, Plan, Goto
        <3>2. confirmed \in SUBSET Ids
            BY DEF FanOutTypeOK
        <3>3. Cardinality(confirmed) \in Nat /\ Chunk \in Nat
            BY <3>2, IdsFinite, FanOutAssumption
        <3>4. Cardinality(confirmed) > Chunk
            BY <3>1, <3>3
        <3> QED BY <3>1, <3>2, <3>4, PlanType
    <2> QED BY <2>1, <2>2
<1>6. ASSUME NEW w \in Workers, Enqueue(w)
      PROVE  x \in Union(ranges') \/ \E m \in queue' \ {RootMsg} : x \in CellsOf(m)
    <2>1. CASE v # w
        <3>1. pc'[v] = pc[v] /\ plan'[v] = plan[v]
            BY <1>6, <2>1 DEF FanOutTypeOK, Enqueue
        <3> QED BY <1>2, <3>1
    <2>2. CASE v = w
        <3>1. /\ plan[v] \in Seq(AllRanges) /\ plan[v] # <<>> /\ plan'[v] = Tail(plan[v])
              /\ queue' = queue \cup {Head(plan[v])} /\ pc[v] = "enqueue"
            BY <1>6, <2>2 DEF FanOutTypeOK, Enqueue
        <3>2. Head(plan[v]) \in queue' \ {RootMsg}
            BY <3>1, HeadAndTail, FanOutAssumption
        <3>3. CASE x \in CellsOf(Head(plan[v]))
            BY <3>2, <3>3
        <3>4. CASE x \notin CellsOf(Head(plan[v]))
            BY <1>1, <3>1, <3>4, HeadAndTail
        <3> QED BY <3>3, <3>4
    <2> QED BY <2>1, <2>2
<1>7. ASSUME NEW w \in Workers, FannedOut(w) \/ Skip(w) \/ Complete(w) \/ Fail(w) \/ DeadLetter(w)
      PROVE  pc'[v] = pc[v] /\ plan'[v] = plan[v]
    <2>1. Leave(w)
        BY <1>7 DEF FannedOut, Skip, Complete, Fail, DeadLetter
    <2> QED BY <2>1, LeaveIs
<1>8. ASSUME NEW w \in Workers, List(w) \/ SendNext(w) PROVE pc'[v] = pc[v] /\ plan'[v] = plan[v]
    BY <1>8 DEF FanOutTypeOK, List, SendNext, Goto
<1>9. ASSUME NEW p \in Ids, Join(p) \/ Depart(p) PROVE pc'[v] = pc[v] /\ plan'[v] = plan[v]
    BY <1>9 DEF Join, Depart
<1>10. ASSUME NEW m \in AllRanges \cup {RootMsg}, Replay(m) PROVE pc'[v] = pc[v] /\ plan'[v] = plan[v]
    BY <1>10 DEF Replay
<1> QED BY <1>2, <1>3, <1>4, <1>5, <1>6, <1>7, <1>8, <1>9, <1>10 DEF Next, WorkerStep

\* A key of a recorded range or of a message in the queue stays so.
LEMMA NextNoKeyLost ==
    ASSUME FanOutTypeOK, Gapped(ranges), PlanCovers, NoKeyLost, [Next]_vars
    PROVE  NoKeyLost'
<1> DEFINE Held(q) == UNION {CellsOf(WindowOf(m)) : m \in q}
<1>1. Gapped(ranges') /\ queue' \subseteq Messages
    <2>1. FanOutTypeOK'
        BY NextType
    <2>2. CASE UNCHANGED ranges
        BY <2>1, <2>2 DEF FanOutTypeOK
    <2>3. ASSUME NEW w \in Workers, Complete(w) PROVE Gapped(ranges')
        BY <2>3, CompleteIs
    <2> QED BY <2>1, <2>2, <2>3
            DEF FanOutTypeOK, vars, Next, WorkerStep, Receive, Plan, Enqueue, FannedOut, Skip, List,
                SendNext, Fail,
            DeadLetter, Replay, Join, Depart
<1>2. Union(ranges') \cup Held(queue') \subseteq Cells
    <2>1. Union(ranges') \subseteq Cells
        <3>1. ranges' \in Seq(AllRanges)
            BY <1>1 DEF Gapped
        <3> QED BY <3>1, RangeType, UnionIs
    <2>2. \A m \in queue' : CellsOf(WindowOf(m)) \subseteq Cells
        BY <1>1, WindowType, RangeType
    <2> QED BY <2>1, <2>2
<1>3. ASSUME NEW x \in Cells PROVE x \in Union(ranges') \cup Held(queue')
    <2>1. ASSUME NEW m \in queue' \ {RootMsg}, x \in CellsOf(m) PROVE x \in Held(queue')
        BY <2>1 DEF WindowOf
    <2>2. ASSUME x \in Union(ranges) \/ \E m \in queue \ {RootMsg} : x \in CellsOf(m)
          PROVE  x \in Union(ranges') \cup Held(queue')
        BY <2>1, <2>2, NextKept, NextRecorded
    <2>3. CASE RootMsg \in queue'
        BY <2>3, WindowType DEF WindowOf
    <2>4. CASE RootMsg \in queue /\ RootMsg \notin queue'
        <3>1. PICK w \in Workers : (FannedOut(w) \/ Skip(w) \/ Complete(w)) /\ job[w] = RootMsg
            BY <2>4 DEF Delete, vars, Next, WorkerStep, Receive, Plan, Enqueue, FannedOut, Skip, Complete, List,
                        SendNext, Fail,
            DeadLetter, Replay, Join, Depart
        <3>2. CASE FannedOut(w)
            <4>1. Union(plan[w]) = {} /\ pc[w] = "enqueue"
                BY <3>2 DEF FannedOut, Union
            <4> QED BY <2>2, <4>1 DEF PlanCovers
        <3>3. CASE Skip(w)
            <4>1. Union(ranges) = Cells
                BY <3>3, CompleteCovers DEF Skip
            <4> QED BY <2>2, <4>1
        <3>4. CASE Complete(w)
            <4>1. x \in Union(ranges')
                BY <3>1, <3>4, CompleteIs, WindowType DEF WindowOf
            <4> QED BY <4>1
        <3> QED BY <3>1, <3>2, <3>3, <3>4
    <2>5. CASE RootMsg \notin queue
        <3>1. x \in Union(ranges) \/ \E m \in queue : x \in CellsOf(WindowOf(m))
            BY DEF NoKeyLost
        <3>2. \A m \in queue : m # RootMsg /\ WindowOf(m) = m
            BY <2>5 DEF WindowOf
        <3> QED BY <2>2, <3>1, <3>2
    <2> QED BY <2>3, <2>4, <2>5
<1>4. Union(ranges') \cup Held(queue') = Cells
    BY <1>2, <1>3
<1> QED BY <1>4 DEF NoKeyLost, WindowOf

LEMMA InitFanOut ==
    ASSUME Init
    PROVE  FanOutTypeOK /\ FanOutInv
<1>1. FanOutTypeOK
    BY FanOutAssumption DEF Init, FanOutTypeOK, Messages, Labels
<1>2. ranges = <<>> /\ Gapped(ranges) /\ Union(ranges) = {}
    BY DEF Init, Gapped, Union
<1>3. Listed /\ PlanCovers /\ DeliveredIsMailed
    BY <1>2 DEF Init, Listed, PlanCovers, DeliveredIsMailed
<1>4. NoKeyLost
    <2>1. {CellsOf(WindowOf(m)) : m \in queue} = {Cells}
        BY WindowType DEF Init, WindowOf
    <2> QED BY <1>2, <2>1 DEF NoKeyLost
<1> QED BY <1>1, <1>2, <1>3, <1>4 DEF FanOutInv

LEMMA NextFanOut ==
    ASSUME FanOutTypeOK, FanOutInv, [Next]_vars
    PROVE  FanOutTypeOK' /\ FanOutInv'
<1>1. FanOutTypeOK' /\ Listed' /\ PlanCovers' /\ NoKeyLost'
    BY NextType, NextListed, NextPlanCovers, NextNoKeyLost DEF FanOutInv
<1>2. Gapped(ranges') /\ DeliveredIsMailed'
    BY NextDelivered DEF FanOutInv
<1> QED BY <1>1, <1>2 DEF FanOutInv

LEMMA FanOutHolds == Spec => [](FanOutTypeOK /\ FanOutInv)
<1>1. FanOutTypeOK /\ FanOutInv /\ [Next]_vars => (FanOutTypeOK /\ FanOutInv)'
    BY NextFanOut
<1> QED BY <1>1, InitFanOut, PTL DEF Spec

-----------------------------------------------------------------------------
(* The theorems.                                                           *)

\* The state keeps its types; an invocation that holds no message is idle, and only
\* the message without a slice is planned.
THEOREM FanOutTypeCorrect == Spec => []FanOutTypeOK
BY FanOutHolds, PTL

\* planFanOut: whatever the list, its windows are disjoint, cover every id and hold at
\* most Chunk of the recipients each (send.ts:180-188, 201).
THEOREM PlansPartition == Spec => []PlanPartitions
<1>1. FanOutTypeOK => PlanPartitions
    <2> SUFFICES ASSUME FanOutTypeOK, Cardinality(confirmed) > Chunk PROVE PlanPartitions
        BY DEF PlanPartitions
    <2>1. confirmed \in SUBSET Ids /\ confirmed # {} /\ Chunk \in Nat \ {0}
        BY PlanType DEF FanOutTypeOK
    <2> QED BY <2>1, PlanIsPartition DEF PlanPartitions
<1> QED BY <1>1, FanOutHolds, PTL

\* A reader who was confirmed all along is mailed before a range with their id is
\* recorded, through any joins, leavings, plans and repeated deliveries.
THEOREM DeliveredAreMailed == Spec => []DeliveredIsMailed
<1>1. FanOutInv => DeliveredIsMailed
    BY DEF FanOutInv
<1> QED BY <1>1, FanOutHolds, PTL

\* Every id is in a recorded range or in a message of the queue or its dead-letter
\* queue: no failure between the plan, the queues and the record drops a part of the list.
THEOREM KeysAreKept == Spec => []NoKeyLost
<1>1. FanOutInv => NoKeyLost
    BY DEF FanOutInv
<1> QED BY <1>1, FanOutHolds, PTL

-----------------------------------------------------------------------------
(* The record as a list: there is one with gaps that covers given cells.   *)

\* Positions are ordered.
LEMMA TotalOrder ==
    ASSUME NEW n \in Nat, NEW x \in 1..n, NEW y \in 1..n, ~(y < x), x # y
    PROVE  x < y
OBVIOUS

\* A function on 1..n that keeps the order is the identity.
LEMMA OrderKept ==
    ASSUME NEW n \in Nat, NEW k \in [1..n -> 1..n], \A i, j \in 1..n : i < j => k[i] < k[j]
    PROVE  \A i \in 1..n : k[i] = i
<1>1. ASSUME NEW i \in 1..n PROVE k[i] >= i
    <2> DEFINE S == {j \in 1..n : k[j] < j}
    <2> SUFFICES ASSUME S # {} PROVE FALSE
        OBVIOUS
    <2>0. S \in SUBSET Nat
        OBVIOUS
    <2>1. PICK m \in S : \A j \in S : m <= j
        <3> HIDE DEF S
        <3> QED BY <2>0, LeastNatural
    <2>2. m > 1 /\ m - 1 \in 1..n /\ m - 1 \notin S
        BY <2>1
    <2> QED BY <2>1, <2>2
<1>2. ASSUME NEW i \in 1..n PROVE k[i] <= i
    <2> DEFINE S == {d \in 0..n : d < n /\ k[n - d] > n - d}
    <2> SUFFICES ASSUME k[i] > i PROVE FALSE
        OBVIOUS
    <2>1. n - i \in S
        BY DEF S
    <2>0. S \in SUBSET Nat
        OBVIOUS
    <2>2. PICK m \in S : \A d \in S : m <= d
        <3> HIDE DEF S
        <3> QED BY <2>0, <2>1, LeastNatural
    <2>3. n - m \in 1..n /\ k[n - m] > n - m /\ k[n - m] \in 1..n
        OBVIOUS
    <2>4. m - 1 \in 0..n /\ m - 1 < n /\ n - (m - 1) = n - m + 1 /\ n - m + 1 \in 1..n
        BY <2>3
    <2>5. k[n - m] < k[n - m + 1]
        BY <2>3, <2>4
    <2>6. k[n - m + 1] \in 1..n
        BY <2>4
    <2>7. m - 1 \in S
        <3>1. k[n - m + 1] > n - m + 1
            BY <2>3, <2>5, <2>6
        <3>2. k[n - (m - 1)] > n - (m - 1)
            BY <2>4, <3>1
        <3> QED BY <2>4, <3>2
    <2>8. m <= m - 1 /\ m \in Nat
        <3> HIDE DEF S
        <3> QED BY <2>0, <2>2, <2>7
    <2> QED BY <2>8
<1> QED BY <1>1, <1>2

\* Two sorted lists of the same ranges are the same.
LEMMA OneOrder ==
    ASSUME NEW n \in Nat, NEW P \in SUBSET AllRanges, NEW a \in [1..n -> P], NEW b \in [1..n -> P],
           \A p \in P : \E i \in 1..n : p = a[i],
           \A i, j \in 1..n : i < j => a[i].after < a[j].after,
           \A i, j \in 1..n : i < j => b[i].after < b[j].after
    PROVE  a = b
<1> DEFINE k == [i \in 1..n |-> CHOOSE j \in 1..n : b[i] = a[j]]
<1>1. \A i \in 1..n : k[i] \in 1..n /\ b[i] = a[k[i]]
    OBVIOUS
<1>2. k \in [1..n -> 1..n]
    BY <1>1
<1> HIDE DEF k
<1>3. ASSUME NEW i \in 1..n, NEW j \in 1..n, i < j PROVE k[i] < k[j]
    <2>1. k[i] \in 1..n /\ k[j] \in 1..n /\ a[k[i]].after < a[k[j]].after
        BY <1>1, <1>3
    <2>2. a[k[i]] \in AllRanges /\ a[k[j]] \in AllRanges
        BY <2>1
    <2>3. a[k[i]].after \in Nat /\ a[k[j]].after \in Nat
        BY <2>2, RangeType
    <2>4. ~(a[k[j]].after < a[k[i]].after) /\ a[k[i]].after # a[k[j]].after
        <3> DEFINE u == a[k[i]].after
                   v == a[k[j]].after
        <3>1. u \in Nat /\ v \in Nat /\ u < v
            BY <2>1, <2>3
        <3> HIDE DEF u, v
        <3>2. ~(v < u) /\ u # v
            BY <3>1
        <3> QED BY <3>2 DEF u, v
    <2>5. k[j] < k[i] => a[k[j]].after < a[k[i]].after
        BY <2>1
    <2>6. ~(k[j] < k[i]) /\ k[i] # k[j]
        BY <2>4, <2>5
    <2> QED BY <2>1, <2>6, TotalOrder
<1>4. \A i \in 1..n : k[i] = i
    BY <1>2, <1>3, OrderKept
<1>5. \A i \in 1..n : a[i] = b[i]
    BY <1>1, <1>4
<1> QED BY <1>5

\* In a list with gaps a range is found by any of its cells, its bounds are
\* outside, and the one range without bounds is alone.
LEMMA GappedIs ==
    ASSUME NEW list, Gapped(list)
    PROVE  /\ \A i \in 1..Len(list) : list[i] \in AllRanges
           /\ \A i, j \in 1..Len(list) : i < j => list[i].after < list[j].after
           /\ \A i \in 1..Len(list) : list[i].after \notin Union(list) /\ list[i].until + 1 \notin Union(list)
           /\ HasWhole(list) => IsComplete(list)
<1>1. /\ list \in Seq(AllRanges) /\ Len(list) \in Nat /\ DOMAIN list = 1..Len(list)
      /\ \A i \in 1..Len(list) : list[i] \in AllRanges
    BY DEF Gapped
<1>2. \A i \in 1..Len(list) : /\ list[i].after \in Nat /\ list[i].until \in Nat /\ Open \in Nat
                              /\ list[i].after < list[i].until /\ list[i].until <= Open
                              /\ \A x : x \in CellsOf(list[i]) <=>
                                        x \in Nat /\ list[i].after < x /\ x <= list[i].until
    BY <1>1, RangeType
<1>3. \A i, j \in 1..Len(list) : i < j => list[i].until < list[j].after
    BY DEF Gapped
<1>4. \A i, j \in 1..Len(list) : i < j => list[i].after < list[j].after
    BY <1>2, <1>3
<1>5. ASSUME NEW i \in 1..Len(list), NEW x \in {list[i].after, list[i].until + 1}, x \in Union(list)
      PROVE  FALSE
    <2>1. PICK j \in 1..Len(list) : x \in CellsOf(list[j])
        BY <1>1, <1>5, UnionIs
    <2>2. list[j].after < x /\ x <= list[j].until
        BY <1>2, <2>1
    <2>3. CASE i = j
        BY <1>2, <2>2, <2>3
    <2>4. CASE i < j
        BY <1>2, <1>3, <2>2, <2>4
    <2>5. CASE j < i
        BY <1>2, <1>3, <2>2, <2>5
    <2> QED BY <1>1, <2>3, <2>4, <2>5
<1>6. ASSUME NEW i \in 1..Len(list), list[i] = Whole PROVE IsComplete(list)
    <2>1. list[i].after = 0 /\ list[i].until = Open
        BY <1>6 DEF Whole, Range0
    <2>2. \A j \in 1..Len(list) : ~(i < j) /\ ~(j < i)
        BY <1>2, <1>3, <2>1
    <2>3. i = 1 /\ i = Len(list)
        <3> DEFINE n == Len(list)
        <3>1. n \in Nat /\ i \in 1..n /\ \A j \in 1..n : ~(i < j) /\ ~(j < i)
            BY <1>1, <2>2
        <3> HIDE DEF n
        <3>2. i \in Nat /\ 1 \in 1..n /\ n \in 1..n
            BY <3>1
        <3>3. ~(1 < i) /\ ~(i < n) /\ 1 <= i /\ i <= n
            BY <3>1, <3>2
        <3>4. i = 1 /\ i = n
            BY <3>1, <3>2, <3>3
        <3> QED BY <3>4 DEF n
    <2> QED BY <1>6, <2>3 DEF IsComplete
<1> QED BY <1>1, <1>4, <1>5, <1>6 DEF HasWhole

\* The list with gaps between its ranges is fixed by what it covers.
LEMMA GappedIsListOf ==
    ASSUME NEW list, Gapped(list)
    PROVE  list = ListOf(Union(list))
<1> DEFINE S == Union(list)
           n == Len(list)
           parts == {r \in AllRanges : CellsOf(r) \subseteq S /\ {r.after, r.until + 1} \cap S = {}}
           P(l) == \A i, j \in DOMAIN l : i < j => l[i].after < l[j].after
<1>1. list \in Seq(AllRanges) /\ n \in Nat /\ DOMAIN list = 1..n /\ \A i \in 1..n : list[i] \in AllRanges
    BY DEF Gapped
<1>2. \A i \in 1..n : CellsOf(list[i]) \subseteq S
    BY <1>1, UnionIs
<1>3. list \in [1..n -> parts]
    BY <1>1, <1>2, GappedIs
<1>4. ASSUME NEW r \in parts PROVE \E i \in 1..n : r = list[i]
    <2>1. /\ r \in AllRanges /\ r.after \in Nat /\ r.until \in Nat /\ r.after < r.until
          /\ \A x : x \in CellsOf(r) <=> x \in Nat /\ r.after < x /\ x <= r.until
        BY RangeType
    <2>2. r.after + 1 \in S
        BY <2>1
    <2>3. PICK i \in 1..n : r.after + 1 \in CellsOf(list[i])
        BY <1>1, <2>2, UnionIs
    <2>4. /\ list[i] \in AllRanges /\ list[i].after \in Nat /\ list[i].until \in Nat
          /\ \A x : x \in CellsOf(list[i]) <=> x \in Nat /\ list[i].after < x /\ x <= list[i].until
        BY <1>1, RangeType
    <2>5. list[i].after <= r.after /\ r.after + 1 <= list[i].until
        BY <2>1, <2>3, <2>4
    <2>6. r.after \notin S /\ r.until + 1 \notin S /\ list[i].until + 1 \notin S
        BY <1>3
    <2>7. r.after \notin CellsOf(list[i]) /\ r.until + 1 \notin CellsOf(list[i])
          /\ list[i].until + 1 \notin CellsOf(r)
        BY <1>2, <2>6
    <2>8. list[i].after = r.after /\ list[i].until = r.until
        <3> DEFINE A == list[i].after
                   U == list[i].until
                   X == r.after
                   V == r.until
        <3>1. /\ A \in Nat /\ U \in Nat /\ X \in Nat /\ V \in Nat /\ X < V /\ A <= X /\ X + 1 <= U
              /\ ~(A < X /\ X <= U) /\ ~(A < V + 1 /\ V + 1 <= U) /\ ~(X < U + 1 /\ U + 1 <= V)
            BY <2>1, <2>4, <2>5, <2>7
        <3> HIDE DEF A, U, X, V
        <3>2. A = X /\ U = V
            BY <3>1
        <3> QED BY <3>2 DEF A, U, X, V
    <2>9. r \in [after : 0..MaxKey, until : Cells] /\ list[i] \in [after : 0..MaxKey, until : Cells]
        BY <2>1, <2>4 DEF AllRanges
    <2> QED BY <2>8, <2>9
<1>5. \A i, j \in 1..n : i < j => list[i].after < list[j].after
    BY GappedIs
<1>6. Cardinality(parts) = n
    <2>1. ASSUME NEW i \in 1..n, NEW j \in 1..n, i # j PROVE list[i] # list[j]
        <3>1. i < j \/ j < i
            <4> HIDE DEF n
            <4> QED BY <1>1, <2>1
        <3>2. list[i].after < list[j].after \/ list[j].after < list[i].after
            BY <1>5, <3>1
        <3>3. list[i].after \in Nat /\ list[j].after \in Nat
            BY <1>1, RangeType
        <3> QED BY <3>2, <3>3
    <2> HIDE DEF parts, n
    <2>2. list \in Injection(1..n, parts) /\ list \in Surjection(1..n, parts)
        BY <1>3, <1>4, <2>1 DEF Injection, IsInjective, Surjection
    <2>3. ExistsBijection(1..n, parts)
        BY <2>2 DEF ExistsBijection, Bijection
    <2>4. IsFiniteSet(1..n) /\ Cardinality(1..n) = n
        BY <1>1, FS_Interval
    <2> QED BY <2>3, <2>4, FS_Bijection
<1>7. P(list)
    BY <1>1, <1>5
<1>8. ASSUME NEW l \in [1..n -> parts], P(l) PROVE l = list
    <2>1. parts \in SUBSET AllRanges
        OBVIOUS
    <2>2. \A i, j \in 1..n : i < j => l[i].after < l[j].after
        BY <1>8
    <2> HIDE DEF parts, n, P
    <2> QED BY <1>1, <1>3, <1>4, <1>5, <2>1, <2>2, OneOrder
<1>9. ListOf(S) = CHOOSE l \in [1..Cardinality(parts) -> parts] : P(l)
    BY DEF ListOf
<1> HIDE DEF parts, n, P, S
<1>10. ListOf(S) = list
    BY <1>3, <1>6, <1>7, <1>8, <1>9
<1> QED BY <1>10 DEF S

\* completedRanges covers what was delivered, no more and no less, in whatever order
\* overlapping windows finish, and the two tests for completion agree on it
\* (schedule-state.ts:150-153).
THEOREM RecordsAreExact == Spec => RecordIsExact
<1>1. ASSUME FanOutTypeOK, FanOutInv, NEW w \in Workers, Complete(w)
      PROVE  /\ ranges' = ListOf(Union(ranges) \cup CellsOf(WindowOf(job[w])))
             /\ IsComplete(ranges') <=> HasWhole(ranges')
    <2>1. Gapped(ranges') /\ Union(ranges') = Union(ranges) \cup CellsOf(WindowOf(job[w]))
        BY <1>1, CompleteIs DEF FanOutInv
    <2>2. PICK r : r = ranges'
        OBVIOUS
    <2>3. r = ListOf(Union(r)) /\ (HasWhole(r) => IsComplete(r))
        BY <2>1, <2>2, GappedIsListOf, GappedIs
    <2>4. IsComplete(r) => HasWhole(r)
        <3>1. r \in Seq(AllRanges)
            BY <2>1, <2>2 DEF Gapped
        <3> QED BY <3>1 DEF IsComplete, HasWhole
    <2> QED BY <2>1, <2>2, <2>3, <2>4
<1>2. FanOutTypeOK /\ FanOutInv =>
        [\A w \in Workers : Complete(w) =>
          /\ ranges' = ListOf(Union(ranges) \cup CellsOf(WindowOf(job[w])))
          /\ IsComplete(ranges') <=> HasWhole(ranges')]_vars
    BY <1>1
<1> QED BY <1>2, FanOutHolds, PTL DEF RecordIsExact
=============================================================================
