-------------------------- MODULE GapTrackerProofs --------------------------
(***************************************************************************)
(* Proofs about TargetedSync, whose state is that of the gap tracker and   *)
(* of the requests its reports lead to.                                    *)
(***************************************************************************)
EXTENDS TargetedSync, FiniteSetTheorems, SequenceTheorems, WellFoundedInduction, TLAPS

-----------------------------------------------------------------------------
(* Least and greatest members, which _add_range, the trimming loop and the *)
(* loop that advances hi_contig take.                                      *)

\* Every nonempty set of naturals has a least member, and Min is it.
LEMMA MinNat ==
    ASSUME NEW S \in SUBSET Nat, S # {}
    PROVE  Min(S) \in S /\ \A y \in S : Min(S) <= y
<1>1. PICK x \in S : \A y \in S : <<y, x>> \notin OpToRel(<, Nat)
  BY NatLessThanWellFounded, WFMin
<1>2. \A y \in S : ~(y < x)
  BY <1>1, Zenon DEF OpToRel
<1>3. \A y \in S : x <= y
  BY <1>2
<1> QED  BY <1>3 DEF Min

\* A nonempty set of naturals that has an upper bound has a greatest member,
\* and Max is it.
LEMMA MaxNat ==
    ASSUME NEW S \in SUBSET Nat, S # {}, NEW b \in Nat, \A y \in S : y <= b
    PROVE  Max(S) \in S /\ \A y \in S : Max(S) >= y
<1> DEFINE T == {b - y : y \in S}
<1>1. T \in SUBSET Nat /\ T # {}
  <2>1. \A y \in S : b - y \in Nat /\ b - y \in T
    OBVIOUS
  <2>2. T \subseteq Nat
    BY <2>1
  <2> QED  BY <2>1, <2>2
<1>2. Min(T) \in T /\ \A z \in T : Min(T) <= z
  BY <1>1, MinNat
<1>3. PICK x \in S : Min(T) = b - x
  BY <1>2
<1>4. \A y \in S : x >= y
  BY <1>2, <1>3
<1> QED  BY <1>4 DEF Max

\* A finite set of naturals has an upper bound: a counterexample with fewest
\* members would still be one without one of its members.
LEMMA FiniteBounded ==
    ASSUME NEW S \in SUBSET Nat, IsFiniteSet(S)
    PROVE  \E b \in Nat : \A y \in S : y <= b
<1> DEFINE Bounded(A) == \E b \in Nat : \A y \in A : y <= b
           Bad == {n \in Nat : \E A \in SUBSET Nat :
                                   IsFiniteSet(A) /\ Cardinality(A) = n /\ ~Bounded(A)}
<1>1. SUFFICES ASSUME ~Bounded(S) PROVE FALSE
  OBVIOUS
<1>2. Cardinality(S) \in Bad
  BY <1>1, FS_CardinalityType
<1>3. Min(Bad) \in Bad /\ \A n \in Bad : Min(Bad) <= n
  BY <1>2, MinNat
<1>4. PICK A \in SUBSET Nat : IsFiniteSet(A) /\ Cardinality(A) = Min(Bad) /\ ~Bounded(A)
  BY <1>3
<1>5. PICK a \in A : TRUE
  BY <1>4
<1>6. IsFiniteSet(A \ {a}) /\ Cardinality(A \ {a}) = Min(Bad) - 1
  BY <1>4, <1>5, FS_RemoveElement
<1>7. Cardinality(A \ {a}) \in Nat
  BY <1>6, FS_CardinalityType
<1>8. Bounded(A \ {a})
  <2>1. SUFFICES ASSUME ~Bounded(A \ {a}) PROVE FALSE
    OBVIOUS
  <2>2. Min(Bad) - 1 \in Bad
    BY <2>1, <1>6, <1>7
  <2>3. Min(Bad) <= Min(Bad) - 1 /\ Min(Bad) \in Nat
    BY <2>2, <1>3
  <2> HIDE DEF Bad
  <2> QED  BY <2>3
<1>9. PICK c \in Nat : \A y \in A \ {a} : y <= c
  BY <1>8
<1>10. \A y \in A : y <= a + c
  BY <1>9, <1>5
<1>11. a + c \in Nat
  BY <1>9, <1>5
<1>12. Bounded(A)
  BY <1>10, <1>11
<1> QED  BY <1>12, <1>4

\* Top is the highest sequence number, or 0.
LEMMA TopBound == Top \in Nat /\ \A x \in Seqs : x <= Top
<1>1. Seqs \cup {0} \in SUBSET Nat /\ IsFiniteSet(Seqs \cup {0})
  BY GapAssumption, FS_AddElement
<1>2. PICK b \in Nat : \A y \in Seqs \cup {0} : y <= b
  BY <1>1, FiniteBounded
<1>3. Max(Seqs \cup {0}) \in Seqs \cup {0} /\ \A y \in Seqs \cup {0} : Max(Seqs \cup {0}) >= y
  BY <1>1, <1>2, MaxNat
<1> QED  BY <1>1, <1>3 DEF Top

-----------------------------------------------------------------------------
(* What _add_range, _remove_seq and the trimming loop do to a list.        *)

Ranges == [start : 0 .. Top, end : 0 .. Top, ts : 0 .. MaxTime]

\* A list of nonempty ranges, no two of which overlap or touch.
Apart(r, q) == r.end + 1 < q.start \/ q.end + 1 < r.start
Proper(M) == /\ M \subseteq Ranges
             /\ \A r \in M : r.start <= r.end
             /\ \A r, q \in M : r # q => Apart(r, q)

Covers(M, x) == \E r \in M : In(x, r)

\* Every range of N lies within one of M.
Within(N, M) == \A r \in N : \E q \in M : q.start <= r.start /\ r.end <= q.end

\* The bounds of the range that _add_range puts in place of the ranges it
\* touches: each is the bound of a merged range or of the new one.
LEMMA MergedBounds ==
    ASSUME NEW M, Proper(M), NEW T \in SUBSET M,
           NEW s \in 0 .. Top, NEW e \in 0 .. Top, NEW t \in 0 .. MaxTime
    PROVE  LET a == Min({s} \cup {r.start : r \in T})
               b == Max({e} \cup {r.end : r \in T})
               c == Min({t} \cup {r.ts : r \in T})
           IN  /\ Rng(a, b, c) \in Ranges
               /\ a = s \/ \E r \in T : a = r.start
               /\ b = e \/ \E r \in T : b = r.end
               /\ a <= s /\ \A r \in T : a <= r.start
               /\ e <= b /\ \A r \in T : r.end <= b
<1> DEFINE A == {s} \cup {r.start : r \in T}
           B == {e} \cup {r.end : r \in T}
           C == {t} \cup {r.ts : r \in T}
<1>1. Top \in Nat /\ MaxTime \in Nat
  BY TopBound, GapAssumption
<1>2. \A r \in T : r.start \in 0 .. Top /\ r.end \in 0 .. Top /\ r.ts \in 0 .. MaxTime
  BY DEF Proper, Ranges
<1>3. A \in SUBSET (0 .. Top) /\ B \in SUBSET (0 .. Top) /\ C \in SUBSET (0 .. MaxTime)
  BY <1>2
<1>4. Min(A) \in A /\ \A y \in A : Min(A) <= y
  <2>1. A \in SUBSET Nat /\ A # {}
    BY <1>1, <1>3
  <2> HIDE DEF A
  <2> QED  BY <2>1, MinNat
<1>5. Max(B) \in B /\ \A y \in B : Max(B) >= y
  <2>1. B \in SUBSET Nat /\ B # {} /\ \A y \in B : y <= Top
    BY <1>1, <1>3
  <2> HIDE DEF B
  <2> QED  BY <1>1, <2>1, MaxNat
<1>6. Min(C) \in C
  <2>1. C \in SUBSET Nat /\ C # {}
    BY <1>1, <1>3
  <2> HIDE DEF C
  <2> QED  BY <2>1, MinNat
<1>7. Rng(Min(A), Max(B), Min(C)) \in Ranges
  <2>1. Min(A) \in 0 .. Top /\ Max(B) \in 0 .. Top /\ Min(C) \in 0 .. MaxTime
    BY <1>3, <1>4, <1>5, <1>6
  <2> HIDE DEF A, B, C
  <2> QED  BY <2>1 DEF Rng, Ranges
<1>8. Min(A) = s \/ \E r \in T : Min(A) = r.start
  BY <1>4
<1>9. Max(B) = e \/ \E r \in T : Max(B) = r.end
  BY <1>5
<1>10. Min(A) <= s /\ \A r \in T : Min(A) <= r.start
  BY <1>4
<1>11. e <= Max(B) /\ \A r \in T : r.end <= Max(B)
  <2>1. \A y \in B : Max(B) \in Int /\ y \in Int /\ Max(B) >= y
    BY <1>1, <1>3, <1>5
  <2>2. e \in B /\ \A r \in T : r.end \in B
    OBVIOUS
  <2> HIDE DEF B
  <2> QED  BY <2>1, <2>2
<1> QED  BY <1>7, <1>8, <1>9, <1>10, <1>11

\* _add_range keeps the list proper, takes in s .. e and everything that was
\* covered, and invents no bound.
LEMMA AddRangeLemma ==
    ASSUME NEW M, Proper(M), NEW s \in 0 .. Top, NEW e \in 0 .. Top, s <= e,
           NEW t \in 0 .. MaxTime
    PROVE  /\ Proper(AddRange(M, s, e, t))
           /\ \A x \in Int : Covers(M, x) \/ (s <= x /\ x <= e)
                                => Covers(AddRange(M, s, e, t), x)
           /\ \A r \in AddRange(M, s, e, t) :
                  /\ r.start = s \/ \E q \in M : r.start = q.start
                  /\ r.end = e \/ \E q \in M : r.end = q.end
<1> DEFINE T == {r \in M : s <= r.end + 1 /\ r.start <= e + 1}
           a == Min({s} \cup {r.start : r \in T})
           b == Max({e} \cup {r.end : r \in T})
           c == Min({t} \cup {r.ts : r \in T})
           n == Rng(a, b, c)
<1>1. AddRange(M, s, e, t) = (M \ T) \cup {n}
  BY TopBound DEF AddRange
<1>2. /\ n \in Ranges
      /\ a = s \/ \E r \in T : a = r.start
      /\ b = e \/ \E r \in T : b = r.end
      /\ a <= s /\ \A r \in T : a <= r.start
      /\ e <= b /\ \A r \in T : r.end <= b
  BY MergedBounds
<1>3. n.start = a /\ n.end = b
  BY DEF Rng
<1>4. T \subseteq M /\ \A r \in M : r \in T <=> s <= r.end + 1 /\ r.start <= e + 1
  OBVIOUS
<1> HIDE DEF T, a, b, c, n
<1>5. \A r \in M : r.start \in Int /\ r.end \in Int /\ r.start <= r.end
  BY TopBound DEF Proper, Ranges
<1>6. a \in Int /\ b \in Int /\ s \in Int /\ e \in Int
  BY <1>2, <1>3, TopBound DEF Ranges
<1>7. \A r \in M \ T : Apart(r, n)
  <2> SUFFICES ASSUME NEW r \in M \ T PROVE Apart(r, n)
    OBVIOUS
  <2>1. r.end + 1 < s \/ e + 1 < r.start
    BY <1>4, <1>5, <1>6
  <2>2. \A q \in T : q \in M /\ Apart(r, q) /\ s <= q.end + 1 /\ q.start <= e + 1
    BY <1>4 DEF Proper
  <2>3. CASE r.end + 1 < s
    <3>1. r.end + 1 < a
      BY <2>2, <2>3, <1>2, <1>4, <1>5, <1>6 DEF Apart
    <3> QED  BY <3>1, <1>3 DEF Apart
  <2>4. CASE e + 1 < r.start
    <3>1. b + 1 < r.start
      BY <2>2, <2>4, <1>2, <1>4, <1>5, <1>6 DEF Apart
    <3> QED  BY <3>1, <1>3 DEF Apart
  <2> QED  BY <2>1, <2>3, <2>4
<1>8. Proper((M \ T) \cup {n})
  <2>1. n.start <= n.end
    BY <1>2, <1>3, <1>6
  <2>2. \A r \in M \ T : Apart(r, n) /\ Apart(n, r)
    BY <1>7 DEF Apart
  <2> QED  BY <1>2, <2>1, <2>2 DEF Proper
<1>9. ASSUME NEW x \in Int, Covers(M, x) \/ (s <= x /\ x <= e)
      PROVE  Covers((M \ T) \cup {n}, x)
  <2>1. CASE \E r \in M \ T : In(x, r)
    BY <2>1 DEF Covers
  <2>2. CASE \E r \in T : In(x, r)
    <3>1. In(x, n)
      BY <2>2, <1>2, <1>3, <1>4, <1>5, <1>6 DEF In
    <3> QED  BY <3>1 DEF Covers
  <2>3. CASE s <= x /\ x <= e
    <3>1. In(x, n)
      BY <2>3, <1>2, <1>3, <1>6 DEF In
    <3> QED  BY <3>1 DEF Covers
  <2> QED  BY <1>9, <2>1, <2>2, <2>3 DEF Covers
<1>10. \A r \in (M \ T) \cup {n} :
           /\ r.start = s \/ \E q \in M : r.start = q.start
           /\ r.end = e \/ \E q \in M : r.end = q.end
  BY <1>2, <1>3, <1>4
<1> QED  BY <1>1, <1>8, <1>9, <1>10

\* _remove_seq keeps the list proper, uncovers at most x and only shrinks ranges.
LEMMA RemoveSeqLemma ==
    ASSUME NEW M, Proper(M), NEW x \in Nat
    PROVE  /\ Proper(RemoveSeq(M, x))
           /\ \A y \in Int : Covers(M, y) /\ y # x => Covers(RemoveSeq(M, x), y)
           /\ Within(RemoveSeq(M, x), M)
<1> DEFINE hit == {r \in M : In(x, r)}
           halves == {Rng(r.start, x - 1, r.ts) : r \in hit}
                       \cup {Rng(x + 1, r.end, r.ts) : r \in hit}
           R == RemoveSeq(M, x)
           Part(r, q) == \/ r = q
                         \/ /\ In(x, q)
                            /\ \/ r = Rng(q.start, x - 1, q.ts)
                               \/ r = Rng(x + 1, q.end, q.ts)
<1>1. R = (M \ hit) \cup {r \in halves : r.start <= r.end}
  BY DEF RemoveSeq
<1>2. \A r \in M : /\ r.start \in Int /\ r.end \in Int /\ r.start <= r.end
                   /\ 0 <= r.start /\ r.end <= Top /\ r.ts \in 0 .. MaxTime
  BY TopBound DEF Proper, Ranges
<1>3. Top \in Int
  BY TopBound
<1>4. \A r \in R : \/ r \in M /\ ~In(x, r)
                   \/ \E q \in M : /\ In(x, q) /\ r.start <= r.end
                                    /\ \/ r = Rng(q.start, x - 1, q.ts)
                                       \/ r = Rng(x + 1, q.end, q.ts)
  BY <1>1
<1>5. ASSUME NEW q \in M, In(x, q)
      PROVE  /\ q.start <= x - 1 => Rng(q.start, x - 1, q.ts) \in R
             /\ x + 1 <= q.end => Rng(x + 1, q.end, q.ts) \in R
  BY <1>1, <1>5 DEF Rng
<1>6. \A r \in M : ~In(x, r) => r \in R
  BY <1>1
<1> HIDE DEF hit, halves, R
<1>7. ASSUME NEW r \in R
      PROVE  /\ r \in Ranges /\ r.start <= r.end /\ (r.end < x \/ x < r.start)
             /\ \E q \in M : q.start <= r.start /\ r.end <= q.end /\ Part(r, q)
  <2>1. CASE r \in M /\ ~In(x, r)
    BY <2>1, <1>2 DEF Proper, In
  <2>2. ASSUME NEW q \in M, In(x, q), r.start <= r.end, r = Rng(q.start, x - 1, q.ts)
        PROVE  <1>7!2
    <3>1. q.start \in 0 .. Top /\ x - 1 \in 0 .. Top /\ q.ts \in 0 .. MaxTime
      BY <2>2, <1>2, <1>3 DEF Rng, In
    <3>2. r \in Ranges
      BY <2>2, <3>1 DEF Rng, Ranges
    <3> QED  BY <2>2, <3>2, <1>2, <1>3 DEF Rng, In
  <2>3. ASSUME NEW q \in M, In(x, q), r.start <= r.end, r = Rng(x + 1, q.end, q.ts)
        PROVE  <1>7!2
    <3>1. x + 1 \in 0 .. Top /\ q.end \in 0 .. Top /\ q.ts \in 0 .. MaxTime
      BY <2>3, <1>2, <1>3 DEF Rng, In
    <3>2. r \in Ranges
      BY <2>3, <3>1 DEF Rng, Ranges
    <3> QED  BY <2>3, <3>2, <1>2, <1>3 DEF Rng, In
  <2> QED  BY <2>1, <2>2, <2>3, <1>4
<1>8. ASSUME NEW r \in R, NEW u \in R, r # u
      PROVE  Apart(r, u)
  <2> HIDE DEF Part
  <2>1. PICK q \in M : q.start <= r.start /\ r.end <= q.end /\ Part(r, q)
    BY <1>7
  <2>2. PICK v \in M : v.start <= u.start /\ u.end <= v.end /\ Part(u, v)
    BY <1>7
  <2>3. /\ r.start \in Int /\ r.end \in Int /\ u.start \in Int /\ u.end \in Int
        /\ r.end < x \/ x < r.start
        /\ u.end < x \/ x < u.start
    BY <1>3, <1>7 DEF Ranges
  <2>4. CASE q # v
    <3>1. Apart(q, v)
      BY <2>4 DEF Proper
    <3> QED  BY <3>1, <2>1, <2>2, <2>3, <1>2 DEF Apart
  <2>5. CASE q = v
    <3>1. \/ r = q \/ u = q
          \/ r.end + 1 < u.start \/ u.end + 1 < r.start
      BY <2>5, <2>1, <2>2, <1>8, <1>2 DEF Part, Rng
    <3>2. r = q => ~In(x, q)
      BY <2>3, <1>2 DEF In
    <3>3. u = q => ~In(x, q)
      BY <2>3, <1>2 DEF In
    <3> QED  BY <3>1, <3>2, <3>3, <2>5, <2>1, <2>2, <1>8 DEF Part, Apart
  <2> QED  BY <2>4, <2>5
<1>9. ASSUME NEW y \in Int, Covers(M, y), y # x
      PROVE  Covers(R, y)
  <2>1. PICK q \in M : In(y, q)
    BY <1>9 DEF Covers
  <2>2. CASE ~In(x, q)
    BY <2>1, <2>2, <1>6 DEF Covers
  <2>3. CASE In(x, q) /\ y < x
    <3>1. Rng(q.start, x - 1, q.ts) \in R
      BY <2>1, <2>3, <1>2, <1>5 DEF In
    <3>2. In(y, Rng(q.start, x - 1, q.ts))
      BY <2>1, <2>3 DEF In, Rng
    <3> QED  BY <3>1, <3>2 DEF Covers
  <2>4. CASE In(x, q) /\ x < y
    <3>1. Rng(x + 1, q.end, q.ts) \in R
      BY <2>1, <2>4, <1>2, <1>5 DEF In
    <3>2. In(y, Rng(x + 1, q.end, q.ts))
      BY <2>1, <2>4 DEF In, Rng
    <3> QED  BY <3>1, <3>2 DEF Covers
  <2> QED  BY <1>9, <2>2, <2>3, <2>4
<1>10. Proper(R)
  BY <1>7, <1>8 DEF Proper
<1>11. Within(R, M)
  <2> HIDE DEF Part
  <2>1. \A r \in R : \E q \in M : q.start <= r.start /\ r.end <= q.end
    BY <1>7
  <2> QED  BY <2>1 DEF Within
<1> QED  BY <1>9, <1>10, <1>11 DEF R

\* The trimming loop keeps the list proper, leaves nothing at or below hi, keeps
\* what was covered above it and only shrinks ranges.
LEMMA TrimLemma ==
    ASSUME NEW M, Proper(M), NEW hi \in -1 .. Top
    PROVE  /\ Proper(Trim(M, hi))
           /\ \A r \in Trim(M, hi) : hi < r.start
           /\ \A y \in Int : Covers(M, y) /\ hi < y => Covers(Trim(M, hi), y)
           /\ Within(Trim(M, hi), M)
<1> DEFINE m(r) == Max({r.start, hi + 1})
           N == Trim(M, hi)
<1>1. \A r \in M : /\ r.start \in Int /\ r.end \in Int /\ r.start <= r.end
                   /\ 0 <= r.start /\ r.end <= Top /\ r.ts \in 0 .. MaxTime
  BY TopBound DEF Proper, Ranges
<1>2. Top \in Nat /\ hi \in Int /\ -1 <= hi /\ hi <= Top
  BY TopBound
<1>3. ASSUME NEW r \in M
      PROVE  m(r) \in {r.start, hi + 1} /\ m(r) >= r.start /\ m(r) >= hi + 1
  <2>1. {r.start, hi + 1} \in SUBSET Nat /\ \A y \in {r.start, hi + 1} : y <= Top + 1
    BY <1>1, <1>2
  <2> QED  BY <1>2, <2>1, MaxNat
<1>4. \A r \in N : \E q \in M : hi < q.end /\ r = Rng(m(q), q.end, q.ts)
  BY DEF Trim
<1>5. \A q \in M : hi < q.end => Rng(m(q), q.end, q.ts) \in N
  BY <1>1, <1>2 DEF Trim
<1> HIDE DEF m, N
<1>6. ASSUME NEW q \in M, hi < q.end
      PROVE  /\ Rng(m(q), q.end, q.ts) \in Ranges
             /\ m(q) \in Int /\ m(q) <= q.end /\ q.start <= m(q) /\ hi < m(q)
  <2>1. /\ m(q) \in Int /\ m(q) <= q.end /\ q.start <= m(q) /\ hi < m(q)
    BY <1>1, <1>2, <1>3, <1>6
  <2>2. m(q) \in 0 .. Top /\ q.end \in 0 .. Top
    BY <2>1, <1>1, <1>2
  <2> QED  BY <2>1, <2>2, <1>1 DEF Rng, Ranges
<1>7. ASSUME NEW r \in N, NEW u \in N, r # u
      PROVE  Apart(r, u)
  <2>1. PICK q \in M : hi < q.end /\ r = Rng(m(q), q.end, q.ts)
    BY <1>4
  <2>2. PICK v \in M : hi < v.end /\ u = Rng(m(v), v.end, v.ts)
    BY <1>4
  <2>3. Apart(q, v)
    BY <1>7, <2>1, <2>2 DEF Proper
  <2> QED  BY <2>1, <2>2, <2>3, <1>1, <1>6 DEF Apart, Rng
<1>8. \A r \in N : r \in Ranges /\ r.start <= r.end /\ hi < r.start
  BY <1>4, <1>6 DEF Rng
<1>9. ASSUME NEW y \in Int, Covers(M, y), hi < y
      PROVE  Covers(N, y)
  <2>1. PICK q \in M : In(y, q)
    BY <1>9 DEF Covers
  <2>2. hi < q.end
    BY <1>1, <1>2, <1>9, <2>1 DEF In
  <2>3. In(y, Rng(m(q), q.end, q.ts))
    BY <2>1, <2>2, <1>1, <1>2, <1>3, <1>9 DEF In, Rng
  <2> QED  BY <2>2, <2>3, <1>5 DEF Covers
<1>10. Within(N, M)
  <2>1. ASSUME NEW r \in N PROVE \E q \in M : q.start <= r.start /\ r.end <= q.end
    <3>1. PICK q \in M : hi < q.end /\ r = Rng(m(q), q.end, q.ts)
      BY <1>4
    <3>2. q.start <= r.start /\ r.end <= q.end
      BY <3>1, <1>1, <1>6 DEF Rng
    <3> QED  BY <3>2
  <2> QED  BY <2>1 DEF Within
<1> QED  BY <1>7, <1>8, <1>9, <1>10 DEF Proper, N

-----------------------------------------------------------------------------
(* The inductive invariant.                                                *)

\* The buffer holds only numbers beyond the first hole.
AboveContig == \A y \in ooo : hi_contig + 1 < y

GapInv ==
    /\ TypeOK
    /\ AboveContig
    /\ RangesSeparated
    /\ NoGapForgotten
    /\ ContigExact
    /\ ListedBelowHighest

\* The list of the invariant is a proper one.
LEMMA MissingProper ==
    ASSUME GapInv PROVE Proper(missing)
  BY DEF GapInv, TypeOK, RangesSeparated, Proper, Ranges, Apart

\* The while loop of on_seqno stops at the number before the first hole above x.
LEMMA AdvanceLemma ==
    ASSUME TypeOK, NEW x \in Seqs
    PROVE  /\ Advance(x) \in x .. Top
           /\ Advance(x) + 1 \notin ooo
           /\ \A y \in x + 1 .. Advance(x) : y \in ooo
<1> DEFINE H == {h \in x .. Top : h + 1 \notin ooo}
<1>1. x \in Nat /\ Top \in Nat /\ x <= Top /\ \A y \in ooo : y \in Nat /\ y <= Top
  BY TopBound, GapAssumption DEF TypeOK
<1>2. Top \in H /\ H \in SUBSET Nat
  BY <1>1
<1>3. Min(H) \in H /\ \A h \in H : Min(H) <= h
  BY <1>2, MinNat
<1>4. Advance(x) = Min(H)
  BY DEF Advance
<1>5. ASSUME NEW y \in x + 1 .. Min(H), y \notin ooo PROVE FALSE
  <2>1. Min(H) \in x .. Top
    BY <1>3
  <2>2. y - 1 \in H
    BY <1>1, <1>5, <2>1
  <2>3. Min(H) <= y - 1
    BY <1>3, <2>2
  <2> HIDE DEF H
  <2> QED  BY <1>1, <2>1, <2>3
<1> QED  BY <1>3, <1>4, <1>5

\* The report a new list leads to has the type of a report.
LEMMA ReportType ==
    ASSUME TypeOK, missing' \subseteq Ranges, MaybeReport(missing')
    PROVE  /\ last_report_ts' \in -MinReportInterval .. MaxTime
           /\ last_sig' \subseteq (0 .. Top) \X (0 .. Top) \X BOOLEAN
           /\ lines' \subseteq Line
<1>1. \A r \in missing' : r.start \in 0 .. Top /\ r.end \in 0 .. Top
  BY DEF Ranges
<1>2. \A r \in missing' : Confirmed(r) \in BOOLEAN
  BY DEF Confirmed
<1>3. Sig(missing') \subseteq (0 .. Top) \X (0 .. Top) \X BOOLEAN
  BY <1>1, <1>2 DEF Sig
<1>4. \A c \in BOOLEAN : Bucket(missing', c) \subseteq (0 .. Top) \X (0 .. Top)
  BY <1>1 DEF Bucket
<1>5. \A c \in BOOLEAN : [confirmed |-> c, ranges |-> Bucket(missing', c)] \in Line
  BY <1>4 DEF Line
<1>6. now \in -MinReportInterval .. MaxTime
  BY GapAssumption DEF TypeOK
<1> QED  BY <1>3, <1>5, <1>6 DEF MaybeReport, TypeOK

\* on_seqno for the number that closes the first hole.
LEMMA InOrderInv ==
    ASSUME GapInv, NEW x \in Seqs, x = hi_contig + 1,
           hi_contig' = Advance(x),
           ooo' = ooo \ (x .. Advance(x)),
           missing' = Trim(RemoveSeq(missing, x), Advance(x)),
           received' = received \cup {x}
    PROVE  /\ hi_contig' \in -1 .. Top /\ ooo' \subseteq Seqs /\ missing' \subseteq Ranges
           /\ received' \subseteq Seqs
           /\ AboveContig' /\ RangesSeparated' /\ NoGapForgotten'
           /\ ContigExact' /\ ListedBelowHighest'
<1> DEFINE hi == Advance(x)
           N == RemoveSeq(missing, x)
<1>1. /\ hi \in x .. Top /\ hi + 1 \notin ooo /\ \A y \in x + 1 .. hi : y \in ooo
  BY AdvanceLemma DEF GapInv
<1>2. x \in Nat /\ Top \in Nat /\ hi \in Nat /\ ooo \subseteq Nat
  BY <1>1, TopBound, GapAssumption DEF GapInv, TypeOK
<1>3. Proper(missing)
  BY MissingProper
<1>4. /\ Proper(N) /\ Within(N, missing)
      /\ \A y \in Int : Covers(missing, y) /\ y # x => Covers(N, y)
  BY <1>2, <1>3, RemoveSeqLemma
<1>5. /\ Proper(missing') /\ Within(missing', N) /\ \A r \in missing' : hi < r.start
      /\ \A y \in Int : Covers(N, y) /\ hi < y => Covers(missing', y)
  BY <1>1, <1>2, <1>4, TrimLemma
<1> HIDE DEF hi, N
<1>6. hi_contig' = hi /\ ooo' = ooo \ (x .. hi) /\ received' = received \cup {x}
  BY DEF hi
<1>7. hi_contig \in Int /\ received = (0 .. hi_contig) \cup ooo /\ hi_contig = x - 1
  BY <1>2, TopBound DEF GapInv, TypeOK, ContigExact
<1>8. AboveContig'
  BY <1>1, <1>2, <1>6, <1>7 DEF AboveContig, GapInv
<1>9. ContigExact'
  <2>1. received' = (0 .. hi) \cup ooo'
    BY <1>1, <1>2, <1>6, <1>7
  <2>2. hi + 1 \notin received'
    BY <1>1, <1>2, <1>6, <1>7
  <2> QED  BY <2>1, <2>2, <1>6 DEF ContigExact
<1>10. RangesSeparated'
  BY <1>5, <1>6 DEF Proper, RangesSeparated, Apart
<1>11. NoGapForgotten'
  <2> SUFFICES ASSUME NEW y \in received', NEW z \in 0 .. y - 1, z \notin received'
               PROVE  Covers(missing', z)
    BY DEF NoGapForgotten, Covered, Covers, In
  <2>1. received' = (0 .. hi) \cup ooo' /\ y \in Nat /\ z \in Nat /\ z < y
    BY <1>2, <1>6, <1>9 DEF ContigExact
  <2>2. hi < z
    BY <1>2, <2>1
  <2>3. y \in received /\ z \notin received /\ z # x
    BY <1>1, <1>2, <1>6, <2>1, <2>2
  <2>4. Covers(missing, z)
    BY <2>1, <2>3 DEF GapInv, NoGapForgotten, Covered, Covers
  <2> QED  BY <1>4, <1>5, <2>1, <2>2, <2>3, <2>4
<1>12. ListedBelowHighest'
  <2> SUFFICES ASSUME NEW r \in missing' PROVE \E y \in ooo' : r.end < y
    BY DEF ListedBelowHighest
  <2>1. PICK u \in N : u.start <= r.start /\ r.end <= u.end
    BY <1>5 DEF Within
  <2>2. PICK q \in missing : q.start <= u.start /\ u.end <= q.end
    BY <1>4 DEF Within
  <2>3. PICK y \in ooo : q.end < y
    BY DEF GapInv, ListedBelowHighest
  <2>4. /\ r.end \in Int /\ u.end \in Int /\ q.end \in Int /\ r.start \in Int
        /\ y \in Int /\ hi < r.start /\ r.start <= r.end
    BY <1>2, <1>3, <1>4, <1>5, TopBound DEF Proper, Ranges
  <2>5. r.end < y /\ hi < y
    BY <1>2, <2>1, <2>2, <2>3, <2>4
  <2> QED  BY <1>2, <1>6, <2>5
<1>13. hi_contig' \in -1 .. Top /\ ooo' \subseteq Seqs /\ received' \subseteq Seqs
  <2>1. hi_contig' \in -1 .. Top
    BY <1>1, <1>2, <1>6
  <2> QED  BY <2>1, <1>6 DEF GapInv, TypeOK
<1> QED  BY <1>5, <1>8, <1>9, <1>10, <1>11, <1>12, <1>13 DEF Proper

\* on_seqno for a number beyond a hole.
LEMMA BeyondGapInv ==
    ASSUME GapInv, NEW x \in Seqs, x > hi_contig + 1, x \notin ooo,
           hi_contig' = hi_contig,
           ooo' = ooo \cup {x},
           missing' = Trim(RemoveSeq(AddRange(missing, hi_contig + 1, x - 1, now), x), hi_contig),
           received' = received \cup {x}
    PROVE  /\ hi_contig' \in -1 .. Top /\ ooo' \subseteq Seqs /\ missing' \subseteq Ranges
           /\ received' \subseteq Seqs
           /\ AboveContig' /\ RangesSeparated' /\ NoGapForgotten'
           /\ ContigExact' /\ ListedBelowHighest'
<1> DEFINE A == AddRange(missing, hi_contig + 1, x - 1, now)
           N == RemoveSeq(A, x)
<1>1. /\ x \in Nat /\ x <= Top /\ Top \in Nat /\ ooo \subseteq Nat
      /\ hi_contig \in Int /\ -1 <= hi_contig /\ hi_contig <= Top
      /\ now \in 0 .. MaxTime
  BY TopBound, GapAssumption DEF GapInv, TypeOK
<1>2. Proper(missing)
  BY MissingProper
<1>3. /\ Proper(A)
      /\ \A y \in Int : Covers(missing, y) \/ (hi_contig + 1 <= y /\ y <= x - 1) => Covers(A, y)
      /\ \A r \in A : r.end = x - 1 \/ \E q \in missing : r.end = q.end
  <2>1. hi_contig + 1 \in 0 .. Top /\ x - 1 \in 0 .. Top /\ hi_contig + 1 <= x - 1
    BY <1>1
  <2> QED  BY <1>1, <1>2, <2>1, AddRangeLemma
<1> HIDE DEF A
<1>4. /\ Proper(N) /\ Within(N, A)
      /\ \A y \in Int : Covers(A, y) /\ y # x => Covers(N, y)
  BY <1>1, <1>3, RemoveSeqLemma
<1> HIDE DEF N
<1>5. /\ Proper(missing') /\ Within(missing', N) /\ \A r \in missing' : hi_contig < r.start
      /\ \A y \in Int : Covers(N, y) /\ hi_contig < y => Covers(missing', y)
  <2>1. missing' = Trim(N, hi_contig) /\ hi_contig \in -1 .. Top
    BY <1>1 DEF A, N
  <2> QED  BY <1>4, <2>1, TrimLemma
<1>6. received = (0 .. hi_contig) \cup ooo /\ hi_contig + 1 \notin received
  BY DEF GapInv, ContigExact
<1>7. AboveContig'
  BY <1>1 DEF AboveContig, GapInv
<1>8. ContigExact'
  BY <1>1, <1>6 DEF ContigExact
<1>9. RangesSeparated'
  BY <1>5 DEF Proper, RangesSeparated, Apart
<1>10. NoGapForgotten'
  <2> SUFFICES ASSUME NEW y \in received', NEW z \in 0 .. y - 1, z \notin received'
               PROVE  Covers(missing', z)
    BY DEF NoGapForgotten, Covered, Covers, In
  <2>1. /\ y \in Nat /\ z \in Nat /\ z < y /\ z # x /\ z \notin received
        /\ hi_contig < z
    BY <1>1, <1>6
  <2>2. CASE y \in received
    <3>1. Covers(missing, z)
      BY <2>1, <2>2 DEF GapInv, NoGapForgotten, Covered, Covers
    <3> QED  BY <1>3, <1>4, <1>5, <2>1, <3>1
  <2>3. CASE y = x
    <3>1. hi_contig + 1 <= z /\ z <= x - 1
      BY <1>1, <2>1, <2>3
    <3> QED  BY <1>3, <1>4, <1>5, <2>1, <3>1
  <2> QED  BY <2>2, <2>3
<1>11. ListedBelowHighest'
  <2> SUFFICES ASSUME NEW r \in missing' PROVE \E y \in ooo' : r.end < y
    BY DEF ListedBelowHighest
  <2>1. PICK u \in N : u.start <= r.start /\ r.end <= u.end
    BY <1>5 DEF Within
  <2>2. PICK q \in A : q.start <= u.start /\ u.end <= q.end
    BY <1>4 DEF Within
  <2>3. r.end \in Int /\ u.end \in Int /\ q.end \in Int
    BY <1>3, <1>4, <1>5, TopBound DEF Proper, Ranges
  <2>4. r.end <= q.end
    BY <2>1, <2>2, <2>3
  <2>5. CASE q.end = x - 1
    BY <1>1, <2>3, <2>4, <2>5
  <2>6. CASE \E p \in missing : q.end = p.end
    <3>1. PICK y \in ooo : q.end < y
      BY <2>6 DEF GapInv, ListedBelowHighest
    <3> QED  BY <1>1, <2>3, <2>4, <3>1
  <2> QED  BY <1>3, <2>5, <2>6
<1>12. hi_contig' \in -1 .. Top /\ ooo' \subseteq Seqs /\ received' \subseteq Seqs
  BY DEF GapInv, TypeOK
<1> QED  BY <1>5, <1>7, <1>8, <1>9, <1>10, <1>11, <1>12 DEF Proper

\* Nothing has been received at the start.
LEMMA GapInit == ASSUME TInit PROVE GapInv
<1>1. Top \in Nat /\ MaxTime \in Nat /\ MinReportInterval \in Nat
  BY TopBound, GapAssumption
<1>2. TypeOK
  BY <1>1 DEF TInit, Init, TypeOK
<1>3. ContigExact
  BY DEF TInit, Init, ContigExact
<1> QED  BY <1>2, <1>3 DEF TInit, Init, GapInv, AboveContig, RangesSeparated,
                          NoGapForgotten, ListedBelowHighest

\* Steps that leave what the tracker remembers of the origin alone.
LEMMA GapUnchanged ==
    ASSUME GapInv, UNCHANGED <<trackVars, last_report_ts, last_sig, received>>,
           now' \in 0 .. MaxTime, lines' = {} \/ lines' = lines
    PROVE  GapInv'
<1>1. TypeOK'
  BY DEF GapInv, TypeOK, trackVars
<1>2. (AboveContig /\ RangesSeparated /\ ContigExact /\ ListedBelowHighest)'
  BY DEF GapInv, trackVars, AboveContig, RangesSeparated, ContigExact, ListedBelowHighest
<1>3. NoGapForgotten'
  BY DEF GapInv, trackVars, NoGapForgotten, Covered
<1> QED  BY <1>1, <1>2, <1>3 DEF GapInv

\* Every step keeps the invariant.
LEMMA GapStep ==
    ASSUME GapInv, [TNext]_tVars
    PROVE  GapInv'
<1>1. ASSUME NEW x \in Seqs, OnNewSeqno(x)
      PROVE  GapInv'
  <2> DEFINE Goal == /\ hi_contig' \in -1 .. Top /\ ooo' \subseteq Seqs
                     /\ missing' \subseteq Ranges /\ received' \subseteq Seqs
                     /\ AboveContig' /\ RangesSeparated' /\ NoGapForgotten'
                     /\ ContigExact' /\ ListedBelowHighest'
  <2>1. ASSUME x = hi_contig + 1 PROVE Goal
    <3>1. /\ hi_contig' = Advance(x)
          /\ ooo' = ooo \ (x .. Advance(x))
          /\ missing' = Trim(RemoveSeq(missing, x), Advance(x))
          /\ received' = received \cup {x}
      BY <1>1, <2>1, GapAssumption DEF OnNewSeqno, GapInv, TypeOK
    <3> QED  BY <3>1, <2>1, InOrderInv
  <2>2. ASSUME x > hi_contig + 1 PROVE Goal
    <3>1. /\ hi_contig' = hi_contig /\ x \notin ooo
          /\ ooo' = ooo \cup {x}
          /\ missing' = Trim(RemoveSeq(AddRange(missing, hi_contig + 1, x - 1, now), x), hi_contig)
          /\ received' = received \cup {x}
      BY <1>1, <2>2, GapAssumption DEF OnNewSeqno, GapInv, TypeOK
    <3> QED  BY <3>1, <2>2, BeyondGapInv
  <2>3. Goal
    BY <1>1, <2>1, <2>2 DEF OnNewSeqno
  <2>4. MaybeReport(missing') /\ now' = now
    BY <1>1 DEF OnNewSeqno
  <2>5. TypeOK'
    BY <2>3, <2>4, ReportType DEF GapInv, TypeOK, Ranges
  <2> QED  BY <2>3, <2>5 DEF GapInv
<1>2. ASSUME NEW x \in Seqs, OnOldSeqno(x)
      PROVE  GapInv'
  BY <1>2, GapUnchanged DEF OnOldSeqno, GapInv, TypeOK
<1>3. ASSUME NEW x \in Seqs, Receive(x)
      PROVE  GapInv'
  BY <1>1, <1>2, <1>3 DEF Receive, OnSeqno
<1>4. CASE Discover
  BY <1>4, GapUnchanged DEF Discover, GapInv, TypeOK
<1>5. CASE TTick
  <2>1. now' \in 0 .. MaxTime
    BY <1>5, GapAssumption DEF TTick, Tick, GapInv, TypeOK
  <2> QED  BY <1>5, <2>1, GapUnchanged DEF TTick, Tick
<1>6. CASE UNCHANGED tVars
  BY <1>6, GapUnchanged DEF tVars, gapVars, reportVars, GapInv, TypeOK
<1> QED  BY <1>3, <1>4, <1>5, <1>6 DEF TNext

\* The invariant holds throughout.
LEMMA GapInvariant == TSpec => []GapInv
  BY GapInit, GapStep, PTL DEF TSpec

-----------------------------------------------------------------------------
(* The loops of _on_gap_report, as recursive functions on 1 .. N.          *)

\* What holds of the first turn and passes from each turn to the next holds of
\* every turn.
LEMMA SetInd ==
    ASSUME NEW N \in Nat, NEW G, 1 \in G,
           \A i \in 1 .. N : i < N /\ i \in G => i + 1 \in G
    PROVE  \A i \in 1 .. N : i \in G
<1> DEFINE Bad == {i \in 1 .. N : i \notin G}
<1>1. SUFFICES ASSUME Bad # {} PROVE FALSE
  OBVIOUS
<1>2. Bad \in SUBSET Nat
  OBVIOUS
<1>3. Min(Bad) \in Bad /\ \A y \in Bad : Min(Bad) <= y
  BY <1>1, <1>2, MinNat
<1>4. PICK m \in Bad : \A y \in Bad : m <= y
  BY <1>3
<1>5. m # 1 /\ m - 1 \in 1 .. N /\ m - 1 < N
  BY <1>4
<1>6. m - 1 \in G
  BY <1>4, <1>5
<1>7. (m - 1) + 1 \in G
  BY <1>5, <1>6
<1> QED  BY <1>4, <1>7

\* The values of a loop of N turns, of which the first yields a.
Unrolls(f, N, S, a, g) ==
    /\ f \in [1 .. N -> S]
    /\ f[1] = a
    /\ \A i \in 2 .. N : f[i] = g[<<i, f[i - 1]>>]

\* The function that a recursion over 1 .. N defines exists.
LEMMA RecFun ==
    ASSUME NEW N \in Nat, N >= 1, NEW S, NEW a \in S, NEW g \in [Nat \X S -> S]
    PROVE  \E f : Unrolls(f, N, S, a, g)
<1> DEFINE Rec(f, n) == f[1] = a /\ \A i \in 2 .. n : f[i] = g[<<i, f[i - 1]>>]
           G == {n \in Nat : \E f \in [1 .. n -> S] : Rec(f, n)}
<1>1. 1 \in G
  <2>1. [i \in 1 .. 1 |-> a] \in [1 .. 1 -> S]
    OBVIOUS
  <2>2. Rec([i \in 1 .. 1 |-> a], 1)
    OBVIOUS
  <2> QED  BY <2>1, <2>2
<1>2. ASSUME NEW n \in 1 .. N, n \in G PROVE n + 1 \in G
  <2>1. PICK f \in [1 .. n -> S] : Rec(f, n)
    BY <1>2
  <2>2. f[n] \in S
    OBVIOUS
  <2>3. PICK v \in S : v = g[<<n + 1, f[n]>>]
    BY <2>2
  <2> DEFINE h == [i \in 1 .. n + 1 |-> IF i = n + 1 THEN v ELSE f[i]]
  <2>4. h \in [1 .. n + 1 -> S]
    OBVIOUS
  <2>5. \A i \in 1 .. n : h[i] = f[i]
    OBVIOUS
  <2>6. h[n + 1] = v
    OBVIOUS
  <2> HIDE DEF h
  <2>7. h[1] = a
    BY <2>1, <2>5
  <2>8. \A i \in 2 .. n + 1 : h[i] = g[<<i, h[i - 1]>>]
    <3>1. ASSUME NEW i \in 2 .. n PROVE h[i] = g[<<i, h[i - 1]>>]
      BY <2>1, <2>5
    <3>2. h[n + 1] = g[<<n + 1, h[(n + 1) - 1]>>]
      BY <2>3, <2>5, <2>6
    <3> QED  BY <3>1, <3>2
  <2>9. n + 1 \in Nat
    OBVIOUS
  <2> QED  BY <2>4, <2>7, <2>8, <2>9
<1>3. \A i \in 1 .. N : i < N /\ i \in G => i + 1 \in G
  BY <1>2
<1> HIDE DEF G
<1>4. N \in G
  BY <1>1, <1>3, SetInd
<1> QED  BY <1>4 DEF G, Unrolls

-----------------------------------------------------------------------------
(* Sorting the parsed ranges.                                              *)

Pairs == Nat \X Nat

\* What a report lists: nonempty ranges that neither overlap nor touch.
Reported(R) ==
    /\ R \subseteq Pairs /\ IsFiniteSet(R)
    /\ \A p \in R : p[1] <= p[2]
    /\ \A p, q \in R : p # q => p[2] + 1 < q[1] \/ q[2] + 1 < p[1]

\* A sequence of ranges of which each ends before the next begins.
Ascending(s) ==
    /\ s \in Seq(Pairs) /\ Len(s) >= 1
    /\ \A i \in 1 .. Len(s) : s[i][1] <= s[i][2]
    /\ \A i, j \in 1 .. Len(s) : i < j => s[i][2] < s[j][1]

\* The number x lies in one of the ranges.
Over(s, x) == \E i \in 1 .. Len(s) : s[i][1] <= x /\ x <= s[i][2]

IsSorting(s, R) ==
    /\ s \in [1 .. Cardinality(R) -> R]
    /\ \A i, j \in 1 .. Cardinality(R) : i # j => s[i] # s[j]
    /\ \A i, j \in 1 .. Cardinality(R) : i < j => s[i][1] <= s[j][1]

\* One of the ranges starts last.
LEMMA LastRange ==
    ASSUME NEW R, Reported(R), R # {}
    PROVE  \E m \in R : \A p \in R : p[1] <= m[1]
<1> DEFINE T == {p[1] : p \in R}
<1>1. T \in SUBSET Nat /\ T # {}
  BY DEF Reported, Pairs
<1>2. IsFiniteSet(T)
  <2> DEFINE f == [p \in R |-> p[1]]
  <2>1. f \in Surjection(R, T)
    BY DEF Surjection
  <2> QED  BY <2>1, FS_Surjection DEF Reported
<1>3. PICK b \in Nat : \A y \in T : y <= b
  BY <1>1, <1>2, FiniteBounded
<1>4. Max(T) \in T /\ \A y \in T : Max(T) >= y
  BY <1>1, <1>3, MaxNat
<1> QED  BY <1>4

\* The ranges can be sorted: a counterexample with fewest ranges would still be
\* one without the range that starts last.
LEMMA SortingExists ==
    ASSUME NEW R, Reported(R)
    PROVE  \E s : IsSorting(s, R)
<1> DEFINE Bad == {n \in Nat : \E A : Reported(A) /\ Cardinality(A) = n
                                        /\ ~ \E s : IsSorting(s, A)}
<1>1. SUFFICES ASSUME ~ \E s : IsSorting(s, R) PROVE FALSE
  OBVIOUS
<1>2. Cardinality(R) \in Bad
  BY <1>1, FS_CardinalityType DEF Reported
<1>3. Min(Bad) \in Bad /\ \A n \in Bad : Min(Bad) <= n
  BY <1>2, MinNat
<1>4. PICK N \in Bad : \A n \in Bad : N <= n
  BY <1>3
<1>5. PICK A : Reported(A) /\ Cardinality(A) = N /\ ~ \E s : IsSorting(s, A)
  BY <1>4
<1>6. IsFiniteSet(A) /\ N \in Nat
  BY <1>5 DEF Reported
<1>7. A # {}
  <2>1. ASSUME A = {} PROVE FALSE
    <3>1. Cardinality(A) = 0
      BY <2>1, FS_EmptySet
    <3>2. IsSorting(<< >>, A)
      BY <3>1 DEF IsSorting
    <3> QED  BY <3>2, <1>5
  <2> QED  BY <2>1
<1>8. PICK m \in A : \A p \in A : p[1] <= m[1]
  BY <1>5, <1>7, LastRange
<1> DEFINE B == A \ {m}
<1>9. IsFiniteSet(B) /\ Cardinality(B) = N - 1
  BY <1>5, <1>6, <1>8, FS_RemoveElement
<1>10. Cardinality(B) \in Nat
  BY <1>9, FS_CardinalityType
<1>11. Reported(B)
  BY <1>5, <1>9 DEF Reported
<1>12. \E s : IsSorting(s, B)
  <2>1. N - 1 \notin Bad
    BY <1>4, <1>6
  <2> QED  BY <2>1, <1>9, <1>10, <1>11
<1>13. PICK s : IsSorting(s, B)
  BY <1>12
<1>14. N >= 1
  BY <1>9, <1>10, <1>6
<1> DEFINE t == [i \in 1 .. N |-> IF i = N THEN m ELSE s[i]]
<1>15. /\ s \in [1 .. N - 1 -> B]
       /\ \A i, j \in 1 .. N - 1 : i # j => s[i] # s[j]
       /\ \A i, j \in 1 .. N - 1 : i < j => s[i][1] <= s[j][1]
  BY <1>9, <1>13 DEF IsSorting
<1>16. \A i \in 1 .. N : i = N \/ i \in 1 .. N - 1
  BY <1>6
<1>17. t \in [1 .. N -> A]
  BY <1>15, <1>16
<1>18. t[N] = m /\ \A i \in 1 .. N - 1 : t[i] = s[i] /\ t[i] \in B
  BY <1>6, <1>14, <1>15
<1> HIDE DEF t
<1>19. \A i, j \in 1 .. N : i # j => t[i] # t[j]
  BY <1>15, <1>16, <1>18
<1>20. \A i, j \in 1 .. N : i < j => t[i][1] <= t[j][1]
  <2>1. \A p \in B : p[1] <= m[1]
    BY <1>8
  <2>2. ASSUME NEW i \in 1 .. N, NEW j \in 1 .. N, i < j PROVE t[i][1] <= t[j][1]
    <3>1. i \in 1 .. N - 1
      BY <2>2, <1>6
    <3>2. CASE j = N
      BY <2>1, <3>1, <3>2, <1>18
    <3>3. CASE j \in 1 .. N - 1
      BY <2>2, <3>1, <3>3, <1>18, <1>15
    <3> QED  BY <3>2, <3>3, <1>16
  <2> QED  BY <2>2
<1>21. IsSorting(t, A)
  BY <1>5, <1>17, <1>19, <1>20 DEF IsSorting
<1> QED  BY <1>21, <1>5

\* parsed.sort: every range, once, each ending before the next begins.
LEMMA SortedLemma ==
    ASSUME NEW R, Reported(R), R # {}
    PROVE  /\ Ascending(Sorted(R))
           /\ \A i \in 1 .. Len(Sorted(R)) : Sorted(R)[i] \in R
           /\ \A p \in R : \E i \in 1 .. Len(Sorted(R)) : Sorted(R)[i] = p
<1>1. PICK N \in Nat : N = Cardinality(R)
  BY FS_CardinalityType DEF Reported
<1>2. PICK t : IsSorting(t, R)
  BY SortingExists
<1>3. t \in SetToSeqs(R) /\ Len(t) = N
  BY <1>1, <1>2 DEF IsSorting, SetToSeqs
<1>4. \A i, j \in 1 .. Len(t) : i < j => t[i][1] <= t[j][1]
  BY <1>1, <1>2, <1>3 DEF IsSorting
<1>5. PICK s : s = Sorted(R)
  OBVIOUS
<1>6. s \in SetToSeqs(R) /\ \A i, j \in 1 .. Len(s) : i < j => s[i][1] <= s[j][1]
  BY <1>3, <1>4, <1>5 DEF Sorted, IsSorted
<1>7. s \in [1 .. N -> R] /\ \A i, j \in 1 .. N : i # j => s[i] # s[j]
  BY <1>1, <1>6 DEF SetToSeqs
<1>8. s \in Seq(R) /\ Len(s) = N
  BY <1>7
<1>9. \A i, j \in 1 .. N : i < j => s[i][1] <= s[j][1]
  BY <1>6, <1>8
<1>10. s \in Seq(Pairs)
  BY <1>8, SeqMonotonic DEF Reported
<1>11. \A i, j \in 1 .. N : i < j => s[i][2] < s[j][1]
  <2>1. ASSUME NEW i \in 1 .. N, NEW j \in 1 .. N, i < j PROVE s[i][2] < s[j][1]
    <3>1. PICK p \in R, q \in R : p = s[i] /\ q = s[j]
      BY <1>7
    <3>2. p # q /\ p[1] <= q[1]
      BY <2>1, <3>1, <1>7, <1>9
    <3>3. p[2] + 1 < q[1] \/ q[2] + 1 < p[1]
      BY <3>2 DEF Reported
    <3>4. q[1] <= q[2] /\ p[1] \in Nat /\ p[2] \in Nat /\ q[1] \in Nat /\ q[2] \in Nat
      BY DEF Reported, Pairs
    <3> QED  BY <3>1, <3>2, <3>3, <3>4
  <2> QED  BY <2>1
<1>12. \A p \in R : \E i \in 1 .. N : s[i] = p
  <2>1. s \in Injection(1 .. N, R)
    BY <1>7 DEF Injection, IsInjective
  <2>2. Cardinality(1 .. N) = Cardinality(R)
    BY <1>1, FS_Interval
  <2>3. s \in Surjection(1 .. N, R)
    BY <2>1, <2>2, FS_Injection DEF Reported
  <2> QED  BY <2>3 DEF Surjection
<1>13. N >= 1
  BY <1>1, FS_EmptySet DEF Reported
<1>14. Ascending(s)
  BY <1>7, <1>8, <1>10, <1>11, <1>13 DEF Ascending, Reported
<1> QED  BY <1>5, <1>7, <1>8, <1>12, <1>14

-----------------------------------------------------------------------------
(* Coalescing.                                                             *)

\* After turn i of the coalescing loop over ps, m ascends up to the end of
\* ps[i] and covers the first i ranges and, apart from them, only holes of at
\* most merge_distance numbers.
Coalesced(ps, i, m) ==
    /\ Ascending(m)
    /\ m[Len(m)][2] = ps[i][2]
    /\ \A x \in Nat : Over(ps, x) /\ x <= ps[i][2] => Over(m, x)
    /\ \A x \in Nat : Over(m, x) =>
           \/ Over(ps, x)
           \/ \E v, w \in Nat : /\ Over(ps, v) /\ Over(ps, w)
                                /\ v < x /\ x < w /\ w - v - 1 <= MergeDistance

\* One turn of the loop.
LEMMA ExtendLemma ==
    ASSUME NEW ps, Ascending(ps), NEW i \in 1 .. Len(ps), i < Len(ps),
           NEW m, Coalesced(ps, i, m)
    PROVE  Coalesced(ps, i + 1, Extend(m, ps[i + 1]))
<1>1. PICK n \in Nat : n = Len(m) /\ n >= 1 /\ m \in Seq(Pairs)
  BY DEF Coalesced, Ascending
<1>2. PICK l \in Pairs : l = m[n]
  BY <1>1, ElementOfSeq
<1>3. PICK p \in Pairs : p = ps[i + 1]
  BY ElementOfSeq DEF Ascending
<1>4. PICK o \in Pairs : o = ps[i]
  BY ElementOfSeq DEF Ascending
<1>5. /\ l[1] \in Nat /\ l[2] \in Nat /\ p[1] \in Nat /\ p[2] \in Nat
      /\ l[1] <= l[2] /\ l[2] = o[2] /\ o[2] < p[1] /\ p[1] <= p[2]
  <2>1. l[1] \in Nat /\ l[2] \in Nat /\ p[1] \in Nat /\ p[2] \in Nat
    BY DEF Pairs
  <2>2. l[2] = o[2]
    BY <1>1, <1>2, <1>4 DEF Coalesced
  <2>3. l[1] <= l[2]
    BY <1>1, <1>2 DEF Coalesced, Ascending
  <2>4. i + 1 \in 1 .. Len(ps) /\ i < i + 1
    BY DEF Ascending
  <2>5. o[2] < p[1] /\ p[1] <= p[2]
    BY <2>4, <1>3, <1>4 DEF Ascending
  <2> QED  BY <2>1, <2>2, <2>3, <2>5
<1>6. \A x \in Nat : o[2] < x /\ x < p[1] => ~Over(ps, x)
  <2>1. ASSUME NEW x \in Nat, o[2] < x, x < p[1], NEW j \in 1 .. Len(ps),
               ps[j][1] <= x, x <= ps[j][2]
        PROVE  FALSE
    <3>1. PICK q \in Pairs : q = ps[j]
      BY ElementOfSeq DEF Ascending
    <3>2. q[1] \in Nat /\ q[2] \in Nat /\ o[1] \in Nat /\ o[2] \in Nat
      BY DEF Pairs
    <3>3. j < i => q[2] < o[1] /\ o[1] <= o[2]
      BY <3>1, <1>4 DEF Ascending
    <3>4. j > i + 1 => p[2] < q[1]
      BY <3>1, <1>3 DEF Ascending
    <3>5. j < i \/ j = i \/ j = i + 1 \/ j > i + 1
      BY DEF Ascending
    <3>6. q[1] <= x /\ x <= q[2]
      BY <2>1, <3>1
    <3>7. j # i /\ j # i + 1
      BY <2>1, <3>1, <3>2, <3>6, <1>3, <1>4, <1>5
    <3>8. ~(j < i)
      BY <2>1, <3>2, <3>3, <3>6
    <3>9. ~(j > i + 1)
      BY <2>1, <3>2, <3>4, <3>6, <1>5
    <3> QED  BY <3>5, <3>7, <3>8, <3>9
  <2> QED  BY <2>1 DEF Over
<1>7. Over(ps, p[1]) /\ Over(ps, o[2]) /\ \A x \in Nat : p[1] <= x /\ x <= p[2] => Over(ps, x)
  <2>1. i + 1 \in 1 .. Len(ps)
    BY DEF Ascending
  <2>2. o[1] <= o[2] /\ o[1] \in Nat /\ o[2] \in Nat
    BY <1>4 DEF Ascending, Pairs
  <2> QED  BY <2>1, <2>2, <1>3, <1>4, <1>5 DEF Over
<1>8. \A k \in 1 .. n : k < n => m[k][2] < l[1]
  BY <1>1, <1>2 DEF Coalesced, Ascending
<1>9. CASE p[1] <= l[2] + 1 + MergeDistance
  <2> DEFINE e == <<l[1], p[2]>>
  <2>1. PICK fr : fr = Front(m)
    OBVIOUS
  <2>2. /\ fr \in Seq(Pairs) /\ Len(fr) = n - 1
        /\ \A k \in 1 .. n - 1 : fr[k] = m[k]
    <3>1. \A k \in 1 .. n - 1 : m[k] \in Pairs
      BY <1>1, ElementOfSeq
    <3> QED  BY <3>1, <2>1, <1>1, SubSeqProperties DEF Front
  <2>3. e \in Pairs
    BY <1>5 DEF Pairs
  <2>4. Max({p[2], l[2]}) = p[2]
    <3>1. {p[2], l[2]} \in SUBSET Nat /\ \A y \in {p[2], l[2]} : y <= p[2]
      BY <1>5
    <3>2. Max({p[2], l[2]}) \in {p[2], l[2]} /\ \A y \in {p[2], l[2]} : Max({p[2], l[2]}) >= y
      BY <3>1, <1>5, MaxNat
    <3> QED  BY <3>1, <3>2, <1>5
  <2>5. PICK t : t = Extend(m, ps[i + 1])
    OBVIOUS
  <2>6. t = Append(fr, e)
    BY <2>1, <2>4, <2>5, <1>1, <1>2, <1>3, <1>9 DEF Extend, Last
  <2>7. /\ t \in Seq(Pairs) /\ Len(t) = n /\ t[n] = e
        /\ \A k \in 1 .. n - 1 : t[k] = m[k]
    BY <2>2, <2>3, <2>6, <1>1, AppendProperties
  <2>8. \A k \in 1 .. n : k = n \/ k \in 1 .. n - 1
    BY <1>1
  <2>9. Ascending(t)
    <3>1. \A k \in 1 .. n : t[k][1] <= t[k][2]
      BY <2>7, <2>8, <1>1, <1>5 DEF Coalesced, Ascending
    <3>2. \A k, j \in 1 .. n : k < j => t[k][2] < t[j][1]
      <4>1. ASSUME NEW k \in 1 .. n, NEW j \in 1 .. n, k < j PROVE t[k][2] < t[j][1]
        <5>1. k \in 1 .. n - 1
          BY <4>1, <1>1
        <5>2. CASE j = n
          BY <5>1, <5>2, <2>7, <1>8, <4>1
        <5>3. CASE j \in 1 .. n - 1
          BY <5>1, <5>3, <2>7, <4>1, <1>1 DEF Coalesced, Ascending
        <5> QED  BY <5>2, <5>3, <2>8
      <4> QED  BY <4>1
    <3> QED  BY <3>1, <3>2, <2>7, <1>1 DEF Ascending
  <2>10. \A x \in Nat : Over(m, x) => Over(t, x)
    <3>1. ASSUME NEW x \in Nat, NEW k \in 1 .. n, m[k][1] <= x, x <= m[k][2]
          PROVE  Over(t, x)
      <4>1. CASE k \in 1 .. n - 1
        BY <4>1, <3>1, <2>7, <1>1 DEF Over
      <4>2. CASE k = n
        <5>1. t[n][1] <= x /\ x <= t[n][2]
          BY <4>2, <3>1, <2>7, <1>2, <1>5
        <5> QED  BY <5>1, <2>7, <1>1 DEF Over
      <4> QED  BY <4>1, <4>2, <2>8
    <3> QED  BY <3>1, <1>1 DEF Over
  <2>11. \A x \in Nat : Over(t, x) => Over(m, x) \/ (l[2] < x /\ x <= p[2])
    <3>1. ASSUME NEW x \in Nat, NEW k \in 1 .. n, t[k][1] <= x, x <= t[k][2]
          PROVE  Over(m, x) \/ (l[2] < x /\ x <= p[2])
      <4>1. CASE k \in 1 .. n - 1
        BY <4>1, <3>1, <2>7, <1>1 DEF Over
      <4>2. CASE k = n
        <5>1. l[1] <= x /\ x <= p[2]
          BY <4>2, <3>1, <2>7
        <5>2. x <= l[2] => Over(m, x)
          BY <5>1, <1>1, <1>2 DEF Over
        <5> QED  BY <5>1, <5>2, <1>5
      <4> QED  BY <4>1, <4>2, <2>8
    <3> QED  BY <3>1, <2>7 DEF Over
  <2>12. \A x \in Nat : l[2] < x /\ x <= p[2] => Over(t, x)
    <3>1. ASSUME NEW x \in Nat, l[2] < x, x <= p[2] PROVE Over(t, x)
      <4>1. t[n][1] <= x /\ x <= t[n][2]
        BY <3>1, <2>7, <1>5
      <4> QED  BY <4>1, <2>7, <1>1 DEF Over
    <3> QED  BY <3>1
  <2>13. \A x \in Nat : Over(ps, x) /\ x <= ps[i + 1][2] => Over(t, x)
    <3>1. ASSUME NEW x \in Nat, Over(ps, x), x <= p[2] PROVE Over(t, x)
      <4>1. CASE x <= o[2]
        <5>1. Over(m, x)
          BY <4>1, <3>1, <1>4 DEF Coalesced
        <5> QED  BY <5>1, <2>10
      <4>2. CASE o[2] < x
        BY <4>2, <3>1, <2>12, <1>5
      <4> QED  BY <4>1, <4>2, <1>5
    <3> QED  BY <3>1, <1>3
  <2>14. \A x \in Nat : Over(t, x) =>
             \/ Over(ps, x)
             \/ \E v, w \in Nat : /\ Over(ps, v) /\ Over(ps, w)
                                  /\ v < x /\ x < w /\ w - v - 1 <= MergeDistance
    <3>1. ASSUME NEW x \in Nat, l[2] < x, x <= p[2]
          PROVE  \/ Over(ps, x)
                 \/ \E v, w \in Nat : /\ Over(ps, v) /\ Over(ps, w)
                                      /\ v < x /\ x < w /\ w - v - 1 <= MergeDistance
      <4>1. CASE p[1] <= x
        BY <4>1, <3>1, <1>7
      <4>2. CASE x < p[1]
        <5>1. o[2] < x /\ p[1] - o[2] - 1 <= MergeDistance
          BY <3>1, <1>5, <1>9, TargetAssumption
        <5> QED  BY <5>1, <4>2, <1>5, <1>7
      <4> QED  BY <4>1, <4>2, <1>5
    <3>2. \A x \in Nat : Over(m, x) =>
             \/ Over(ps, x)
             \/ \E v, w \in Nat : /\ Over(ps, v) /\ Over(ps, w)
                                  /\ v < x /\ x < w /\ w - v - 1 <= MergeDistance
      BY DEF Coalesced
    <3> QED  BY <2>11, <3>1, <3>2
  <2>15. t[Len(t)][2] = ps[i + 1][2]
    BY <2>7, <1>3
  <2>16. Coalesced(ps, i + 1, t)
    BY <2>9, <2>13, <2>14, <2>15 DEF Coalesced
  <2> QED  BY <2>5, <2>16
<1>10. CASE ~(p[1] <= l[2] + 1 + MergeDistance)
  <2>5. PICK t : t = Extend(m, ps[i + 1])
    OBVIOUS
  <2>6. t = Append(m, p)
    BY <2>5, <1>1, <1>2, <1>3, <1>10 DEF Extend, Last
  <2>7. /\ t \in Seq(Pairs) /\ Len(t) = n + 1 /\ t[n + 1] = p
        /\ \A k \in 1 .. n : t[k] = m[k]
    BY <2>6, <1>1, AppendProperties
  <2>8. \A k \in 1 .. n + 1 : k = n + 1 \/ k \in 1 .. n
    BY <1>1
  <2>9. Ascending(t)
    <3>1. \A k \in 1 .. n + 1 : t[k][1] <= t[k][2]
      BY <2>7, <2>8, <1>1, <1>5 DEF Coalesced, Ascending
    <3>2. \A k \in 1 .. n : m[k][2] < p[1]
      <4>1. ASSUME NEW k \in 1 .. n PROVE m[k][2] < p[1]
        <5>1. m[k][2] \in Nat
          BY <1>1, ElementOfSeq DEF Pairs
        <5>2. CASE k = n
          BY <5>2, <1>2, <1>5
        <5>3. CASE k < n
          BY <5>1, <5>3, <1>8, <1>5
        <5> QED  BY <5>2, <5>3, <1>1
      <4> QED  BY <4>1
    <3>3. \A k, j \in 1 .. n + 1 : k < j => t[k][2] < t[j][1]
      <4>1. ASSUME NEW k \in 1 .. n + 1, NEW j \in 1 .. n + 1, k < j PROVE t[k][2] < t[j][1]
        <5>1. k \in 1 .. n
          BY <4>1, <1>1
        <5>2. CASE j = n + 1
          BY <5>1, <5>2, <2>7, <3>2
        <5>3. CASE j \in 1 .. n
          BY <5>1, <5>3, <2>7, <4>1, <1>1 DEF Coalesced, Ascending
        <5> QED  BY <5>2, <5>3, <2>8
      <4> QED  BY <4>1
    <3> QED  BY <3>1, <3>3, <2>7, <1>1 DEF Ascending
  <2>10. \A x \in Nat : Over(m, x) => Over(t, x)
    <3>1. ASSUME NEW x \in Nat, NEW k \in 1 .. n, m[k][1] <= x, x <= m[k][2]
          PROVE  Over(t, x)
      <4>1. k \in 1 .. Len(t) /\ t[k] = m[k]
        BY <2>7, <1>1
      <4> QED  BY <4>1, <3>1 DEF Over
    <3> QED  BY <3>1, <1>1 DEF Over
  <2>11. \A x \in Nat : Over(t, x) => Over(m, x) \/ (p[1] <= x /\ x <= p[2])
    <3>1. ASSUME NEW x \in Nat, NEW k \in 1 .. n + 1, t[k][1] <= x, x <= t[k][2]
          PROVE  Over(m, x) \/ (p[1] <= x /\ x <= p[2])
      <4>1. CASE k \in 1 .. n
        BY <4>1, <3>1, <2>7, <1>1 DEF Over
      <4>2. CASE k = n + 1
        BY <4>2, <3>1, <2>7
      <4> QED  BY <4>1, <4>2, <2>8
    <3> QED  BY <3>1, <2>7 DEF Over
  <2>12. \A x \in Nat : p[1] <= x /\ x <= p[2] => Over(t, x)
    <3>1. n + 1 \in 1 .. Len(t)
      BY <2>7, <1>1
    <3> QED  BY <3>1, <2>7 DEF Over
  <2>13. \A x \in Nat : Over(ps, x) /\ x <= ps[i + 1][2] => Over(t, x)
    <3>1. ASSUME NEW x \in Nat, Over(ps, x), x <= p[2] PROVE Over(t, x)
      <4>1. CASE x <= o[2]
        <5>1. Over(m, x)
          BY <4>1, <3>1, <1>4 DEF Coalesced
        <5> QED  BY <5>1, <2>10
      <4>2. CASE o[2] < x
        <5>1. p[1] <= x
          BY <4>2, <3>1, <1>5, <1>6
        <5> QED  BY <5>1, <3>1, <2>12
      <4> QED  BY <4>1, <4>2, <1>5
    <3> QED  BY <3>1, <1>3
  <2>14. \A x \in Nat : Over(t, x) =>
             \/ Over(ps, x)
             \/ \E v, w \in Nat : /\ Over(ps, v) /\ Over(ps, w)
                                  /\ v < x /\ x < w /\ w - v - 1 <= MergeDistance
    <3>2. \A x \in Nat : Over(m, x) =>
             \/ Over(ps, x)
             \/ \E v, w \in Nat : /\ Over(ps, v) /\ Over(ps, w)
                                  /\ v < x /\ x < w /\ w - v - 1 <= MergeDistance
      BY DEF Coalesced
    <3> QED  BY <2>11, <3>2, <1>7
  <2>15. t[Len(t)][2] = ps[i + 1][2]
    BY <2>7, <1>3
  <2>16. Coalesced(ps, i + 1, t)
    BY <2>9, <2>13, <2>14, <2>15 DEF Coalesced
  <2> QED  BY <2>5, <2>16
<1> QED  BY <1>9, <1>10

\* What the loop yields.
LEMMA CoalesceLemma ==
    ASSUME NEW ps, Ascending(ps)
    PROVE  Coalesced(ps, Len(ps), Coalesce(ps))
<1>1. PICK N \in Nat : N = Len(ps) /\ N >= 1 /\ ps \in Seq(Pairs)
  BY DEF Ascending
<1> DEFINE S == {m \in Seq(Pairs) : Len(m) >= 1}
           g == [im \in Nat \X S |-> IF im[1] \in 1 .. N THEN Extend(im[2], ps[im[1]]) ELSE im[2]]
           Is(f) == f = [i \in 1 .. N |-> IF i = 1 THEN <<ps[1]>> ELSE Extend(f[i - 1], ps[i])]
<1>2. ASSUME NEW m \in S, NEW p \in Pairs PROVE Extend(m, p) \in S
  <2>1. Last(m) \in Pairs /\ Len(m) \in Nat
    BY ElementOfSeq DEF Last
  <2>2. PICK l \in Pairs : l = Last(m)
    BY <2>1
  <2>3. l[1] \in Nat /\ l[2] \in Nat /\ p[2] \in Nat
    BY DEF Pairs
  <2>4. {p[2], l[2]} \in SUBSET Nat /\ \A y \in {p[2], l[2]} : y <= p[2] + l[2]
    BY <2>3
  <2>5. Max({p[2], l[2]}) \in Nat
    <3>1. PICK b \in Nat : b = p[2] + l[2]
      BY <2>3
    <3>2. Max({p[2], l[2]}) \in {p[2], l[2]}
      BY <2>4, <3>1, MaxNat
    <3> QED  BY <2>3, <3>2
  <2>6. <<l[1], Max({p[2], l[2]})>> \in Pairs
    BY <2>3, <2>5 DEF Pairs
  <2>7. Front(m) \in Seq(Pairs)
    <3>1. \A k \in 1 .. Len(m) - 1 : m[k] \in Pairs
      BY <2>1, ElementOfSeq
    <3> QED  BY <3>1, <2>1, SubSeqProperties DEF Front
  <2>8. Append(m, p) \in S
    BY AppendProperties, <2>1
  <2>9. Append(Front(m), <<l[1], Max({p[2], l[2]})>>) \in S
    <3>1. PICK fr \in Seq(Pairs) : fr = Front(m)
      BY <2>7
    <3>2. PICK e \in Pairs : e = <<l[1], Max({p[2], l[2]})>>
      BY <2>6
    <3>3. Append(fr, e) \in Seq(Pairs) /\ Len(Append(fr, e)) = Len(fr) + 1 /\ Len(fr) \in Nat
      BY AppendProperties
    <3> QED  BY <3>1, <3>2, <3>3
  <2> QED  BY <2>2, <2>8, <2>9 DEF Extend
<1>3. <<ps[1]>> \in S
  <2>1. ps[1] \in Pairs
    BY <1>1, ElementOfSeq
  <2> QED  BY <2>1
<1>4. g \in [Nat \X S -> S]
  <2>1. \A i \in 1 .. N : ps[i] \in Pairs
    BY <1>1, ElementOfSeq
  <2> HIDE DEF S
  <2> QED  BY <2>1, <1>2
<1>5. \E f : Is(f)
  <2>1. PICK a \in S : a = <<ps[1]>>
    BY <1>3
  <2>6. PICK T, k : T = S /\ k = g
    OBVIOUS
  <2> HIDE DEF S, g
  <2>7. k \in [Nat \X T -> T] /\ a \in T
    BY <1>4, <2>1, <2>6
  <2>8. \E f : Unrolls(f, N, T, a, k)
    BY <1>1, <2>7, RecFun
  <2>2. PICK f \in [1 .. N -> S] : f[1] = a /\ \A i \in 2 .. N : f[i] = g[<<i, f[i - 1]>>]
    BY <2>6, <2>8 DEF Unrolls
  <2>3. \A i \in 2 .. N : f[i] = Extend(f[i - 1], ps[i])
    <3>1. ASSUME NEW i \in 2 .. N PROVE f[i] = Extend(f[i - 1], ps[i])
      <4>1. <<i, f[i - 1]>> \in Nat \X S /\ i \in 1 .. N
        OBVIOUS
      <4>2. g[<<i, f[i - 1]>>] = Extend(f[i - 1], ps[i])
        BY <4>1 DEF g
      <4> QED  BY <2>2, <4>2
    <3> QED  BY <3>1
  <2>4. \A i \in 1 .. N : f[i] = IF i = 1 THEN <<ps[1]>> ELSE Extend(f[i - 1], ps[i])
    BY <2>1, <2>2, <2>3
  <2>5. Is(f)
    BY <2>4
  <2> QED  BY <2>5
<1>6. PICK h : h = CHOOSE f : Is(f)
  OBVIOUS
<1>7. Is(h)
  <2> HIDE DEF Is
  <2> QED  BY <1>5, <1>6
<1>8. Coalesce(ps) = h[N]
  BY <1>1, <1>6 DEF Coalesce
<1>9. h[1] = <<ps[1]>> /\ \A i \in 1 .. N : i < N => h[i + 1] = Extend(h[i], ps[i + 1])
  <2>1. ASSUME NEW i \in 1 .. N, i < N PROVE h[i + 1] = Extend(h[i], ps[i + 1])
    <3>1. i + 1 \in 1 .. N /\ i + 1 # 1 /\ (i + 1) - 1 = i
      BY <2>1
    <3> QED  BY <3>1, <1>7
  <2>2. 1 \in 1 .. N
    BY <1>1
  <2>3. h[1] = <<ps[1]>>
    BY <2>2, <1>7
  <2> QED  BY <2>1, <2>3
<1> HIDE DEF Is
<1> DEFINE G == {i \in 1 .. N : Coalesced(ps, i, h[i])}
<1>10. 1 \in G
  <2>1. PICK p \in Pairs : p = ps[1]
    BY <1>1, ElementOfSeq
  <2>2. p[1] \in Nat /\ p[2] \in Nat /\ p[1] <= p[2]
    BY <2>1, <1>1 DEF Ascending, Pairs
  <2>3. Ascending(<<p>>)
    BY <2>2 DEF Ascending
  <2>4. \A x \in Nat : Over(<<p>>, x) <=> p[1] <= x /\ x <= p[2]
    BY DEF Over
  <2>5. \A x \in Nat : p[1] <= x /\ x <= p[2] => Over(ps, x)
    BY <2>1, <1>1 DEF Over
  <2>6. \A x \in Nat : Over(ps, x) /\ x <= p[2] => p[1] <= x
    <3>1. ASSUME NEW x \in Nat, x <= p[2], NEW j \in 1 .. N, ps[j][1] <= x, x <= ps[j][2]
          PROVE  p[1] <= x
      <4>1. PICK q \in Pairs : q = ps[j]
        BY <1>1, ElementOfSeq
      <4>2. q[1] \in Nat /\ q[2] \in Nat
        BY DEF Pairs
      <4>3. 1 < j => p[2] < q[1]
        BY <4>1, <2>1, <1>1 DEF Ascending
      <4> QED  BY <3>1, <4>1, <4>2, <4>3, <2>1, <2>2
    <3> QED  BY <3>1, <1>1 DEF Over
  <2>7. Coalesced(ps, 1, <<p>>)
    BY <2>1, <2>3, <2>4, <2>5, <2>6 DEF Coalesced
  <2> QED  BY <2>1, <2>7, <1>1, <1>9
<1>11. \A i \in 1 .. N : i < N /\ i \in G => i + 1 \in G
  <2>1. ASSUME NEW i \in 1 .. N, i < N, i \in G PROVE i + 1 \in G
    <3>1. Coalesced(ps, i + 1, Extend(h[i], ps[i + 1]))
      BY <2>1, <1>1, ExtendLemma
    <3> QED  BY <3>1, <2>1, <1>1, <1>9
  <2> QED  BY <2>1
<1>12. N \in G
  <2> HIDE DEF G
  <2>1. N \in 1 .. N
    BY <1>1
  <2> QED  BY <2>1, <1>10, <1>11, SetInd
<1> QED  BY <1>1, <1>8, <1>12

-----------------------------------------------------------------------------
(* Cutting the coalesced ranges into requests.                             *)

\* No request asks for more than max_range_len numbers.
Short(s) == \A i \in 1 .. Len(s) : s[i][2] - s[i][1] <= MaxRangeLen - 1

\* The multiples of max_range_len ascend.
LEMMA Multiples ==
    ASSUME NEW L \in Nat, NEW i \in Nat, NEW j \in Nat, i < j
    PROVE  i * L \in Nat /\ j * L \in Nat /\ (i + 1) * L = i * L + L /\ i * L + L <= j * L
<1>1. (i + 1) * L = i * L + L /\ i * L \in Nat /\ j * L \in Nat
  OBVIOUS
<1>2. PICK k \in Nat : j = i + 1 + k
  <2>1. j - i - 1 \in Nat /\ j = i + 1 + (j - i - 1)
    OBVIOUS
  <2> QED  BY <2>1
<1>3. j * L = (i + 1) * L + k * L /\ k * L \in Nat
  BY <1>2
<1> QED  BY <1>1, <1>3

\* Where a number falls among the multiples of max_range_len.
LEMMA Quotient ==
    ASSUME NEW L \in Nat, L >= 1, NEW d \in Nat
    PROVE  /\ d \div L \in Nat
           /\ (d \div L) * L \in Nat
           /\ (d \div L) * L <= d /\ d < (d \div L) * L + L
<1>1. d = L * (d \div L) + (d % L) /\ d % L \in 0 .. L - 1 /\ d \div L \in Int
  OBVIOUS
<1>2. PICK q \in Int : q = d \div L
  BY <1>1
<1>3. L * q = q * L
  OBVIOUS
<1>4. q * L <= d /\ d < q * L + L
  BY <1>1, <1>2, <1>3
<1>5. q \in Nat
  <2>1. ASSUME q < 0 PROVE FALSE
    <3>1. q * L + L = (q + 1) * L
      OBVIOUS
    <3>2. q + 1 <= 0
      BY <2>1
    <3>3. (q + 1) * L <= 0
      BY <3>2
    <3> QED  BY <3>1, <3>3, <1>4
  <2> QED  BY <2>1
<1>6. q * L \in Nat
  BY <1>5
<1> QED  BY <1>2, <1>4, <1>5, <1>6

\* The chunks of a range ascend, are short and make up the range.
LEMMA ChunksLemma ==
    ASSUME NEW p \in Pairs, p[1] <= p[2]
    PROVE  /\ Ascending(Chunks(p))
           /\ Short(Chunks(p))
           /\ \A x \in Nat : Over(Chunks(p), x) <=> p[1] <= x /\ x <= p[2]
<1>1. PICK L \in Nat : L = MaxRangeLen /\ L >= 1
  BY TargetAssumption
<1>2. PICK s \in Nat, e \in Nat : p = <<s, e>> /\ p[1] = s /\ p[2] = e /\ s <= e
  BY DEF Pairs
<1>3. PICK d \in Nat : d = e - s
  BY <1>2
<1>4. PICK c \in Nat : c = (d + L) \div L /\ c * L \in Nat /\ c * L <= d + L /\ d + L < c * L + L
  <2>1. d + L \in Nat
    OBVIOUS
  <2> QED  BY <2>1, <1>1, Quotient
<1>5. c >= 1
  <2>1. c = 0 => c * L = 0
    OBVIOUS
  <2> QED  BY <2>1, <1>4
<1>6. PICK t : t = Chunks(p)
  OBVIOUS
<1>7. t = [i \in 1 .. c |-> <<s + (i - 1) * L, Min({e, s + i * L - 1})>>]
  <2>1. (p[2] - p[1] + MaxRangeLen) \div MaxRangeLen = c
    BY <1>1, <1>2, <1>3, <1>4
  <2> QED  BY <2>1, <1>1, <1>2, <1>6 DEF Chunks
<1>8. ASSUME NEW i \in 1 .. c
      PROVE  \E a \in Nat, b \in Nat :
                 /\ t[i] = <<a, b>> /\ (i - 1) * L \in Nat /\ i * L \in Nat
                 /\ a = s + (i - 1) * L /\ i * L = (i - 1) * L + L
                 /\ b <= e /\ b < s + i * L
                 /\ b = e \/ b = s + i * L - 1
                 /\ a <= b
  <2>1. PICK k \in Nat : k = i - 1 /\ k < c /\ k + 1 = i
    OBVIOUS
  <2>2. k * L \in Nat /\ (k + 1) * L = k * L + L /\ k * L + L <= c * L
    BY <2>1, Multiples
  <2>3. PICK u \in Nat : u = k * L
    BY <2>2
  <2>4. i * L = u + L /\ (i - 1) * L = u /\ u <= d
    BY <2>1, <2>2, <2>3, <1>4
  <2>5. PICK w \in Nat : w = s + i * L - 1 /\ w = s + u + L - 1
    <3>1. s + u + L - 1 \in Nat
      BY <1>1
    <3> QED  BY <3>1, <2>4
  <2>6. PICK b : b = Min({e, w})
    OBVIOUS
  <2>7. b \in {e, w} /\ b <= e /\ b <= w
    <3>1. {e, w} \in SUBSET Nat /\ {e, w} # {}
      OBVIOUS
    <3>2. Min({e, w}) \in {e, w} /\ \A y \in {e, w} : Min({e, w}) <= y
      BY <3>1, MinNat
    <3> QED  BY <3>2, <2>6
  <2>8. t[i] = <<s + u, b>>
    BY <1>7, <2>4, <2>5, <2>6
  <2>9. s + u \in Nat /\ b \in Nat /\ s + u <= b /\ b < s + i * L /\ (b = e \/ b = s + i * L - 1)
    BY <2>3, <2>4, <2>5, <2>7, <1>1, <1>2, <1>3
  <2> QED  BY <2>4, <2>7, <2>8, <2>9
<1>9. t \in Seq(Pairs) /\ Len(t) = c
  <2>1. \A i \in 1 .. c : t[i] \in Pairs
    BY <1>8 DEF Pairs
  <2>2. t \in [1 .. c -> Pairs]
    BY <2>1, <1>7
  <2> QED  BY <2>2
<1>10. \A i \in 1 .. c : t[i][1] <= t[i][2] /\ t[i][2] - t[i][1] <= L - 1
  <2>1. ASSUME NEW i \in 1 .. c PROVE t[i][1] <= t[i][2] /\ t[i][2] - t[i][1] <= L - 1
    <3>1. PICK a \in Nat, b \in Nat :
                 /\ t[i] = <<a, b>> /\ (i - 1) * L \in Nat /\ i * L \in Nat
                 /\ a = s + (i - 1) * L /\ i * L = (i - 1) * L + L
                 /\ b <= e /\ b < s + i * L
                 /\ b = e \/ b = s + i * L - 1
                 /\ a <= b
      BY <1>8
    <3>2. b - a <= L - 1
      BY <3>1
    <3> QED  BY <3>1, <3>2
  <2> QED  BY <2>1
<1>11. \A i, j \in 1 .. c : i < j => t[i][2] < t[j][1]
  <2>1. ASSUME NEW i \in 1 .. c, NEW j \in 1 .. c, i < j PROVE t[i][2] < t[j][1]
    <3>1. PICK a \in Nat, b \in Nat : t[i] = <<a, b>> /\ b < s + i * L /\ i * L \in Nat
                                      /\ i * L = (i - 1) * L + L /\ (i - 1) * L \in Nat
      BY <1>8
    <3>2. PICK a2 \in Nat, b2 \in Nat : t[j] = <<a2, b2>> /\ a2 = s + (j - 1) * L
                                      /\ (j - 1) * L \in Nat
      BY <1>8
    <3>3. i * L <= (j - 1) * L
      <4>1. i - 1 \in Nat /\ j - 1 \in Nat /\ i - 1 < j - 1
        BY <2>1
      <4>2. (i - 1) * L + L <= (j - 1) * L
        BY <4>1, Multiples
      <4> QED  BY <4>2, <3>1
    <3>4. b < a2
      BY <3>1, <3>2, <3>3
    <3> QED  BY <3>1, <3>2, <3>4
  <2> QED  BY <2>1
<1>12. ASSUME NEW x \in Nat, Over(t, x) PROVE s <= x /\ x <= e
  <2>1. PICK i \in 1 .. c : t[i][1] <= x /\ x <= t[i][2]
    BY <1>9, <1>12 DEF Over
  <2>2. PICK a \in Nat, b \in Nat : t[i] = <<a, b>> /\ b <= e /\ a = s + (i - 1) * L
                                    /\ (i - 1) * L \in Nat
    BY <1>8
  <2>3. a <= x /\ x <= b
    BY <2>1, <2>2
  <2> QED  BY <2>2, <2>3
<1>13. ASSUME NEW x \in Nat, s <= x, x <= e PROVE Over(t, x)
  <2>1. PICK y \in Nat : y = x - s /\ y <= d
    BY <1>13, <1>3
  <2>2. PICK q \in Nat : q * L \in Nat /\ q * L <= y /\ y < q * L + L
    BY <1>1, Quotient
  <2>3. q < c
    <3>1. ASSUME c < q PROVE FALSE
      <4>1. c * L + L <= q * L
        BY <3>1, Multiples
      <4> QED  BY <4>1, <2>1, <2>2, <1>4
    <3>2. c # q
      BY <2>1, <2>2, <1>4
    <3> QED  BY <3>1, <3>2
  <2>4. q + 1 \in 1 .. c /\ (q + 1) - 1 = q
    BY <2>3
  <2>5. PICK a \in Nat, b \in Nat :
                 /\ t[q + 1] = <<a, b>>
                 /\ a = s + q * L /\ (q + 1) * L = q * L + L
                 /\ b = e \/ b = s + (q + 1) * L - 1
    BY <2>4, <1>8
  <2>6. a <= x /\ x <= b
    BY <2>1, <2>2, <2>5, <1>13
  <2>7. t[q + 1][1] <= x /\ x <= t[q + 1][2]
    BY <2>5, <2>6
  <2> QED  BY <2>4, <2>7, <1>9 DEF Over
<1>14. Ascending(t)
  BY <1>5, <1>9, <1>10, <1>11 DEF Ascending
<1>15. Short(t)
  BY <1>1, <1>9, <1>10 DEF Short
<1> QED  BY <1>2, <1>6, <1>12, <1>13, <1>14, <1>15

\* The chunks of the first i ranges of m, one after the other.
Cut(m, i, f) ==
    /\ Ascending(f) /\ Short(f)
    /\ \A k \in 1 .. Len(f) : f[k][2] <= m[i][2]
    /\ \A x \in Nat : Over(f, x) <=> Over(m, x) /\ x <= m[i][2]

\* The chunks of the next range follow those of the earlier ones.
LEMMA CutLemma ==
    ASSUME NEW m, Ascending(m), NEW i \in 1 .. Len(m), i < Len(m),
           NEW f, Cut(m, i, f)
    PROVE  Cut(m, i + 1, f \o Chunks(m[i + 1]))
<1>1. PICK p \in Pairs : p = m[i + 1]
  BY ElementOfSeq DEF Ascending
<1>2. PICK o \in Pairs : o = m[i]
  BY ElementOfSeq DEF Ascending
<1>3. /\ o[1] \in Nat /\ o[2] \in Nat /\ p[1] \in Nat /\ p[2] \in Nat
      /\ o[2] < p[1] /\ p[1] <= p[2]
  <2>1. i + 1 \in 1 .. Len(m) /\ i < i + 1
    BY DEF Ascending
  <2> QED  BY <2>1, <1>1, <1>2 DEF Ascending, Pairs
<1>4. PICK c : c = Chunks(p)
  OBVIOUS
<1>5. Ascending(c) /\ Short(c) /\ \A x \in Nat : Over(c, x) <=> p[1] <= x /\ x <= p[2]
  BY <1>3, <1>4, ChunksLemma
<1>6. PICK a \in Nat : a = Len(f) /\ a >= 1 /\ f \in Seq(Pairs)
  BY DEF Cut, Ascending
<1>7. PICK b \in Nat : b = Len(c) /\ b >= 1 /\ c \in Seq(Pairs)
  BY <1>5 DEF Ascending
<1>8. PICK t : t = f \o c
  OBVIOUS
<1>9. /\ t \in Seq(Pairs) /\ Len(t) = a + b
      /\ \A k \in 1 .. a : t[k] = f[k]
      /\ \A k \in 1 .. b : t[a + k] = c[k]
  BY <1>6, <1>7, <1>8, ConcatProperties
<1>10. ASSUME NEW k \in 1 .. a + b
       PROVE  \/ k \in 1 .. a /\ t[k] = f[k]
              \/ k > a /\ k - a \in 1 .. b /\ t[k] = c[k - a]
  <2>1. CASE k <= a
    BY <2>1, <1>9
  <2>2. CASE k > a
    <3>1. k - a \in 1 .. b /\ a + (k - a) = k
      BY <2>2
    <3> QED  BY <3>1, <2>2, <1>9
  <2> QED  BY <2>1, <2>2
<1>11. \A k \in 1 .. a : f[k][1] \in Nat /\ f[k][2] \in Nat /\ f[k][1] <= f[k][2] /\ f[k][2] <= o[2]
  <2>1. \A k \in 1 .. a : f[k] \in Pairs
    BY <1>6, ElementOfSeq
  <2> QED  BY <2>1, <1>2, <1>6 DEF Cut, Ascending, Pairs
<1>12. \A k \in 1 .. b : /\ c[k][1] \in Nat /\ c[k][2] \in Nat /\ c[k][1] <= c[k][2]
                         /\ p[1] <= c[k][1] /\ c[k][2] <= p[2]
  <2>1. ASSUME NEW k \in 1 .. b
        PROVE /\ c[k][1] \in Nat /\ c[k][2] \in Nat /\ c[k][1] <= c[k][2]
              /\ p[1] <= c[k][1] /\ c[k][2] <= p[2]
    <3>1. c[k] \in Pairs
      BY <1>7, ElementOfSeq
    <3>2. c[k][1] \in Nat /\ c[k][2] \in Nat /\ c[k][1] <= c[k][2]
      BY <3>1, <1>5, <1>7 DEF Ascending, Pairs
    <3>3. Over(c, c[k][1]) /\ Over(c, c[k][2])
      BY <3>2, <1>7 DEF Over
    <3> QED  BY <3>2, <3>3, <1>5
  <2> QED  BY <2>1
<1>13. \A k \in 1 .. a + b : /\ t[k][1] <= t[k][2] /\ t[k][2] <= p[2]
                             /\ t[k][2] - t[k][1] <= MaxRangeLen - 1
  <2>1. \A k \in 1 .. a : f[k][2] - f[k][1] <= MaxRangeLen - 1
    BY <1>6 DEF Cut, Short
  <2>2. \A k \in 1 .. b : c[k][2] - c[k][1] <= MaxRangeLen - 1
    BY <1>5, <1>7 DEF Short
  <2>3. \A k \in 1 .. a : f[k][2] <= p[2]
    BY <1>3, <1>11
  <2>4. ASSUME NEW k \in 1 .. a + b
        PROVE t[k][1] <= t[k][2] /\ t[k][2] <= p[2] /\ t[k][2] - t[k][1] <= MaxRangeLen - 1
    BY <2>1, <2>2, <2>3, <1>10, <1>11, <1>12
  <2> QED  BY <2>4
<1>14. \A k, j \in 1 .. a + b : k < j => t[k][2] < t[j][1]
  <2>1. ASSUME NEW k \in 1 .. a + b, NEW j \in 1 .. a + b, k < j PROVE t[k][2] < t[j][1]
    <3>1. CASE k <= a /\ j <= a
      <4>1. k \in 1 .. a /\ j \in 1 .. a
        BY <3>1
      <4> QED  BY <4>1, <2>1, <1>6, <1>9 DEF Cut, Ascending
    <3>2. CASE k <= a /\ j > a
      <4>1. k \in 1 .. a /\ t[k] = f[k] /\ j - a \in 1 .. b /\ t[j] = c[j - a]
        BY <3>2, <1>10
      <4>2. f[k][2] \in Nat /\ f[k][2] <= o[2] /\ c[j - a][1] \in Nat /\ p[1] <= c[j - a][1]
        BY <4>1, <1>11, <1>12
      <4> QED  BY <4>1, <4>2, <1>3
    <3>3. CASE k > a /\ j > a
      <4>1. k - a \in 1 .. b /\ t[k] = c[k - a] /\ j - a \in 1 .. b /\ t[j] = c[j - a]
        BY <3>3, <1>10
      <4>2. k - a < j - a
        BY <2>1
      <4> QED  BY <4>1, <4>2, <1>5, <1>7 DEF Ascending
    <3> QED  BY <2>1, <3>1, <3>2, <3>3
  <2> QED  BY <2>1
<1>15. \A x \in Nat : Over(t, x) <=> Over(f, x) \/ Over(c, x)
  <2>1. ASSUME NEW x \in Nat, Over(t, x) PROVE Over(f, x) \/ Over(c, x)
    <3>1. PICK k \in 1 .. a + b : t[k][1] <= x /\ x <= t[k][2]
      BY <2>1, <1>9 DEF Over
    <3> QED  BY <3>1, <1>10, <1>6, <1>7 DEF Over
  <2>2. ASSUME NEW x \in Nat, Over(f, x) PROVE Over(t, x)
    <3>1. PICK k \in 1 .. a : f[k][1] <= x /\ x <= f[k][2]
      BY <2>2, <1>6 DEF Over
    <3>2. k \in 1 .. Len(t) /\ t[k] = f[k]
      BY <1>9
    <3> QED  BY <3>1, <3>2 DEF Over
  <2>3. ASSUME NEW x \in Nat, Over(c, x) PROVE Over(t, x)
    <3>1. PICK k \in 1 .. b : c[k][1] <= x /\ x <= c[k][2]
      BY <2>3, <1>7 DEF Over
    <3>2. a + k \in 1 .. Len(t) /\ t[a + k] = c[k]
      BY <1>9
    <3> QED  BY <3>1, <3>2 DEF Over
  <2> QED  BY <2>1, <2>2, <2>3
<1>16. \A x \in Nat : Over(t, x) <=> Over(m, x) /\ x <= p[2]
  <2>1. \A x \in Nat : p[1] <= x /\ x <= p[2] => Over(m, x)
    <3>1. i + 1 \in 1 .. Len(m)
      BY DEF Ascending
    <3> QED  BY <3>1, <1>1 DEF Over
  <2>2. \A x \in Nat : Over(m, x) /\ x <= p[2] => x <= o[2] \/ p[1] <= x
    <3>1. ASSUME NEW x \in Nat, x <= p[2], NEW j \in 1 .. Len(m), m[j][1] <= x, x <= m[j][2]
          PROVE  x <= o[2] \/ p[1] <= x
      <4>1. PICK q \in Pairs : q = m[j]
        BY ElementOfSeq DEF Ascending
      <4>2. q[1] \in Nat /\ q[2] \in Nat /\ q[1] <= x /\ x <= q[2]
        BY <4>1, <3>1 DEF Pairs
      <4>3. j < i => q[2] < o[1] /\ o[1] <= o[2]
        BY <4>1, <1>2 DEF Ascending
      <4>4. j > i + 1 => p[2] < q[1]
        BY <4>1, <1>1 DEF Ascending
      <4>5. j < i \/ j = i \/ j = i + 1 \/ j > i + 1
        BY DEF Ascending
      <4>6. ~(j > i + 1)
        BY <3>1, <4>2, <4>4, <1>3
      <4>7. j < i => x <= o[2]
        BY <4>2, <4>3, <1>3
      <4> QED  BY <4>1, <4>2, <4>5, <4>6, <4>7, <1>1, <1>2
    <3> QED  BY <3>1 DEF Over
  <2>3. \A x \in Nat : Over(f, x) <=> Over(m, x) /\ x <= o[2]
    BY <1>2 DEF Cut
  <2>4. \A x \in Nat : x <= o[2] => x <= p[2]
    BY <1>3
  <2> QED  BY <2>1, <2>2, <2>3, <2>4, <1>5, <1>15
<1>17. Ascending(t)
  BY <1>6, <1>7, <1>9, <1>13, <1>14 DEF Ascending
<1>18. Short(t)
  BY <1>9, <1>13 DEF Short
<1>19. Cut(m, i + 1, t)
  BY <1>1, <1>9, <1>13, <1>16, <1>17, <1>18 DEF Cut
<1> QED  BY <1>1, <1>4, <1>8, <1>19

\* All chunks of all ranges, in order.
Cuttings(m) == FlattenSeq([i \in DOMAIN m |-> Chunks(m[i])])

\* What the chunking loop yields.
LEMMA CuttingsLemma ==
    ASSUME NEW m, Ascending(m)
    PROVE  Cut(m, Len(m), Cuttings(m))
<1>1. PICK N \in Nat : N = Len(m) /\ N >= 1 /\ m \in Seq(Pairs) /\ DOMAIN m = 1 .. N
  BY DEF Ascending
<1>2. PICK cs : cs = [i \in 1 .. N |-> Chunks(m[i])]
  OBVIOUS
<1>3. ASSUME NEW i \in 1 .. N
      PROVE  /\ m[i] \in Pairs /\ m[i][1] <= m[i][2] /\ m[i][1] \in Nat /\ m[i][2] \in Nat
             /\ cs[i] = Chunks(m[i])
             /\ cs[i] \in Seq(Pairs)
  <2>1. m[i] \in Pairs /\ m[i][1] <= m[i][2]
    BY <1>1, ElementOfSeq DEF Ascending
  <2>2. Ascending(Chunks(m[i]))
    BY <2>1, ChunksLemma
  <2> QED  BY <2>1, <2>2, <1>2 DEF Ascending, Pairs
<1>4. cs \in Seq(Seq(Pairs)) /\ Len(cs) = N
  <2>1. cs \in [1 .. N -> Seq(Pairs)]
    BY <1>2, <1>3
  <2> QED  BY <2>1
<1> DEFINE S == Seq(Pairs)
           g == [im \in Nat \X S |-> IF im[1] \in 1 .. N THEN im[2] \o cs[im[1]] ELSE im[2]]
           Is(f) == f = [i \in 1 .. N |-> IF i = 1 THEN cs[i] ELSE f[i - 1] \o cs[i]]
<1>5. \E f : Is(f)
  <2>1. PICK a \in S : a = cs[1]
    BY <1>1, <1>3
  <2>2. g \in [Nat \X S -> S]
    <3>1. \A i \in 1 .. N, u \in S : u \o cs[i] \in S
      BY <1>3, ConcatProperties
    <3> HIDE DEF S
    <3> QED  BY <3>1
  <2>3. PICK T, k : T = S /\ k = g
    OBVIOUS
  <2> HIDE DEF S, g
  <2>4. k \in [Nat \X T -> T] /\ a \in T
    BY <2>1, <2>2, <2>3
  <2>5. \E f : Unrolls(f, N, T, a, k)
    BY <1>1, <2>4, RecFun
  <2>6. PICK f \in [1 .. N -> S] : f[1] = a /\ \A i \in 2 .. N : f[i] = g[<<i, f[i - 1]>>]
    BY <2>3, <2>5 DEF Unrolls
  <2>7. \A i \in 2 .. N : f[i] = f[i - 1] \o cs[i]
    <3>1. ASSUME NEW i \in 2 .. N PROVE f[i] = f[i - 1] \o cs[i]
      <4>1. <<i, f[i - 1]>> \in Nat \X S /\ i \in 1 .. N
        OBVIOUS
      <4>2. g[<<i, f[i - 1]>>] = f[i - 1] \o cs[i]
        BY <4>1 DEF g
      <4> QED  BY <2>6, <4>2
    <3> QED  BY <3>1
  <2>8. \A i \in 1 .. N : f[i] = IF i = 1 THEN cs[i] ELSE f[i - 1] \o cs[i]
    <3>1. ASSUME NEW i \in 1 .. N PROVE f[i] = IF i = 1 THEN cs[i] ELSE f[i - 1] \o cs[i]
      <4>1. CASE i = 1
        BY <4>1, <2>1, <2>6
      <4>2. CASE i # 1
        <5>1. i \in 2 .. N
          BY <4>2
        <5> QED  BY <5>1, <4>2, <2>7
      <4> QED  BY <4>1, <4>2
    <3> QED  BY <3>1
  <2>9. Is(f)
    BY <2>8
  <2> QED  BY <2>9
<1>6. PICK h : h = CHOOSE f : Is(f)
  OBVIOUS
<1>7. Is(h)
  <2> HIDE DEF Is
  <2> QED  BY <1>5, <1>6
<1>8. Cuttings(m) = h[N]
  <2>1. Cuttings(m) = FlattenSeq(cs)
    BY <1>1, <1>2 DEF Cuttings
  <2>2. FlattenSeq(cs) = h[N]
    BY <1>1, <1>4, <1>6 DEF FlattenSeq
  <2> QED  BY <2>1, <2>2
<1>9. h[1] = Chunks(m[1]) /\ \A i \in 1 .. N : i < N => h[i + 1] = h[i] \o Chunks(m[i + 1])
  <2>1. ASSUME NEW i \in 1 .. N, i < N PROVE h[i + 1] = h[i] \o Chunks(m[i + 1])
    <3>1. i + 1 \in 1 .. N /\ i + 1 # 1 /\ (i + 1) - 1 = i
      BY <2>1
    <3>2. h[i + 1] = h[i] \o cs[i + 1]
      BY <3>1, <1>7
    <3> QED  BY <3>1, <3>2, <1>3
  <2>2. 1 \in 1 .. N
    BY <1>1
  <2>3. h[1] = cs[1]
    BY <2>2, <1>7
  <2> QED  BY <2>1, <2>2, <2>3, <1>3
<1> HIDE DEF Is
<1> DEFINE G == {i \in 1 .. N : Cut(m, i, h[i])}
<1>10. 1 \in G
  <2>1. PICK p \in Pairs : p = m[1] /\ p[1] <= p[2] /\ p[1] \in Nat /\ p[2] \in Nat
    BY <1>1, <1>3
  <2>2. PICK c : c = Chunks(p)
    OBVIOUS
  <2>3. Ascending(c) /\ Short(c) /\ \A x \in Nat : Over(c, x) <=> p[1] <= x /\ x <= p[2]
    BY <2>1, <2>2, ChunksLemma
  <2>4. \A x \in Nat : p[1] <= x /\ x <= p[2] <=> Over(m, x) /\ x <= p[2]
    <3>1. \A x \in Nat : p[1] <= x /\ x <= p[2] => Over(m, x)
      BY <2>1, <1>1 DEF Over
    <3>2. ASSUME NEW x \in Nat, x <= p[2], NEW j \in 1 .. N, m[j][1] <= x, x <= m[j][2]
          PROVE  p[1] <= x
      <4>1. PICK q \in Pairs : q = m[j]
        BY <1>1, ElementOfSeq
      <4>2. q[1] \in Nat /\ q[2] \in Nat
        BY DEF Pairs
      <4>3. 1 < j => p[2] < q[1]
        BY <4>1, <2>1, <1>1 DEF Ascending
      <4> QED  BY <3>2, <4>1, <4>2, <4>3, <2>1
    <3> QED  BY <3>1, <3>2, <1>1 DEF Over
  <2>5. \A k \in 1 .. Len(c) : c[k][2] <= p[2]
    <3>1. ASSUME NEW k \in 1 .. Len(c) PROVE c[k][2] <= p[2]
      <4>1. c[k] \in Pairs
        BY <2>3, ElementOfSeq DEF Ascending
      <4>2. c[k][1] \in Nat /\ c[k][2] \in Nat /\ c[k][1] <= c[k][2]
        BY <4>1, <2>3 DEF Ascending, Pairs
      <4>3. Over(c, c[k][2])
        BY <4>2 DEF Over
      <4> QED  BY <4>2, <4>3, <2>3
    <3> QED  BY <3>1
  <2>6. Cut(m, 1, c)
    BY <2>1, <2>3, <2>4, <2>5 DEF Cut
  <2> QED  BY <2>1, <2>2, <2>6, <1>1, <1>9
<1>11. \A i \in 1 .. N : i < N /\ i \in G => i + 1 \in G
  <2>1. ASSUME NEW i \in 1 .. N, i < N, i \in G PROVE i + 1 \in G
    <3>1. Cut(m, i + 1, h[i] \o Chunks(m[i + 1]))
      BY <2>1, <1>1, CutLemma
    <3>2. h[i + 1] = h[i] \o Chunks(m[i + 1])
      BY <2>1, <1>9
    <3>3. Cut(m, i + 1, h[i + 1])
      BY <3>1, <3>2
    <3> QED  BY <3>3, <2>1
  <2> QED  BY <2>1
<1>12. N \in G
  <2> HIDE DEF G
  <2>1. N \in 1 .. N
    BY <1>1
  <2> QED  BY <2>1, <1>10, <1>11, SetInd
<1> QED  BY <1>1, <1>8, <1>12

-----------------------------------------------------------------------------
(* The requests of a batch.                                                *)

\* The number x is reported.
Lists(R, x) == \E p \in R : p[1] <= x /\ x <= p[2]

\* What the requests rs have to do with the reported ranges R: RequestsBounded
\* and LowestGapsFirst, as one statement about both.
Answers(rs, R) ==
    /\ rs \in Seq(Pairs) /\ Len(rs) <= MaxRequests
    /\ \A i \in 1 .. Len(rs) : rs[i][2] - rs[i][1] \in 0 .. MaxRangeLen - 1
    /\ \A i, j \in 1 .. Len(rs) : i < j => rs[i][2] < rs[j][1]
    /\ \A x \in Nat : Over(rs, x) =>
           \/ Lists(R, x)
           \/ \E v, w \in Nat : /\ Lists(R, v) /\ Lists(R, w)
                                /\ v < x /\ x < w /\ w - v - 1 <= MergeDistance
    /\ \A x \in Nat : Lists(R, x) /\ ~Over(rs, x) => \A y \in Nat : Over(rs, y) => y < x

\* The first k chunks, for any k up to the cap.
LEMMA PrefixLemma ==
    ASSUME NEW R, Reported(R), R # {},
           NEW all, all = Cuttings(Coalesce(Sorted(R))),
           NEW k \in 0 .. Len(all), k <= MaxRequests
    PROVE  Answers(SubSeq(all, 1, k), R)
<1>1. PICK ps, m : ps = Sorted(R) /\ m = Coalesce(ps)
  OBVIOUS
<1>2. /\ Ascending(ps)
      /\ \A x : Over(ps, x) <=> Lists(R, x)
  <2>1. /\ Ascending(ps)
        /\ \A i \in 1 .. Len(ps) : ps[i] \in R
        /\ \A p \in R : \E i \in 1 .. Len(ps) : ps[i] = p
    BY <1>1, SortedLemma
  <2> QED  BY <2>1 DEF Over, Lists
<1>3. Coalesced(ps, Len(ps), m)
  BY <1>1, <1>2, CoalesceLemma
<1>4. Ascending(m)
  BY <1>3 DEF Coalesced
<1>5. Cut(m, Len(m), all)
  BY <1>1, <1>4, CuttingsLemma
<1>6. PICK n \in Nat : n = Len(all) /\ all \in Seq(Pairs) /\ k <= n
  BY <1>5 DEF Cut, Ascending
<1>7. \A i \in 1 .. n : /\ all[i] \in Pairs /\ all[i][1] \in Nat /\ all[i][2] \in Nat
                        /\ all[i][1] <= all[i][2]
                        /\ all[i][2] - all[i][1] <= MaxRangeLen - 1
  <2>1. \A i \in 1 .. n : all[i] \in Pairs
    BY <1>6, ElementOfSeq
  <2> QED  BY <2>1, <1>5, <1>6 DEF Cut, Ascending, Short, Pairs
<1>8. \A i, j \in 1 .. n : i < j => all[i][2] < all[j][1]
  BY <1>5, <1>6 DEF Cut, Ascending
<1>9. PICK t : t = SubSeq(all, 1, k)
  OBVIOUS
<1>10. t \in Seq(Pairs) /\ Len(t) = k /\ \A i \in 1 .. k : t[i] = all[i] /\ i \in 1 .. n
  <2>1. \A i \in 1 .. k : all[i] \in Pairs
    BY <1>6, <1>7
  <2>2. k \in Int /\ 1 \in Int
    BY <1>6
  <2>3. /\ t \in Seq(Pairs)
        /\ Len(t) = IF 1 <= k THEN k - 1 + 1 ELSE 0
        /\ \A i \in 1 .. k - 1 + 1 : t[i] = all[1 + i - 1]
    BY <2>1, <2>2, <1>9, SubSeqProperties
  <2> QED  BY <2>3, <1>6
<1>11. \A x \in Nat : Over(t, x) => Over(all, x)
  <2>1. ASSUME NEW x \in Nat, NEW i \in 1 .. k, t[i][1] <= x, x <= t[i][2] PROVE Over(all, x)
    BY <2>1, <1>6, <1>10 DEF Over
  <2> QED  BY <2>1, <1>10 DEF Over
<1>12. \A x \in Nat : Over(all, x) => Over(m, x)
  BY <1>5 DEF Cut
<1>13. \A x \in Nat : Over(t, x) =>
           \/ Lists(R, x)
           \/ \E v, w \in Nat : /\ Lists(R, v) /\ Lists(R, w)
                                /\ v < x /\ x < w /\ w - v - 1 <= MergeDistance
  <2>1. \A x \in Nat : Over(m, x) =>
           \/ Over(ps, x)
           \/ \E v, w \in Nat : /\ Over(ps, v) /\ Over(ps, w)
                                /\ v < x /\ x < w /\ w - v - 1 <= MergeDistance
    BY <1>3 DEF Coalesced
  <2> QED  BY <2>1, <1>2, <1>11, <1>12
<1>14. \A x \in Nat : Lists(R, x) => Over(all, x)
  <2>1. ASSUME NEW x \in Nat, Lists(R, x) PROVE Over(all, x)
    <3>1. PICK i \in 1 .. Len(ps) : ps[i][1] <= x /\ x <= ps[i][2]
      BY <2>1, <1>2 DEF Over
    <3>2. PICK l \in Nat : l = Len(ps) /\ l >= 1 /\ ps \in Seq(Pairs)
      BY <1>2 DEF Ascending
    <3>3. PICK p \in Pairs, q \in Pairs : p = ps[i] /\ q = ps[l]
      BY <3>2, ElementOfSeq
    <3>4. i < l => p[2] < q[1] /\ q[1] <= q[2]
      BY <3>2, <3>3, <1>2 DEF Ascending
    <3>5. p[1] \in Nat /\ p[2] \in Nat /\ q[1] \in Nat /\ q[2] \in Nat
      BY DEF Pairs
    <3>6. x <= q[2]
      BY <3>1, <3>2, <3>3, <3>4, <3>5
    <3>7. Over(m, x)
      BY <2>1, <3>2, <3>3, <3>6, <1>2, <1>3 DEF Coalesced
    <3>8. PICK u \in Nat : u = Len(m) /\ u >= 1 /\ m \in Seq(Pairs)
      BY <1>4 DEF Ascending
    <3>9. m[u][2] = q[2]
      BY <3>2, <3>3, <3>8, <1>3 DEF Coalesced
    <3> QED  BY <3>6, <3>7, <3>8, <3>9, <1>5 DEF Cut
  <2> QED  BY <2>1
<1>15. \A x \in Nat : Lists(R, x) /\ ~Over(t, x) => \A y \in Nat : Over(t, y) => y < x
  <2>1. ASSUME NEW x \in Nat, Lists(R, x), ~Over(t, x), NEW y \in Nat, Over(t, y)
        PROVE  y < x
    <3>1. PICK j \in 1 .. n : all[j][1] <= x /\ x <= all[j][2]
      BY <2>1, <1>6, <1>14 DEF Over
    <3>2. ~(j <= k)
      <4>1. ASSUME j <= k PROVE FALSE
        <5>1. j \in 1 .. k
          BY <4>1
        <5> QED  BY <5>1, <3>1, <2>1, <1>10 DEF Over
      <4> QED  BY <4>1
    <3>3. PICK i \in 1 .. k : t[i][1] <= y /\ y <= t[i][2]
      BY <2>1, <1>10 DEF Over
    <3>4. i \in 1 .. n /\ i < j /\ t[i] = all[i]
      BY <3>2, <1>10
    <3>5. all[i][2] < all[j][1] /\ all[i][2] \in Nat /\ all[j][1] \in Nat
      BY <3>4, <1>7, <1>8
    <3> QED  BY <3>1, <3>3, <3>4, <3>5
  <2> QED  BY <2>1
<1>16. \A i \in 1 .. k : t[i][2] - t[i][1] \in 0 .. MaxRangeLen - 1
  <2>1. ASSUME NEW i \in 1 .. k PROVE t[i][2] - t[i][1] \in 0 .. MaxRangeLen - 1
    <3>1. PICK a \in Nat, b \in Nat :
              a = t[i][1] /\ b = t[i][2] /\ a <= b /\ b - a <= MaxRangeLen - 1
      BY <1>7, <1>10
    <3>2. b - a \in 0 .. MaxRangeLen - 1
      BY <3>1, TargetAssumption
    <3> QED  BY <3>1, <3>2
  <2> QED  BY <2>1
<1>17. \A i, j \in 1 .. k : i < j => t[i][2] < t[j][1]
  BY <1>8, <1>10
<1>18. Answers(t, R)
  BY <1>10, <1>13, <1>15, <1>16, <1>17 DEF Answers
<1> QED  BY <1>9, <1>18

\* A complete batch, and one that the link cut short.
LEMMA BatchLemma ==
    ASSUME NEW R, Reported(R), R # {}
    PROVE  /\ Answers(Batch(R), R)
           /\ \A k \in 0 .. Len(Batch(R)) - 1 : Answers(SubSeq(Batch(R), 1, k), R)
<1>1. PICK all : all = Cuttings(Coalesce(Sorted(R)))
  OBVIOUS
<1>2. PICK n \in Nat : n = Len(all) /\ all \in Seq(Pairs)
  <2>1. Ascending(Sorted(R))
    BY SortedLemma
  <2>2. Ascending(Coalesce(Sorted(R)))
    BY <2>1, CoalesceLemma DEF Coalesced
  <2>3. Ascending(all)
    BY <2>2, <1>1, CuttingsLemma DEF Cut
  <2> QED  BY <2>3 DEF Ascending
<1>3. PICK c : c = Min({n, MaxRequests})
  OBVIOUS
<1>4. c \in 0 .. n /\ c <= MaxRequests
  <2>1. {n, MaxRequests} \in SUBSET Nat /\ {n, MaxRequests} # {}
    BY TargetAssumption
  <2>2. Min({n, MaxRequests}) \in {n, MaxRequests}
        /\ \A y \in {n, MaxRequests} : Min({n, MaxRequests}) <= y
    BY <2>1, MinNat
  <2> QED  BY <2>2, <1>3, TargetAssumption
<1>5. PICK b : b = Batch(R)
  OBVIOUS
<1>6. b = SubSeq(all, 1, c)
  BY <1>1, <1>2, <1>3, <1>5 DEF Batch, Cuttings
<1>7. Answers(b, R)
  BY <1>1, <1>2, <1>4, <1>6, PrefixLemma
<1>8. Len(b) = c
  BY <1>2, <1>4, <1>6
<1>9. ASSUME NEW k \in 0 .. c - 1 PROVE Answers(SubSeq(b, 1, k), R)
  <2>1. SubSeq(b, 1, k) = SubSeq(all, 1, k)
    BY <1>2, <1>4, <1>6
  <2>2. k \in 0 .. Len(all) /\ k <= MaxRequests
    BY <1>2, <1>4, TargetAssumption
  <2>3. Answers(SubSeq(all, 1, k), R)
    BY <2>2, <1>1, PrefixLemma
  <2> QED  BY <2>1, <2>3
<1> QED  BY <1>5, <1>7, <1>8, <1>9

\* Requests that answer a report are bounded and leave out only what lies above
\* them.
LEMMA AnswersSuffice ==
    ASSUME Answers(requests, wanted), wanted \subseteq Pairs
    PROVE  RequestsBounded /\ LowestGapsFirst
<1>1. PICK n \in Nat : n = Len(requests) /\ requests \in Seq(Pairs) /\ DOMAIN requests = 1 .. n
  BY DEF Answers
<1>2. \A i \in 1 .. n : requests[i][1] \in Nat /\ requests[i][2] \in Nat
  BY <1>1, ElementOfSeq DEF Pairs
<1>3. \A x : x \in Asked <=> x \in Nat /\ Over(requests, x)
  <2>1. \A x : x \in Asked <=> \E i \in 1 .. n : x \in requests[i][1] .. requests[i][2]
    BY <1>1 DEF Asked
  <2>2. ASSUME NEW x, NEW i \in 1 .. n
        PROVE  x \in requests[i][1] .. requests[i][2]
                 <=> x \in Nat /\ requests[i][1] <= x /\ x <= requests[i][2]
    BY <1>2
  <2> QED  BY <2>1, <2>2, <1>1 DEF Over
<1>4. \A x : x \in Want <=> x \in Nat /\ Lists(wanted, x)
  BY DEF Want, Lists, Pairs
<1>5. RequestsBounded
  <2>1. \A x \in Asked \ Want : \E v, w \in Want : v < x /\ x < w /\ w - v - 1 <= MergeDistance
    BY <1>3, <1>4 DEF Answers
  <2> QED  BY <2>1, <1>1 DEF RequestsBounded, Answers
<1>6. LowestGapsFirst
  BY <1>3, <1>4 DEF LowestGapsFirst, Answers
<1> QED  BY <1>5, <1>6

-----------------------------------------------------------------------------
(* The requests of the last report.                                        *)

AnswerInv == Answers(requests, wanted) /\ wanted \subseteq Pairs

\* A report without requests.
LEMMA NoRequests == Answers(<< >>, {})
<1>1. << >> \in Seq(Pairs) /\ Len(<< >>) = 0
  OBVIOUS
<1>2. \A x : ~Over(<< >>, x)
  BY <1>1 DEF Over
<1>3. \A x : ~Lists({}, x)
  BY DEF Lists
<1> QED  BY <1>1, <1>2, <1>3, TargetAssumption DEF Answers

\* The confirmed line of a report lists separate ranges.
LEMMA ConfirmedLine ==
    ASSUME GapInv', NEW x \in Seqs, OnSeqno(x), NEW l \in lines', l.confirmed
    PROVE  Reported(l.ranges) /\ l.ranges # {} /\ l.ranges \subseteq Pairs
<1>1. OnNewSeqno(x)
  BY DEF OnSeqno, OnOldSeqno
<1>2. MaybeReport(missing')
  BY <1>1 DEF OnNewSeqno
<1>3. PICK M : M = missing'
  OBVIOUS
<1>4. l.ranges # {} /\ \E c \in BOOLEAN : l.ranges = Bucket(M, c)
  BY <1>2, <1>3 DEF MaybeReport
<1>5. /\ M \subseteq [start : 0 .. Top, end : 0 .. Top, ts : 0 .. MaxTime]
      /\ \A r \in M : r.start <= r.end
      /\ \A r, q \in M : r # q => r.end + 1 < q.start \/ q.end + 1 < r.start
  BY <1>3 DEF GapInv, TypeOK, RangesSeparated
<1>6. PICK R : R = l.ranges
  OBVIOUS
<1>7. \A p \in R : \E r \in M : p = <<r.start, r.end>>
  BY <1>4, <1>6 DEF Bucket
<1>8. R \subseteq (0 .. Top) \X (0 .. Top)
  BY <1>5, <1>7
<1>9. IsFiniteSet(R)
  <2>1. IsFiniteSet(0 .. Top)
    BY TopBound, FS_Interval
  <2>2. IsFiniteSet((0 .. Top) \X (0 .. Top))
    BY <2>1, FS_Product
  <2> QED  BY <2>2, <1>8, FS_Subset
<1>10. R \subseteq Pairs
  BY <1>8 DEF Pairs
<1>11. \A p \in R : p[1] <= p[2]
  BY <1>5, <1>7
<1>12. \A p, q \in R : p # q => p[2] + 1 < q[1] \/ q[2] + 1 < p[1]
  <2>1. ASSUME NEW p \in R, NEW q \in R, p # q PROVE p[2] + 1 < q[1] \/ q[2] + 1 < p[1]
    <3>1. PICK r \in M, s \in M : p = <<r.start, r.end>> /\ q = <<s.start, s.end>>
      BY <1>7
    <3>2. r # s
      BY <2>1, <3>1
    <3>3. r.end + 1 < s.start \/ s.end + 1 < r.start
      BY <3>2, <1>5
    <3> QED  BY <3>1, <3>3
  <2> QED  BY <2>1
<1> QED  BY <1>4, <1>6, <1>9, <1>10, <1>11, <1>12 DEF Reported

\* Every step leaves requests that answer the last report.
LEMMA AnswerStep ==
    ASSUME AnswerInv, GapInv', [TNext]_tVars
    PROVE  AnswerInv'
<1>1. ASSUME requests' = << >>, wanted' = {} PROVE AnswerInv'
  BY <1>1, NoRequests DEF AnswerInv
<1>2. ASSUME NEW x \in Seqs, Receive(x)
      PROVE  AnswerInv'
  <2>1. PICK ls : ls = lines'
    OBVIOUS
  <2>2. OnSeqno(x) /\ OnGapReport(ls)
    BY <1>2, <2>1 DEF Receive
  <2>3. CASE requests' = << >> /\ wanted' = {}
    BY <2>3, <1>1
  <2>4. CASE ~(requests' = << >> /\ wanted' = {})
    <3>1. PICK l : l = CHOOSE y \in ls : y.confirmed
      OBVIOUS
    <3>2. /\ \E y \in ls : y.confirmed
          /\ wanted' = l.ranges
          /\ \/ requests' = Batch(l.ranges)
             \/ \E k \in 0 .. Len(Batch(l.ranges)) - 1 : requests' = SubSeq(Batch(l.ranges), 1, k)
      BY <2>2, <2>4, <3>1 DEF OnGapReport
    <3>3. l \in ls /\ l.confirmed
      BY <3>1, <3>2
    <3>4. PICK R : R = l.ranges
      OBVIOUS
    <3>5. Reported(R) /\ R # {} /\ R \subseteq Pairs
      BY <2>1, <2>2, <3>3, <3>4, ConfirmedLine
    <3>6. Answers(requests', R)
      BY <3>2, <3>4, <3>5, BatchLemma
    <3> QED  BY <3>2, <3>4, <3>5, <3>6 DEF AnswerInv
  <2> QED  BY <2>3, <2>4
<1>3. CASE Discover
  BY <1>1, <1>3 DEF Discover
<1>4. CASE TTick
  BY <1>1, <1>4 DEF TTick
<1>5. CASE UNCHANGED tVars
  BY <1>5 DEF tVars, syncVars, AnswerInv
<1> QED  BY <1>2, <1>3, <1>4, <1>5 DEF TNext

\* The requests on the link answer the last report throughout.
LEMMA AnswerInvariant == TSpec => []AnswerInv
<1>1. TInit => AnswerInv
  BY NoRequests DEF TInit, AnswerInv
<1>2. AnswerInv /\ GapInv' /\ [TNext]_tVars => AnswerInv'
  BY AnswerStep
<1> QED  BY <1>1, <1>2, GapInvariant, PTL DEF TSpec

-----------------------------------------------------------------------------
(* The theorems.                                                           *)

\* Type correctness of the tracker, for any set of sequence numbers, any order
\* of arrival and any delays: on_seqno keeps every bound within what was sent.
THEOREM TypeCorrect == TSpec => []TypeOK
  BY GapInvariant, PTL DEF GapInv

\* The missing list of _GapTracker stays a list of nonempty ranges above
\* hi_contig that neither overlap nor touch, through every merge of _add_range,
\* split of _remove_seq and trimming in on_seqno.
THEOREM RangesStaySeparated == TSpec => []RangesSeparated
  BY GapInvariant, PTL DEF GapInv

\* on_seqno forgets no gap: whatever was skipped below a received number is on
\* the missing list until it arrives.
THEOREM GapsAreListed == TSpec => []NoGapForgotten
  BY GapInvariant, PTL DEF GapInv

\* hi_contig and the out-of-order buffer are exactly what was received, and
\* hi_contig stands before the first hole.
THEOREM ContigIsExact == TSpec => []ContigExact
  BY GapInvariant, PTL DEF GapInv

\* Nothing is listed as missing, and so nothing is asked for by targeted sync,
\* at or above the highest number that arrived out of order.
THEOREM NothingUnsentListed == TSpec => []ListedBelowHighest
  BY GapInvariant, PTL DEF GapInv

\* The batch of _on_gap_report is bounded whatever is reported and wherever the
\* link fails: at most max_requests requests that ascend without overlapping,
\* none longer than max_range_len, for nothing but reported numbers and holes of
\* at most merge_distance between them.  For any set of sequence numbers and any
\* values of the four settings.
THEOREM RequestsStayBounded == TSpec => []RequestsBounded
<1>1. AnswerInv => RequestsBounded
  BY AnswersSuffice DEF AnswerInv
<1> QED  BY <1>1, AnswerInvariant, PTL

\* Sorting, coalescing, chunking and the cap of _on_gap_report skip nothing: a
\* confirmed number that a batch leaves out lies above all that it asks for, so
\* that the next batch continues where this one stopped.
THEOREM LowestFirst == TSpec => []LowestGapsFirst
<1>1. AnswerInv => LowestGapsFirst
  BY AnswersSuffice DEF AnswerInv
<1> QED  BY <1>1, AnswerInvariant, PTL
=============================================================================
