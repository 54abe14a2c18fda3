-------------------------- MODULE FlattenLemmas ----------------------------
(***************************************************************************)
(* What FlattenSeq of SequencesExt computes on the prefixes of a sequence *)
(* of sequences: the flattening of the first k+1 elements is that of the  *)
(* first k followed by element k+1, and a shorter prefix flattens to a    *)
(* prefix of a longer one.  ProfileEngine lays the requests of its outer  *)
(* blocks out in declared order with FlattenSeq, and the engine's proofs  *)
(* locate the request at (oi, ri) in that order with these lemmas.        *)
(*                                                                         *)
(* FlattenSeq is defined by a recursive function local to it.  The        *)
(* inductions below are by a least counterexample: WFMin applied to the   *)
(* well-founded order < on Nat.                                           *)
(***************************************************************************)
EXTENDS SequencesExt, WellFoundedInduction, TLAPS

\* f satisfies the recursive definition local to FlattenSeq on 1..n.
FlatEq(s, f, n) ==
    f = [i \in 1..n |-> IF i = 1 THEN s[i] ELSE f[i - 1] \o s[i]]

\* The function FlattenSeq(s) chooses, for a nonempty s.
FlatFn(s) == CHOOSE f : FlatEq(s, f, Len(s))

\* The flattening of the first k elements of s.
FlatPre(s, k) == FlattenSeq(SubSeq(s, 1, k))

\* Every nonempty set of naturals has a least element.
LEMMA NatLeast ==
  ASSUME NEW S \in SUBSET Nat, S # {}
  PROVE  \E m \in S : \A k \in S : ~(k < m)
  <1>1. \E m \in S : \A k \in S : ~(<<k, m>> \in OpToRel(<, Nat))
    BY NatLessThanWellFounded, WFMin
  <1>2. QED
    BY <1>1 DEF OpToRel

\* For every n up to Len(s), the recursive definition has a solution on
\* 1..n, whose values are sequences.
LEMMA FlatEqExists ==
  ASSUME NEW T, NEW s \in Seq(Seq(T)), NEW n \in 0..Len(s)
  PROVE  \E f : FlatEq(s, f, n) /\ \A i \in 1..n : f[i] \in Seq(T)
  <1> DEFINE Good(m) == \E f : FlatEq(s, f, m) /\ \A i \in 1..m : f[i] \in Seq(T)
             Bad == {m \in 0..Len(s) : ~Good(m)}
  <1> SUFFICES Bad = {}
    OBVIOUS
  <1> SUFFICES ASSUME Bad # {} PROVE FALSE
    OBVIOUS
  <1>1. PICK m \in Bad : \A k \in Bad : ~(k < m)
    <2>1. Bad \in SUBSET Nat
      OBVIOUS
    <2>2. QED
      BY <2>1, NatLeast
  <1>2. m # 0
    <2>1. FlatEq(s, <<>>, 0) /\ \A i \in 1..0 : <<>>[i] \in Seq(T)
      BY DEF FlatEq
    <2>2. QED
      BY <2>1, <1>1
  <1>3. Good(m - 1)
    BY <1>1, <1>2
  <1>4. PICK f : FlatEq(s, f, m - 1) /\ \A i \in 1..m - 1 : f[i] \in Seq(T)
    BY <1>3
  <1> DEFINE g == [i \in 1..m |-> IF i < m THEN f[i]
                                  ELSE IF m = 1 THEN s[1] ELSE f[m - 1] \o s[m]]
  <1>5. \A i \in 1..m : g[i] = IF i = 1 THEN s[i] ELSE g[i - 1] \o s[i]
    <2> SUFFICES ASSUME NEW i \in 1..m
                 PROVE  g[i] = IF i = 1 THEN s[i] ELSE g[i - 1] \o s[i]
      OBVIOUS
    <2>1. m \in 1..Len(s)
      BY <1>1, <1>2
    <2>2. CASE i < m
      <3>1. f[i] = IF i = 1 THEN s[i] ELSE f[i - 1] \o s[i]
        <4>1. i \in 1..m - 1
          BY <2>1, <2>2
        <4>2. QED
          BY <4>1, <1>4 DEF FlatEq
      <3>2. QED
        BY <2>1, <2>2, <3>1
    <2>3. CASE i = m
      BY <2>1, <2>3
    <2>4. QED
      BY <2>2, <2>3
  <1>6. FlatEq(s, g, m)
    BY <1>5 DEF FlatEq
  <1>7. \A i \in 1..m : g[i] \in Seq(T)
    BY <1>1, <1>2, <1>4
  <1>8. QED
    BY <1>1, <1>6, <1>7
\* The recursive definition has at most one solution on 1..n.
LEMMA FlatEqUnique ==
  ASSUME NEW s, NEW n \in Nat, NEW f, NEW g, FlatEq(s, f, n), FlatEq(s, g, n)
  PROVE  f = g
  <1> DEFINE Bad == {i \in 1..n : f[i] # g[i]}
  <1>0. /\ \A i \in 1..n : f[i] = IF i = 1 THEN s[i] ELSE f[i - 1] \o s[i]
        /\ \A i \in 1..n : g[i] = IF i = 1 THEN s[i] ELSE g[i - 1] \o s[i]
        /\ f = [i \in 1..n |-> f[i]]
        /\ g = [i \in 1..n |-> g[i]]
    BY DEF FlatEq
  <1> SUFFICES Bad = {}
    BY <1>0
  <1> SUFFICES ASSUME Bad # {} PROVE FALSE
    OBVIOUS
  <1>1. PICK i \in Bad : \A k \in Bad : ~(k < i)
    <2>1. Bad \in SUBSET Nat
      OBVIOUS
    <2>2. QED
      BY <2>1, NatLeast
  <1>2. CASE i = 1
    BY <1>0, <1>1, <1>2
  <1>3. CASE i # 1
    <2>1. i - 1 \in 1..n /\ ~(i - 1 \in Bad)
      BY <1>1, <1>3
    <2>2. f[i - 1] = g[i - 1]
      BY <2>1
    <2>3. f[i] = f[i - 1] \o s[i] /\ g[i] = g[i - 1] \o s[i]
      BY <1>0, <1>1, <1>3
    <2>4. QED
      BY <1>1, <2>2, <2>3
  <1>4. QED
    BY <1>2, <1>3

\* FlattenSeq of the first k elements is the k-th value of the function
\* FlattenSeq(s) chooses, and it is a sequence.
LEMMA FlatPreFn ==
  ASSUME NEW T, NEW s \in Seq(Seq(T)), NEW k \in 1..Len(s)
  PROVE  /\ FlatPre(s, k) = FlatFn(s)[k]
         /\ FlatFn(s)[k] \in Seq(T)
  <1>1. PICK F : FlatEq(s, F, Len(s)) /\ \A i \in 1..Len(s) : F[i] \in Seq(T)
    <2>1. Len(s) \in 0..Len(s)
      OBVIOUS
    <2>2. QED
      BY <2>1, FlatEqExists, Zenon
  <1>2. FlatFn(s) = F
    <2>1. FlatEq(s, FlatFn(s), Len(s))
      BY <1>1 DEF FlatFn
    <2>2. QED
      BY <1>1, <2>1, FlatEqUnique
  <1> DEFINE u == SubSeq(s, 1, k)
             R == [i \in 1..k |-> F[i]]
  <1>2a. u \in Seq(Seq(T)) /\ Len(u) = k /\ \A i \in 1..k : u[i] = s[i]
    OBVIOUS
  <1>3. FlatEq(u, R, k)
    <2>1. \A i \in 1..k : R[i] = IF i = 1 THEN u[i] ELSE R[i - 1] \o u[i]
      <3> SUFFICES ASSUME NEW i \in 1..k
                   PROVE  R[i] = IF i = 1 THEN u[i] ELSE R[i - 1] \o u[i]
        OBVIOUS
      <3>0. i \in 1..Len(s)
        OBVIOUS
      <3>1. F[i] = IF i = 1 THEN s[i] ELSE F[i - 1] \o s[i]
        BY <1>1, <3>0 DEF FlatEq
      <3>2. i # 1 => R[i - 1] = F[i - 1]
        OBVIOUS
      <3>3. QED
        BY <1>2a, <3>1, <3>2
    <2>2. QED
      BY <2>1 DEF FlatEq
  <1>4. FlatEq(u, FlatFn(u), k)
    <2>1. PICK G : FlatEq(u, G, Len(u))
      <3>1. Len(u) \in 0..Len(u)
        OBVIOUS
      <3>2. QED
        BY <1>2a, <3>1, FlatEqExists, Zenon
    <2>2. QED
      BY <1>2a, <2>1 DEF FlatFn
  <1>5. FlatFn(u) = R
    BY <1>3, <1>4, FlatEqUnique
  <1>6. FlatPre(s, k) = FlatFn(u)[k]
    BY <1>2a DEF FlatPre, FlattenSeq, FlatFn, FlatEq
  <1>7. QED
    BY <1>1, <1>2, <1>5, <1>6
\* The function FlattenSeq(s) chooses satisfies the recursive definition.
LEMMA FlatFnEq ==
  ASSUME NEW T, NEW s \in Seq(Seq(T)), NEW i \in 1..Len(s)
  PROVE  FlatFn(s)[i] = IF i = 1 THEN s[i] ELSE FlatFn(s)[i - 1] \o s[i]
  <1>1. PICK F : FlatEq(s, F, Len(s))
    <2>1. Len(s) \in 0..Len(s)
      OBVIOUS
    <2>2. QED
      BY <2>1, FlatEqExists, Zenon
  <1>2. FlatEq(s, FlatFn(s), Len(s))
    BY <1>1 DEF FlatFn
  <1> DEFINE G == FlatFn(s)
  <1>3. G = [j \in 1..Len(s) |-> IF j = 1 THEN s[j] ELSE G[j - 1] \o s[j]]
    BY <1>2 DEF FlatEq
  <1>4. QED
    BY <1>3

\* The flattening of the empty prefix is empty, and that of the whole
\* sequence is FlattenSeq(s).
LEMMA FlatPreEnds ==
  ASSUME NEW T, NEW s \in Seq(Seq(T))
  PROVE  /\ FlatPre(s, 0) = <<>>
         /\ FlatPre(s, Len(s)) = FlattenSeq(s)
  <1>1. FlatPre(s, 0) = <<>>
    BY DEF FlatPre, FlattenSeq
  <1>2. SubSeq(s, 1, Len(s)) = s
    OBVIOUS
  <1>3. QED
    BY <1>1, <1>2 DEF FlatPre

\* Every prefix of s flattens to a sequence.
LEMMA FlatPreType ==
  ASSUME NEW T, NEW s \in Seq(Seq(T)), NEW k \in 0..Len(s)
  PROVE  FlatPre(s, k) \in Seq(T)
  <1>1. CASE k = 0
    <2>1. FlatPre(s, 0) = <<>>
      BY FlatPreEnds, Zenon
    <2>2. <<>> \in Seq(T)
      OBVIOUS
    <2>3. QED
      BY <1>1, <2>1, <2>2, Zenon
  <1>2. CASE k # 0
    <2>1. k \in 1..Len(s)
      BY <1>2
    <2>2. FlatPre(s, k) = FlatFn(s)[k] /\ FlatFn(s)[k] \in Seq(T)
      BY <2>1, FlatPreFn, Zenon
    <2>3. QED
      BY <2>2
  <1>3. QED
    BY <1>1, <1>2

\* Flattening one more element appends it.
LEMMA FlatPreStep ==
  ASSUME NEW T, NEW s \in Seq(Seq(T)), NEW k \in 0..Len(s) - 1
  PROVE  FlatPre(s, k + 1) = FlatPre(s, k) \o s[k + 1]
  <1>0. k + 1 \in 1..Len(s)
    OBVIOUS
  <1>1. /\ FlatPre(s, k + 1) = FlatFn(s)[k + 1]
        /\ FlatFn(s)[k + 1] = IF k + 1 = 1 THEN s[k + 1]
                              ELSE FlatFn(s)[k] \o s[k + 1]
    <2>1. FlatPre(s, k + 1) = FlatFn(s)[k + 1]
      BY <1>0, FlatPreFn, Zenon
    <2>2. FlatFn(s)[k + 1] = IF k + 1 = 1 THEN s[k + 1]
                             ELSE FlatFn(s)[(k + 1) - 1] \o s[k + 1]
      BY <1>0, FlatFnEq, Zenon
    <2>3. (k + 1) - 1 = k
      OBVIOUS
    <2>4. QED
      BY <2>1, <2>2, <2>3
  <1>2. CASE k = 0
    <2>1. FlatPre(s, 0) = <<>>
      BY FlatPreEnds, Zenon
    <2>2. s[1] \in Seq(T)
      BY <1>0
    <2>3. QED
      BY <1>1, <1>2, <2>1, <2>2
  <1>3. CASE k # 0
    <2>1. k \in 1..Len(s)
      BY <1>3
    <2>2. FlatPre(s, k) = FlatFn(s)[k]
      BY <2>1, FlatPreFn, Zenon
    <2>3. k + 1 # 1
      BY <1>3
    <2>4. FlatFn(s)[k + 1] = FlatFn(s)[k] \o s[k + 1]
      BY <1>1, <2>3, Zenon
    <2>5. QED
      BY <1>1, <2>2, <2>4, Zenon
  <1>4. QED
    BY <1>2, <1>3
\* A prefix b of a is a prefix of a \o c.
LEMMA PrefixConcat ==
  ASSUME NEW T, NEW a \in Seq(T), NEW b \in Seq(T), NEW c \in Seq(T),
         Len(b) <= Len(a), \A p \in 1..Len(b) : a[p] = b[p]
  PROVE  Len(b) <= Len(a \o c) /\ \A p \in 1..Len(b) : (a \o c)[p] = b[p]
  OBVIOUS

\* The flattening of a shorter prefix is a prefix of that of a longer one.
LEMMA FlatPrePrefix ==
  ASSUME NEW T, NEW s \in Seq(Seq(T)), NEW j \in 0..Len(s), NEW k \in j..Len(s)
  PROVE  /\ Len(FlatPre(s, j)) <= Len(FlatPre(s, k))
         /\ \A p \in 1..Len(FlatPre(s, j)) : FlatPre(s, k)[p] = FlatPre(s, j)[p]
  <1> DEFINE Good(m) ==
               /\ Len(FlatPre(s, j)) <= Len(FlatPre(s, m))
               /\ \A p \in 1..Len(FlatPre(s, j)) :
                    FlatPre(s, m)[p] = FlatPre(s, j)[p]
             Bad == {m \in j..Len(s) : ~Good(m)}
  <1> SUFFICES Bad = {}
    OBVIOUS
  <1> SUFFICES ASSUME Bad # {} PROVE FALSE
    OBVIOUS
  <1>1. PICK m \in Bad : \A l \in Bad : ~(l < m)
    <2>1. Bad \in SUBSET Nat
      OBVIOUS
    <2>2. QED
      BY <2>1, NatLeast
  <1>2. m # j
    BY <1>1
  <1>3. Good(m - 1)
    BY <1>1, <1>2
  <1>4. m - 1 \in 0..Len(s) - 1 /\ m - 1 \in 0..Len(s) /\ m \in 1..Len(s)
    BY <1>1, <1>2
  <1>5. FlatPre(s, (m - 1) + 1) = FlatPre(s, m - 1) \o s[(m - 1) + 1]
    BY <1>4, FlatPreStep, Zenon
  <1>6. FlatPre(s, m) = FlatPre(s, m - 1) \o s[m]
    <2>1. (m - 1) + 1 = m
      BY <1>4
    <2>2. QED
      BY <1>5, <2>1
  <1>7. FlatPre(s, m - 1) \in Seq(T) /\ FlatPre(s, j) \in Seq(T)
    BY <1>4, FlatPreType, Zenon
  <1>8. s[m] \in Seq(T)
    BY <1>4
  <1> DEFINE A == FlatPre(s, m - 1)
             B == FlatPre(s, j)
  <1>10. Len(B) <= Len(A) /\ \A p \in 1..Len(B) : A[p] = B[p]
    BY <1>3
  <1>11. Good(m)
    <2>1. Len(B) <= Len(A \o s[m]) /\ \A p \in 1..Len(B) : (A \o s[m])[p] = B[p]
      BY <1>7, <1>8, <1>10, PrefixConcat, Zenon
    <2>2. QED
      BY <1>6, <2>1, Zenon
  <1>12. QED
    BY <1>1, <1>11

\* The r-th element of the i-th sequence sits at position
\* Len(FlatPre(s, i - 1)) + r of FlattenSeq(s).
LEMMA FlatAt ==
  ASSUME NEW T, NEW s \in Seq(Seq(T)), NEW i \in 1..Len(s),
         NEW r \in 1..Len(s[i])
  PROVE  /\ Len(FlatPre(s, i - 1)) + r <= Len(FlattenSeq(s))
         /\ FlattenSeq(s)[Len(FlatPre(s, i - 1)) + r] = s[i][r]
  <1>0. i - 1 \in 0..Len(s) - 1 /\ i - 1 \in 0..Len(s) /\ i \in 0..Len(s)
        /\ Len(s) \in i..Len(s)
    OBVIOUS
  <1>1. FlatPre(s, (i - 1) + 1) = FlatPre(s, i - 1) \o s[(i - 1) + 1]
    BY <1>0, FlatPreStep, Zenon
  <1>2. FlatPre(s, i - 1) \in Seq(T) /\ s[i] \in Seq(T)
    <2>1. FlatPre(s, i - 1) \in Seq(T)
      BY <1>0, FlatPreType, Zenon
    <2>2. QED
      BY <2>1
  <1>2a. FlatPre(s, i) = FlatPre(s, i - 1) \o s[i]
    <2>1. (i - 1) + 1 = i
      OBVIOUS
    <2>2. QED
      BY <1>1, <2>1
  <1> DEFINE A == FlatPre(s, i - 1)
  <1>3. /\ Len(A) + r \in 1..Len(A \o s[i])
        /\ (A \o s[i])[Len(A) + r] = s[i][r]
    BY <1>2
  <1>3a. /\ Len(FlatPre(s, i - 1)) + r \in 1..Len(FlatPre(s, i))
         /\ FlatPre(s, i)[Len(FlatPre(s, i - 1)) + r] = s[i][r]
    BY <1>2a, <1>3, Zenon
  <1>4. /\ Len(FlatPre(s, i)) <= Len(FlatPre(s, Len(s)))
        /\ \A p \in 1..Len(FlatPre(s, i)) :
             FlatPre(s, Len(s))[p] = FlatPre(s, i)[p]
    BY <1>0, FlatPrePrefix, Zenon
  <1>5. FlatPre(s, Len(s)) = FlattenSeq(s)
    BY FlatPreEnds, Zenon
  <1>6. QED
    BY <1>3a, <1>4, <1>5
=============================================================================
