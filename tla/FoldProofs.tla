------------------------------ MODULE FoldProofs -----------------------------
(***************************************************************************)
(* FoldLeft, for every operator and every sequence: what it is for the empty *)
(* sequence and for one element more.  With the induction on the naturals     *)
(* below, which speaks of a set where the library's speaks of a predicate,    *)
(* that is all a proof about a fold needs.                                    *)
(***************************************************************************)
EXTENDS Integers, SequencesExt, SequenceTheorems, WellFoundedInduction, TLAPS

CONSTANT Op(_, _)

\* A set of naturals that has 0 and every successor has them all.
LEMMA SetInduction ==
  ASSUME NEW T \in SUBSET Nat, 0 \in T, \A n \in T : n + 1 \in T
  PROVE  T = Nat
<1> DEFINE R == {ss \in Nat \X Nat : ss[1] < ss[2]}
           D == Nat \ T
<1>1. IsWellFoundedOn(R, Nat)
  <2>1. R = OpToRel(<, Nat)
    BY Zenon DEF OpToRel
  <2> HIDE DEF R
  <2> QED BY NatLessThanWellFounded, <2>1, Zenon
<1>2. SUFFICES ASSUME D # {} PROVE FALSE
  OBVIOUS
<1>3. PICK m \in D : \A k \in D : <<k, m>> \notin R
  <2>1. D \subseteq Nat
    OBVIOUS
  <2> HIDE DEF D, R
  <2> QED BY <1>1, <1>2, <2>1, WFMin, Zenon
<1>4. m # 0 /\ m - 1 \in D /\ m \in Nat
  BY <1>3
<1>5. <<m - 1, m>> \in R
  BY <1>3, <1>4
<1> QED BY <1>3, <1>4, <1>5

-----------------------------------------------------------------------------

\* The function inside FoldLeft, over the first n elements of p.
Folds(g, base, p, n) ==
  g = [s \in SUBSET (1..n) |->
         IF s = {} THEN base ELSE Op(g[s \ {Max(s)}], p[Max(s)])]

\* The last index is the one that FoldLeft takes off first.
LEMMA MaxIsLast ==
  ASSUME NEW S \in SUBSET Nat, NEW m \in S, \A k \in S : k <= m
  PROVE  Max(S) = m
<1>1. \A x \in S : (\A y \in S : x >= y) => x = m
  OBVIOUS
<1>2. \A y \in S : m >= y
  OBVIOUS
<1> QED BY <1>1, <1>2 DEF Max

\* The recursive function inside FoldLeft exists: by induction on its length.
LEMMA FoldsExists ==
  ASSUME NEW base, NEW p, NEW n \in Nat
  PROVE  \E g : Folds(g, base, p, n)
<1> DEFINE T == {k \in Nat : \E g : Folds(g, base, p, k)}
<1>1. 0 \in T
  <2>1. Folds([s \in SUBSET (1..0) |-> base], base, p, 0)
    BY DEF Folds
  <2> QED BY <2>1
<1>2. ASSUME NEW k \in T PROVE k + 1 \in T
  <2>1. PICK g : Folds(g, base, p, k)
    BY <1>2
  <2> DEFINE h == [s \in SUBSET (1..(k + 1)) |->
                     IF k + 1 \in s THEN Op(g[s \ {k + 1}], p[k + 1]) ELSE g[s]]
  <2>2. ASSUME NEW s \in SUBSET (1..(k + 1))
        PROVE  h[s] = IF s = {} THEN base ELSE Op(h[s \ {Max(s)}], p[Max(s)])
    <3>1. CASE k + 1 \in s
      <4>1. Max(s) = k + 1
        BY <3>1, MaxIsLast
      <4>2. h[s \ {k + 1}] = g[s \ {k + 1}]
        OBVIOUS
      <4> QED BY <3>1, <4>1, <4>2
    <3>2. CASE k + 1 \notin s
      <4>1. s \in SUBSET (1..k) /\ s \ {Max(s)} \in SUBSET (1..k)
        BY <3>2, \A j \in 1..(k + 1) : j # k + 1 => j \in 1..k
      <4>2. h[s] = g[s] /\ h[s \ {Max(s)}] = g[s \ {Max(s)}]
        BY <3>2
      <4> QED BY <2>1, <4>1, <4>2 DEF Folds
    <3> QED BY <3>1, <3>2
  <2>3. Folds(h, base, p, k + 1)
    BY <2>2 DEF Folds
  <2> QED BY <2>3
<1>3. T \in SUBSET Nat
  OBVIOUS
<1> HIDE DEF T
<1>4. T = Nat
  BY <1>1, <1>2, <1>3, SetInduction
<1> QED BY <1>4 DEF T

\* FoldLeft is that function, at the set of all indices.
LEMMA FoldLeftFolds ==
  ASSUME NEW base, NEW p, NEW n \in Nat, DOMAIN p = 1..n
  PROVE  \E g : Folds(g, base, p, n) /\ FoldLeft(Op, base, p) = g[1..n]
<1> DEFINE F(g) == g = [s \in SUBSET (1..n) |->
                          IF s = {} THEN base ELSE Op(g[s \ {Max(s)}], p[Max(s)])]
           it == CHOOSE g : F(g)
<1>1. PICK g : Folds(g, base, p, n)
  BY FoldsExists
<1>2. F(it)
  <2>1. F(g)
    BY <1>1 DEF Folds
  <2> HIDE DEF F
  <2> QED BY <2>1
<1>3. FoldLeft(Op, base, p) = it[1..n]
  BY DEF FoldLeft, MapThenFoldSet
<1>4. Folds(it, base, p, n)
  BY <1>2 DEF Folds
<1> HIDE DEF it
<1> QED BY <1>3, <1>4

\* The next element is folded last.
LEMMA FoldsNext ==
  ASSUME NEW base, NEW p, NEW n \in Nat, NEW g, Folds(g, base, p, n),
         NEW k \in Nat, k + 1 <= n
  PROVE  g[1..(k + 1)] = Op(g[1..k], p[k + 1])
<1>1. Max(1..(k + 1)) = k + 1
  BY MaxIsLast
<1>2. (1..(k + 1)) \ {k + 1} = 1..k /\ 1..(k + 1) \in SUBSET (1..n) /\ 1..(k + 1) # {}
  OBVIOUS
<1> QED BY <1>1, <1>2 DEF Folds

\* FoldLeft with this operator, a name that an instance of the module carries.
Fold(base, p) == FoldLeft(Op, base, p)

\* The fold of nothing is the base: the capture of a stream begins with no text
\* (Output.Lined), a Write of no bytes leaves the buffer alone (RingBuffer.Write).
THEOREM FoldOfEmpty ==
  ASSUME NEW base
  PROVE  Fold(base, <<>>) = base
<1>1. DOMAIN <<>> = 1..0
  OBVIOUS
<1>2. PICK g : Folds(g, base, <<>>, 0) /\ FoldLeft(Op, base, <<>>) = g[1..0]
  BY <1>1, FoldLeftFolds
<1> QED BY <1>2 DEF Folds, Fold

\* The fold of one element more is the operator, once more: what Lined and the loop
\* of Write (buffer.go:39-52) do with the next byte, after all the bytes before it.
THEOREM FoldOfAppend ==
  ASSUME NEW S, NEW base, NEW p \in Seq(S), NEW x \in S
  PROVE  Fold(base, Append(p, x)) = Op(Fold(base, p), x)
<1> DEFINE n == Len(p)
           q == Append(p, x)
<1>1. /\ n \in Nat /\ DOMAIN p = 1..n /\ DOMAIN q = 1..(n + 1)
      /\ q[n + 1] = x /\ \A k \in 1..n : q[k] = p[k]
  BY AppendProperties
<1> HIDE DEF n, q
<1>2. PICK g : Folds(g, base, p, n) /\ FoldLeft(Op, base, p) = g[1..n]
  BY <1>1, FoldLeftFolds
<1>3. PICK h : Folds(h, base, q, n + 1) /\ FoldLeft(Op, base, q) = h[1..(n + 1)]
  BY <1>1, FoldLeftFolds
<1> DEFINE T == {k \in Nat : k <= n => h[1..k] = g[1..k]}
<1>4. 0 \in T
  <2>1. g[1..0] = base
    BY <1>1, <1>2 DEF Folds
  <2>2. h[1..0] = base
    BY <1>1, <1>3 DEF Folds
  <2> QED BY <2>1, <2>2
<1>5. ASSUME NEW k \in T PROVE k + 1 \in T
  <2>1. SUFFICES ASSUME k + 1 <= n PROVE h[1..(k + 1)] = g[1..(k + 1)]
    OBVIOUS
  <2>2. g[1..(k + 1)] = Op(g[1..k], p[k + 1])
    BY <1>1, <1>2, <2>1, FoldsNext
  <2>3. h[1..(k + 1)] = Op(h[1..k], q[k + 1])
    BY <1>1, <1>3, <2>1, FoldsNext
  <2>4. q[k + 1] = p[k + 1] /\ h[1..k] = g[1..k]
    BY <1>1, <2>1
  <2> QED BY <2>2, <2>3, <2>4
<1>6. T \in SUBSET Nat
  OBVIOUS
<1> HIDE DEF T
<1>7. T = Nat
  BY <1>4, <1>5, <1>6, SetInduction
<1>8. h[1..n] = g[1..n]
  BY <1>1, <1>7 DEF T
<1>9. h[1..(n + 1)] = Op(h[1..n], q[n + 1])
  BY <1>1, <1>3, FoldsNext
<1> QED BY <1>1, <1>2, <1>3, <1>8, <1>9 DEF q, Fold
=============================================================================
