----------------------------- MODULE DataInduction -----------------------------
(***************************************************************************)
(* What the proofs of the components need to know of numbers, finite sets  *)
(* and folds.  Induction is stated over sets, not over operators: the      *)
(* numbers with a property are a set T, and a step function is a function, *)
(* so that the provers can instantiate these lemmas.                       *)
(***************************************************************************)
EXTENDS Integers, FiniteSets, SequencesExt, Collections, FiniteSetTheorems, WellFoundedInduction, TLAPS

-----------------------------------------------------------------------------
(* Numbers. *)

NatLess == {ss \in Nat \X Nat : ss[1] < ss[2]}

LEMMA NatLessIsWellFounded == IsWellFoundedOn(NatLess, Nat)
BY NatLessThanWellFounded, Zenon DEF OpToRel, NatLess

\* A set of numbers that is not empty has a least one.
LEMMA LeastNat ==
  ASSUME NEW T \in SUBSET Nat, T # {}
  PROVE  \E x \in T : \A y \in T : x <= y
<1>1. PICK x \in T : \A y \in T : ~ (<<y, x>> \in NatLess)
  BY NatLessIsWellFounded, WFMin, Zenon
<1>2. \A y \in T : ~(y < x)
  BY <1>1 DEF NatLess
<1> QED BY <1>2

\* A set with 0 and every successor has all numbers.
LEMMA NatInductionSet ==
  ASSUME NEW T \in SUBSET Nat, 0 \in T, \A n \in T : n + 1 \in T
  PROVE  T = Nat
<1> SUFFICES ASSUME Nat \ T # {} PROVE FALSE
  OBVIOUS
<1>1. PICK x \in Nat \ T : \A y \in Nat \ T : x <= y
  BY LeastNat
<1>2. x # 0 /\ x - 1 \in Nat
  BY <1>1
<1>3. x - 1 \in T
  BY <1>1, <1>2
<1> QED BY <1>3, <1>1

\* The same up to a bound.
LEMMA BoundedInduction ==
  ASSUME NEW n \in Nat, NEW T, 0 \in T, \A k \in 0 .. (n - 1) : k \in T => k + 1 \in T
  PROVE  0 .. n \subseteq T
<1> SUFFICES ASSUME (0 .. n) \ T # {} PROVE FALSE
  OBVIOUS
<1>0. (0 .. n) \ T \in SUBSET Nat
  OBVIOUS
<1>1. PICK x \in (0 .. n) \ T : \A y \in (0 .. n) \ T : x <= y
  BY <1>0, LeastNat
<1>2. x # 0 /\ x - 1 \in 0 .. (n - 1)
  BY <1>1
<1>3. x - 1 \in T
  BY <1>1, <1>2
<1> QED BY <1>3, <1>2, <1>1

\* A set of numbers with a bound has a greatest one.
LEMMA GreatestNat ==
  ASSUME NEW n \in Nat, NEW T \in SUBSET (0 .. n), T # {}
  PROVE  \E x \in T : \A y \in T : x >= y
<1> DEFINE U == {u \in Nat : \E x \in T : u = n - x}
<1>1. U \in SUBSET Nat
  OBVIOUS
<1>2. U # {}
  <2>1. PICK x \in T : TRUE
    OBVIOUS
  <2>2. n - x \in Nat
    OBVIOUS
  <2> QED BY <2>1, <2>2
<1> HIDE DEF U
<1>3. PICK u \in U : \A y \in U : u <= y
  BY <1>1, <1>2, LeastNat
<1>4. PICK x \in T : u = n - x
  BY <1>3 DEF U
<1>5. ASSUME NEW y \in T PROVE x >= y
  <2>1. n - y \in U
    BY DEF U
  <2>2. x \in Int /\ y \in Int
    OBVIOUS
  <2> QED BY <1>3, <1>4, <2>1, <2>2
<1> QED BY <1>5

\* Max and Min of the finite-set library are what they say.
LEMMA MaxIsGreatest ==
  ASSUME NEW n \in Nat, NEW T \in SUBSET (0 .. n), T # {}
  PROVE  Max(T) \in T /\ \A y \in T : Max(T) >= y
BY GreatestNat DEF Max

LEMMA MinIsLeast ==
  ASSUME NEW T \in SUBSET Nat, T # {}
  PROVE  Min(T) \in T /\ \A y \in T : Min(T) <= y
BY LeastNat DEF Min

LEMMA MaxOfInterval ==
  ASSUME NEW n \in Nat, NEW T \in SUBSET (1 .. n + 1), n + 1 \in T
  PROVE  Max(T) = n + 1
<1>1. T \in SUBSET (0 .. n + 1) /\ T # {} /\ n + 1 \in Nat
  OBVIOUS
<1>2. Max(T) \in T /\ \A y \in T : Max(T) >= y
  BY <1>1, MaxIsGreatest
<1>3. Max(T) \in 1 .. n + 1 /\ Max(T) >= n + 1
  BY <1>2
<1> QED BY <1>3

-----------------------------------------------------------------------------
(* Folds.  FoldLeft of the sequence library chooses a table over the sets   *)
(* of indices; a fold is a walk along the sequence from a first value.      *)

\* v is where the step g leads, from base along s.
FoldsTo(A, base, g, s, v) ==
  \E f \in [0 .. Len(s) -> A] :
    /\ f[0] = base
    /\ \A n \in 1 .. Len(s) : f[n] = g[<<f[n - 1], s[n]>>]
    /\ v = f[Len(s)]

\* The table of a fold.
Tabulates(A, base, g, s, iter) ==
  /\ iter \in [SUBSET DOMAIN s -> A]
  /\ \A S \in SUBSET DOMAIN s :
       iter[S] = IF S = {} THEN base ELSE g[<<iter[S \ {Max(S)}], s[Max(S)]>>]

\* The table that is chosen exists.
LEMMA TableExists ==
  ASSUME NEW A, NEW E, NEW base \in A, NEW g \in [A \X E -> A], NEW s \in Seq(E)
  PROVE  \E iter : Tabulates(A, base, g, s, iter)
<1> DEFINE Table(n, it) ==
             \A S \in SUBSET (1 .. n) :
               it[S] = IF S = {} THEN base ELSE g[<<it[S \ {Max(S)}], s[Max(S)]>>]
           T == {n \in 0 .. Len(s) : \E it \in [SUBSET (1 .. n) -> A] : Table(n, it)}
<1>0. Len(s) \in Nat /\ DOMAIN s = 1 .. Len(s) /\ \A n \in 1 .. Len(s) : s[n] \in E
  OBVIOUS
<1>1. 0 \in T
  <2> DEFINE it0 == [S \in SUBSET (1 .. 0) |-> base]
  <2>1. it0 \in [SUBSET (1 .. 0) -> A] /\ Table(0, it0)
    OBVIOUS
  <2> HIDE DEF it0, Table
  <2>2. \E it \in [SUBSET (1 .. 0) -> A] : Table(0, it)
    BY <2>1
  <2>3. 0 \in 0 .. Len(s)
    BY <1>0
  <2> QED BY <2>2, <2>3, Zenon
<1>2. ASSUME NEW n \in 0 .. (Len(s) - 1), n \in T PROVE n + 1 \in T
  <2>1. PICK it0 \in [SUBSET (1 .. n) -> A] : Table(n, it0)
    BY <1>2
  <2> DEFINE it1 == [S \in SUBSET (1 .. n + 1) |->
                       IF n + 1 \in S THEN g[<<it0[S \ {n + 1}], s[n + 1]>>] ELSE it0[S]]
  <2>2. n \in Nat /\ n + 1 \in 1 .. Len(s) /\ s[n + 1] \in E
    BY <1>0
  <2>3. \A S \in SUBSET (1 .. n + 1) : S \ {n + 1} \in SUBSET (1 .. n)
    BY <2>2
  <2>4. it1 \in [SUBSET (1 .. n + 1) -> A]
    <3> SUFFICES ASSUME NEW S \in SUBSET (1 .. n + 1)
                 PROVE  (IF n + 1 \in S THEN g[<<it0[S \ {n + 1}], s[n + 1]>>] ELSE it0[S]) \in A
      OBVIOUS
    <3>1. CASE n + 1 \in S
      BY <2>1, <2>2, <2>3, <3>1
    <3>2. CASE n + 1 \notin S
      <4>1. S \in SUBSET (1 .. n)
        BY <2>2, <3>2
      <4> QED BY <2>1, <3>2, <4>1
    <3> QED BY <3>1, <3>2
  <2>5. Table(n + 1, it1)
    <3> SUFFICES ASSUME NEW S \in SUBSET (1 .. n + 1)
                 PROVE  it1[S] = IF S = {} THEN base ELSE g[<<it1[S \ {Max(S)}], s[Max(S)]>>]
      OBVIOUS
    <3>1. CASE n + 1 \in S
      <4>1. Max(S) = n + 1
        BY <2>2, <3>1, MaxOfInterval
      <4>2. S \ {n + 1} \in SUBSET (1 .. n + 1) /\ n + 1 \notin S \ {n + 1}
        OBVIOUS
      <4>3. it1[S \ {n + 1}] = it0[S \ {n + 1}]
        BY <4>2
      <4> QED BY <3>1, <4>1, <4>3
    <3>2. CASE n + 1 \notin S
      <4>1. S \in SUBSET (1 .. n)
        BY <2>2, <3>2
      <4>2. it1[S] = it0[S]
        BY <3>2
      <4>3. it0[S] = IF S = {} THEN base ELSE g[<<it0[S \ {Max(S)}], s[Max(S)]>>]
        BY <2>1, <4>1
      <4>4. S \ {Max(S)} \in SUBSET (1 .. n + 1) /\ n + 1 \notin S \ {Max(S)}
        BY <3>2
      <4>5. it1[S \ {Max(S)}] = it0[S \ {Max(S)}]
        BY <4>4
      <4> HIDE DEF it1
      <4> QED BY <4>2, <4>3, <4>5
    <3> QED BY <3>1, <3>2
  <2> HIDE DEF it1, Table
  <2>6. \E it \in [SUBSET (1 .. n + 1) -> A] : Table(n + 1, it)
    BY <2>4, <2>5
  <2> QED BY <2>2, <2>6
<1> HIDE DEF T
<1>3. 0 .. Len(s) \subseteq T
  BY <1>0, <1>1, <1>2, BoundedInduction
<1> HIDE DEF Table
<1>4. Len(s) \in T
  BY <1>0, <1>3
<1>5. PICK it \in [SUBSET (1 .. Len(s)) -> A] : Table(Len(s), it)
  BY <1>4 DEF T
<1> QED BY <1>0, <1>5 DEF Table, Tabulates

\* A table that takes the step wherever the step is defined is a walk.
LEMMA TableWalks ==
  ASSUME NEW A, NEW E, NEW base \in A, NEW g \in [A \X E -> A], NEW s \in Seq(E), NEW iter,
         iter[{}] = base,
         \A S \in SUBSET DOMAIN s :
           S # {} /\ iter[S \ {Max(S)}] \in A =>
             iter[S] = g[<<iter[S \ {Max(S)}], s[Max(S)]>>]
  PROVE  FoldsTo(A, base, g, s, iter[DOMAIN s])
<1> DEFINE f == [n \in 0 .. Len(s) |-> iter[1 .. n]]
           T == {n \in 0 .. Len(s) :
                   /\ iter[1 .. n] \in A
                   /\ n > 0 => iter[1 .. n] = g[<<iter[1 .. n - 1], s[n]>>]}
<1>0. Len(s) \in Nat /\ DOMAIN s = 1 .. Len(s) /\ \A n \in 1 .. Len(s) : s[n] \in E
  OBVIOUS
<1>1. 0 \in T
  <2>1. 1 .. 0 = {}
    OBVIOUS
  <2> QED BY <1>0, <2>1
<1>2. ASSUME NEW n \in 0 .. (Len(s) - 1), n \in T PROVE n + 1 \in T
  <2>1. n \in Nat /\ n + 1 \in 1 .. Len(s) /\ s[n + 1] \in E
    BY <1>0
  <2>2. 1 .. n + 1 \in SUBSET DOMAIN s /\ n + 1 \in 1 .. n + 1 /\ (1 .. n + 1) \ {n + 1} = 1 .. n
    BY <1>0, <2>1
  <2>3. Max(1 .. n + 1) = n + 1
    BY <2>1, <2>2, MaxOfInterval
  <2>4. iter[1 .. n] \in A
    BY <1>2
  <2>5. iter[1 .. n + 1] = g[<<iter[1 .. n], s[n + 1]>>]
    BY <2>2, <2>3, <2>4
  <2>6. g[<<iter[1 .. n], s[n + 1]>>] \in A
    BY <2>1, <2>4
  <2>7. (n + 1) - 1 = n /\ n + 1 \in 0 .. Len(s)
    BY <2>1
  <2> QED BY <2>5, <2>6, <2>7
<1> HIDE DEF T
<1>3. 0 .. Len(s) \subseteq T
  BY <1>0, <1>1, <1>2, BoundedInduction
<1>4. \A n \in 0 .. Len(s) : iter[1 .. n] \in A
  BY <1>3 DEF T
<1>5. f \in [0 .. Len(s) -> A] /\ f[0] = base
  <2>1. 1 .. 0 = {}
    OBVIOUS
  <2>2. 0 \in 0 .. Len(s)
    BY <1>0
  <2> QED BY <1>4, <2>1, <2>2
<1>6. \A n \in 1 .. Len(s) : f[n] = g[<<f[n - 1], s[n]>>]
  <2> SUFFICES ASSUME NEW n \in 1 .. Len(s) PROVE f[n] = g[<<f[n - 1], s[n]>>]
    OBVIOUS
  <2>1. n \in T /\ n > 0 /\ n \in 0 .. Len(s) /\ n - 1 \in 0 .. Len(s)
    BY <1>0, <1>3
  <2>2. iter[1 .. n] = g[<<iter[1 .. n - 1], s[n]>>]
    BY <2>1 DEF T
  <2> QED BY <2>1, <2>2
<1>7. iter[DOMAIN s] = f[Len(s)]
  BY <1>0
<1> HIDE DEF f
<1> QED BY <1>5, <1>6, <1>7 DEF FoldsTo

\* It leads to one value.
LEMMA FoldIsUnique ==
  ASSUME NEW A, NEW E, NEW base \in A, NEW g \in [A \X E -> A], NEW s \in Seq(E),
         NEW v, NEW w, FoldsTo(A, base, g, s, v), FoldsTo(A, base, g, s, w)
  PROVE  v = w
<1>0. Len(s) \in Nat
  OBVIOUS
<1>1. PICK f \in [0 .. Len(s) -> A] :
        f[0] = base /\ (\A n \in 1 .. Len(s) : f[n] = g[<<f[n - 1], s[n]>>]) /\ v = f[Len(s)]
  BY DEF FoldsTo
<1>2. PICK h \in [0 .. Len(s) -> A] :
        h[0] = base /\ (\A n \in 1 .. Len(s) : h[n] = g[<<h[n - 1], s[n]>>]) /\ w = h[Len(s)]
  BY DEF FoldsTo
<1> DEFINE T == {n \in 0 .. Len(s) : f[n] = h[n]}
<1>3. 0 \in T
  BY <1>0, <1>1, <1>2
<1>4. ASSUME NEW n \in 0 .. (Len(s) - 1), n \in T PROVE n + 1 \in T
  <2>1. n + 1 \in 1 .. Len(s) /\ n + 1 \in 0 .. Len(s) /\ (n + 1) - 1 = n
    BY <1>0
  <2>2. f[n + 1] = g[<<f[n], s[n + 1]>>] /\ h[n + 1] = g[<<h[n], s[n + 1]>>]
    BY <1>1, <1>2, <2>1
  <2> QED BY <1>4, <2>1, <2>2
<1> HIDE DEF T
<1>5. 0 .. Len(s) \subseteq T
  BY <1>0, <1>3, <1>4, BoundedInduction
<1>6. Len(s) \in T
  BY <1>0, <1>5
<1> QED BY <1>1, <1>2, <1>6 DEF T

LEMMA FoldOfNothing ==
  ASSUME NEW A, NEW base, NEW g, NEW v, FoldsTo(A, base, g, <<>>, v)
  PROVE  v = base
BY DEF FoldsTo

\* One element more is one step more.
LEMMA FoldOfAppend ==
  ASSUME NEW A, NEW E, NEW base \in A, NEW g \in [A \X E -> A], NEW s \in Seq(E), NEW e \in E,
         NEW v, FoldsTo(A, base, g, s, v)
  PROVE  /\ v \in A
         /\ FoldsTo(A, base, g, Append(s, e), g[<<v, e>>])
<1>1. PICK f \in [0 .. Len(s) -> A] :
        f[0] = base /\ (\A n \in 1 .. Len(s) : f[n] = g[<<f[n - 1], s[n]>>]) /\ v = f[Len(s)]
  BY DEF FoldsTo
<1> DEFINE m == Len(s)
           t == Append(s, e)
           h == [n \in 0 .. m + 1 |-> IF n = m + 1 THEN g[<<v, e>>] ELSE f[n]]
<1>2. m \in Nat /\ Len(t) = m + 1 /\ t[m + 1] = e /\ \A n \in 1 .. m : t[n] = s[n]
  OBVIOUS
<1> HIDE DEF t
<1>3. v \in A
  BY <1>1, <1>2
<1>4. g[<<v, e>>] \in A
  BY <1>3
<1>5. h \in [0 .. m + 1 -> A] /\ h[0] = base /\ h[m + 1] = g[<<v, e>>]
  BY <1>1, <1>2, <1>4
<1>6. \A n \in 1 .. m + 1 : h[n] = g[<<h[n - 1], t[n]>>]
  <2> SUFFICES ASSUME NEW n \in 1 .. m + 1 PROVE h[n] = g[<<h[n - 1], t[n]>>]
    OBVIOUS
  <2>1. CASE n = m + 1
    <3>1. h[n] = g[<<v, e>>] /\ n - 1 = m /\ m # m + 1 /\ m \in 0 .. m + 1
      BY <1>2, <1>5, <2>1
    <3>2. h[m] = f[m]
      BY <3>1
    <3> QED BY <1>1, <1>2, <2>1, <3>1, <3>2
  <2>2. CASE n # m + 1
    <3>1. n \in 1 .. m /\ n \in 0 .. m + 1 /\ n - 1 \in 0 .. m + 1 /\ n - 1 # m + 1
      BY <1>2, <2>2
    <3> QED BY <1>1, <1>2, <2>2, <3>1
  <2> QED BY <2>1, <2>2
<1> HIDE DEF h
<1> QED BY <1>2, <1>3, <1>5, <1>6 DEF FoldsTo, t

\* A fold over two sequences is one over the first, then one over the second.
LEMMA FoldOfConcat ==
  ASSUME NEW A, NEW E, NEW base, NEW g, NEW s \in Seq(E), NEW t \in Seq(E), NEW v,
         FoldsTo(A, base, g, s \o t, v)
  PROVE  \E u \in A : FoldsTo(A, base, g, s, u) /\ FoldsTo(A, u, g, t, v)
<1> DEFINE m == Len(s)
           n == Len(t)
<1>0. m \in Nat /\ n \in Nat /\ Len(s \o t) = m + n
  OBVIOUS
<1>1. /\ \A i \in 1 .. m : (s \o t)[i] = s[i]
      /\ \A i \in 1 .. n : (s \o t)[m + i] = t[i]
  OBVIOUS
<1> HIDE DEF m, n
<1>2. PICK f \in [0 .. m + n -> A] :
        f[0] = base /\ (\A i \in 1 .. m + n : f[i] = g[<<f[i - 1], (s \o t)[i]>>]) /\ v = f[m + n]
  BY <1>0 DEF FoldsTo
<1> DEFINE a == [i \in 0 .. m |-> f[i]]
           b == [i \in 0 .. n |-> f[m + i]]
<1>3. FoldsTo(A, base, g, s, f[m])
  <2>1. a \in [0 .. m -> A] /\ a[0] = base /\ f[m] = a[m]
    BY <1>0, <1>2
  <2>2. ASSUME NEW i \in 1 .. m PROVE a[i] = g[<<a[i - 1], s[i]>>]
    <3>1. i \in 0 .. m /\ i - 1 \in 0 .. m /\ i \in 1 .. m + n
      BY <1>0
    <3> QED
      BY <1>1, <1>2, <3>1
  <2> HIDE DEF a
  <2> QED
    BY <2>1, <2>2 DEF FoldsTo, m
<1>4. FoldsTo(A, f[m], g, t, v)
  <2>1. b \in [0 .. n -> A] /\ b[0] = f[m] /\ v = b[n]
    BY <1>0, <1>2
  <2>2. ASSUME NEW i \in 1 .. n PROVE b[i] = g[<<b[i - 1], t[i]>>]
    <3>1. i \in 0 .. n /\ i - 1 \in 0 .. n /\ m + i \in 1 .. m + n /\ m + (i - 1) = (m + i) - 1
      BY <1>0
    <3> QED
      BY <1>1, <1>2, <3>1
  <2> HIDE DEF b
  <2> QED
    BY <2>1, <2>2 DEF FoldsTo, n
<1>5. f[m] \in A
  BY <1>0, <1>2
<1> QED
  BY <1>3, <1>4, <1>5

\* A fold stays where every step stays.
LEMMA FoldStays ==
  ASSUME NEW A, NEW E, NEW base, NEW g, NEW s \in Seq(E), NEW v, NEW U, FoldsTo(A, base, g, s, v),
         base \in U, \A x \in U, e \in E : g[<<x, e>>] \in U
  PROVE  v \in U
<1>0. Len(s) \in Nat /\ \A n \in 1 .. Len(s) : s[n] \in E
  OBVIOUS
<1>1. PICK f \in [0 .. Len(s) -> A] :
        f[0] = base /\ (\A n \in 1 .. Len(s) : f[n] = g[<<f[n - 1], s[n]>>]) /\ v = f[Len(s)]
  BY DEF FoldsTo
<1> DEFINE W == {n \in 0 .. Len(s) : f[n] \in U}
<1>2. 0 \in W
  BY <1>0, <1>1
<1>3. ASSUME NEW n \in 0 .. (Len(s) - 1), n \in W PROVE n + 1 \in W
  <2>1. n + 1 \in 1 .. Len(s) /\ n + 1 \in 0 .. Len(s) /\ (n + 1) - 1 = n
    BY <1>0
  <2>2. f[n + 1] = g[<<f[n], s[n + 1]>>] /\ f[n] \in U /\ s[n + 1] \in E
    BY <1>0, <1>1, <1>3, <2>1
  <2> QED
    BY <2>1, <2>2
<1> HIDE DEF W
<1>4. 0 .. Len(s) \subseteq W
  BY <1>0, <1>2, <1>3, BoundedInduction
<1>5. Len(s) \in W
  BY <1>0, <1>4
<1> QED
  BY <1>1, <1>5 DEF W

-----------------------------------------------------------------------------
(* Finite sets, and sums over them. *)

Reaches(S, P) ==
  /\ {} \in P
  /\ \A V \in SUBSET S : V # {} => \E x \in V : V \ {x} \in P => V \in P

\* What holds of the empty set, and of a set as soon as it holds of that set
\* without one of its elements, holds of every subset of a finite set.
LEMMA SubsetInduction ==
  ASSUME NEW S, IsFiniteSet(S), NEW P, Reaches(S, P)
  PROVE  SUBSET S \subseteq P
<1> DEFINE U == {n \in Nat : \E V \in SUBSET S : V \notin P /\ Cardinality(V) = n}
<1>0. \A V \in SUBSET S : IsFiniteSet(V) /\ Cardinality(V) \in Nat
  BY FS_Subset, FS_CardinalityType
<1> SUFFICES ASSUME U # {} PROVE FALSE
  BY <1>0
<1> USE DEF Reaches
<1>1. PICK n \in U : \A m \in U : n <= m
  <2>1. U \in SUBSET Nat
    OBVIOUS
  <2> HIDE DEF U
  <2> QED
    BY <2>1, LeastNat
<1>2. PICK V \in SUBSET S : V \notin P /\ Cardinality(V) = n
  BY <1>1
<1>3. V # {} /\ n \in Nat
  BY <1>1, <1>2, Zenon
<1>4. PICK x \in V : V \ {x} \in P => V \in P
  BY <1>3
<1>5. V \ {x} \notin P /\ V \ {x} \in SUBSET S
  BY <1>2, <1>4
<1>6. Cardinality(V \ {x}) = n - 1 /\ Cardinality(V \ {x}) \in Nat
  BY <1>0, <1>2, <1>5, FS_RemoveElement
<1>7. Cardinality(V \ {x}) \in U
  BY <1>5, <1>6
<1> HIDE DEF U
<1>8. n <= n - 1
  BY <1>1, <1>6, <1>7
<1> QED
  BY <1>3, <1>8

\* What a function takes on a finite set is finite.
LEMMA FiniteImage ==
  ASSUME NEW S, IsFiniteSet(S), NEW f, DOMAIN f = S
  PROVE  IsFiniteSet({f[x] : x \in S})
<1> DEFINE I == {f[x] : x \in S}
           g == [x \in S |-> f[x]]
<1>1. g \in Surjection(S, I)
  BY DEF Surjection
<1> HIDE DEF g, I
<1>2. IsFiniteSet(I)
  BY <1>1, FS_Surjection
<1> QED
  BY <1>2 DEF I

AnyOf(V) == CHOOSE x \in V : TRUE

LEMMA AnyOfIsIn == ASSUME NEW V, V # {} PROVE AnyOf(V) \in V
BY DEF AnyOf

\* The table of the sums of what f gives the elements of the subsets of S.
Sums(f, S, iter) ==
  /\ iter \in [SUBSET S -> Nat]
  /\ \A V \in SUBSET S :
       iter[V] = IF V = {} THEN 0 ELSE f[AnyOf(V)] + iter[V \ {AnyOf(V)}]

LEMMA SumsExist ==
  ASSUME NEW S, IsFiniteSet(S), NEW f \in [S -> Nat]
  PROVE  \E iter : Sums(f, S, iter)
<1> DEFINE N == Cardinality(S)
           Small(n) == {V \in SUBSET S : Cardinality(V) <= n}
           Table(n, it) == \A V \in Small(n) :
             it[V] = IF V = {} THEN 0 ELSE f[AnyOf(V)] + it[V \ {AnyOf(V)}]
           U == {n \in 0 .. N : \E it \in [Small(n) -> Nat] : Table(n, it)}
<1>0. N \in Nat
  BY FS_CardinalityType
<1>1. \A V \in SUBSET S : IsFiniteSet(V) /\ Cardinality(V) \in 0 .. N
  BY <1>0, FS_Subset, FS_CardinalityType
<1>2. \A V \in SUBSET S : V # {} =>
        /\ AnyOf(V) \in V /\ V \ {AnyOf(V)} \in SUBSET S
        /\ Cardinality(V \ {AnyOf(V)}) = Cardinality(V) - 1
  <2> SUFFICES ASSUME NEW V \in SUBSET S, V # {}
               PROVE  /\ AnyOf(V) \in V /\ V \ {AnyOf(V)} \in SUBSET S
                      /\ Cardinality(V \ {AnyOf(V)}) = Cardinality(V) - 1
    OBVIOUS
  <2>1. AnyOf(V) \in V
    BY AnyOfIsIn
  <2> QED
    BY <1>1, <2>1, FS_RemoveElement
<1>3. 0 \in U
  <2> DEFINE it == [V \in Small(0) |-> 0]
  <2>1. \A V \in Small(0) : V = {}
    BY <1>1, FS_EmptySet
  <2>2. it \in [Small(0) -> Nat] /\ Table(0, it)
    BY <2>1
  <2>3. 0 \in 0 .. N
    BY <1>0
  <2> HIDE DEF it
  <2>4. \E t \in [Small(0) -> Nat] : Table(0, t)
    BY <2>2
  <2> QED
    BY <2>3, <2>4
<1>4. ASSUME NEW n \in 0 .. (N - 1), n \in U PROVE n + 1 \in U
  <2>1. PICK it \in [Small(n) -> Nat] : Table(n, it)
    BY <1>4
  <2> DEFINE new == [V \in Small(n + 1) |->
                       IF V = {} THEN 0 ELSE f[AnyOf(V)] + it[V \ {AnyOf(V)}]]
  <2>2. \A V \in Small(n + 1) : V # {} => V \ {AnyOf(V)} \in Small(n) /\ f[AnyOf(V)] \in Nat
    BY <1>0, <1>1, <1>2
  <2>3. \A V \in Small(n) : V \in Small(n + 1) /\ it[V] = new[V]
    BY <1>0, <1>1, <2>1
  <2>4. new \in [Small(n + 1) -> Nat]
    BY <2>1, <2>2
  <2>5. Table(n + 1, new)
    BY <2>2, <2>3
  <2>6. n + 1 \in 0 .. N
    BY <1>0
  <2> HIDE DEF new
  <2>7. \E t \in [Small(n + 1) -> Nat] : Table(n + 1, t)
    BY <2>4, <2>5
  <2> QED
    BY <2>6, <2>7
<1> HIDE DEF U
<1>5. 0 .. N \subseteq U
  BY <1>0, <1>3, <1>4, BoundedInduction
<1>6. PICK it \in [Small(N) -> Nat] : Table(N, it)
  <2>1. N \in U
    BY <1>0, <1>5
  <2> HIDE DEF Small
  <2> QED
    BY <2>1 DEF U
<1>7. Small(N) = SUBSET S
  BY <1>1
<1>8. Sums(f, S, it)
  BY <1>6, <1>7 DEF Sums
<1> QED
  BY <1>8

\* a tabulates the sums of f over the subsets of T.
TableOf(T, f, a) ==
  /\ DOMAIN a = SUBSET T
  /\ \A V \in SUBSET T : a[V] = IF V = {} THEN 0 ELSE f[AnyOf(V)] + a[V \ {AnyOf(V)}]

SameOn(T, f, g) == \A x \in T : f[x] = g[x]

\* The table of a part of a set is part of the table of the set.
LEMMA SumsOfPart ==
  ASSUME NEW S, IsFiniteSet(S), NEW T \in SUBSET S, NEW f, NEW g, NEW a, NEW b,
         SameOn(T, f, g), TableOf(T, f, a), Sums(g, S, b)
  PROVE  SameOn(SUBSET T, a, b)
<1> DEFINE P == {V \in SUBSET T : a[V] = b[V]}
<1>1. IsFiniteSet(T)
  BY FS_Subset
<1>2. {} \in P
  BY DEF Sums, TableOf
<1>3. ASSUME NEW V \in SUBSET T, V # {} PROVE \E x \in V : V \ {x} \in P => V \in P
  <2>1. AnyOf(V) \in V
    BY <1>3, AnyOfIsIn
  <2>2. V \in SUBSET S /\ f[AnyOf(V)] = g[AnyOf(V)]
    BY <2>1 DEF SameOn
  <2>3. b[V] = g[AnyOf(V)] + b[V \ {AnyOf(V)}] /\ a[V] = f[AnyOf(V)] + a[V \ {AnyOf(V)}]
    BY <1>3, <2>2 DEF Sums, TableOf
  <2> QED
    BY <2>1, <2>2, <2>3
<1> HIDE DEF P
<1>4. Reaches(T, P)
  BY <1>2, <1>3, Zenon DEF Reaches
<1>5. SUBSET T \subseteq P
  BY <1>1, <1>4, SubsetInduction
<1> QED
  BY <1>5 DEF P, SameOn

\* Any element may be the last one added.
TakesAny(f, S, iter) ==
  \A V \in SUBSET S : \A x \in V : iter[V] = f[x] + iter[V \ {x}]

LEMMA SumTakesAny ==
  ASSUME NEW S, IsFiniteSet(S), NEW f \in [S -> Nat], NEW iter, Sums(f, S, iter)
  PROVE  TakesAny(f, S, iter)
<1> DEFINE N == Cardinality(S)
           Each(V) == \A x \in V : iter[V] = f[x] + iter[V \ {x}]
           U == {n \in 0 .. N : \A V \in SUBSET S : Cardinality(V) <= n => Each(V)}
<1>0. N \in Nat
  BY FS_CardinalityType
<1>1. \A V \in SUBSET S : IsFiniteSet(V) /\ Cardinality(V) \in 0 .. N
  BY <1>0, FS_Subset, FS_CardinalityType
<1>2. \A V \in SUBSET S : \A x \in V : Cardinality(V \ {x}) = Cardinality(V) - 1
  BY <1>1, FS_RemoveElement
<1>3. 0 \in U
  <2>1. \A V \in SUBSET S : Cardinality(V) <= 0 => V = {}
    BY <1>1, FS_EmptySet
  <2> QED
    BY <1>0, <2>1
<1>4. ASSUME NEW n \in 0 .. (N - 1), n \in U PROVE n + 1 \in U
  <2>1. ASSUME NEW V \in SUBSET S, Cardinality(V) <= n + 1, NEW x \in V
        PROVE  iter[V] = f[x] + iter[V \ {x}]
    <3> DEFINE c == AnyOf(V)
    <3>1. c \in V
      BY <2>1, AnyOfIsIn
    <3>2. iter[V] = f[c] + iter[V \ {c}]
      BY <2>1 DEF Sums
    <3> HIDE DEF c
    <3>3. CASE c = x
      BY <3>2, <3>3
    <3>4. CASE c # x
      <4>1. /\ V \ {c} \in SUBSET S /\ x \in V \ {c} /\ Cardinality(V \ {c}) <= n
            /\ V \ {x} \in SUBSET S /\ c \in V \ {x} /\ Cardinality(V \ {x}) <= n
        BY <1>0, <1>1, <1>2, <2>1, <3>1, <3>4
      <4>2. /\ iter[V \ {c}] = f[x] + iter[(V \ {c}) \ {x}]
            /\ iter[V \ {x}] = f[c] + iter[(V \ {x}) \ {c}]
        BY <1>4, <4>1
      <4>3. (V \ {c}) \ {x} = (V \ {x}) \ {c} /\ (V \ {x}) \ {c} \in SUBSET S
        OBVIOUS
      <4>4. /\ iter[(V \ {x}) \ {c}] \in Nat /\ f[x] \in Nat /\ f[c] \in Nat
            /\ iter[V \ {x}] \in Nat /\ iter[V \ {c}] \in Nat
        BY <2>1, <3>1, <4>1, <4>3 DEF Sums
      <4> QED
        BY <3>2, <4>2, <4>3, <4>4
    <3> QED
      BY <3>3, <3>4
  <2>2. n + 1 \in 0 .. N
    BY <1>0
  <2> QED
    BY <2>1, <2>2
<1> HIDE DEF U
<1>5. 0 .. N \subseteq U
  BY <1>0, <1>3, <1>4, BoundedInduction
<1>6. \A V \in SUBSET S : Each(V)
  <2>1. N \in U
    BY <1>0, <1>5
  <2>2. \A V \in SUBSET S : Cardinality(V) <= N
    BY <1>0, <1>1
  <2> QED
    BY <2>1, <2>2 DEF U
<1> QED
  BY <1>6 DEF TakesAny

\* A sum over more elements is no smaller.
LEMMA SumsGrow ==
  ASSUME NEW S, IsFiniteSet(S), NEW f \in [S -> Nat], NEW iter, Sums(f, S, iter), NEW T \in SUBSET S
  PROVE  iter[T] <= iter[S]
<1>8. TakesAny(f, S, iter)
  BY SumTakesAny
<1> DEFINE P == {V \in SUBSET (S \ T) : iter[T] <= iter[T \cup V]}
<1>0. \A V \in SUBSET S : iter[V] \in Nat
  BY DEF Sums
<1>1. {} \in P
  <2>1. T \cup {} = T /\ iter[T] \in Nat
    BY <1>0
  <2> QED
    BY <2>1
<1>2. ASSUME NEW V \in SUBSET (S \ T), V # {} PROVE \E x \in V : V \ {x} \in P => V \in P
  <2>1. PICK x \in V : TRUE
    BY <1>2
  <2>2. ASSUME iter[T] <= iter[T \cup (V \ {x})] PROVE iter[T] <= iter[T \cup V]
    <3>1. T \cup V \in SUBSET S /\ x \in T \cup V /\ (T \cup V) \ {x} = T \cup (V \ {x})
      BY <2>1
    <3>2. iter[T \cup V] = f[x] + iter[T \cup (V \ {x})]
      BY <1>8, <3>1 DEF TakesAny
    <3>3. f[x] \in Nat /\ iter[T] \in Nat /\ iter[T \cup (V \ {x})] \in Nat
      BY <1>0, <3>1
    <3> QED
      BY <2>2, <3>2, <3>3
  <2> QED
    BY <2>1, <2>2
<1> HIDE DEF P
<1>3. IsFiniteSet(S \ T)
  BY FS_Subset
<1>4. Reaches(S \ T, P)
  BY <1>1, <1>2, Zenon DEF Reaches
<1>5. SUBSET (S \ T) \subseteq P
  BY <1>3, <1>4, SubsetInduction
<1>6. S \ T \in P
  BY <1>5
<1>7. T \cup (S \ T) = S
  OBVIOUS
<1> QED
  BY <1>6, <1>7 DEF P

\* The table by which a total is defined is the table of its sums.
LEMMA TotalIsTheSum ==
  ASSUME NEW S, IsFiniteSet(S), NEW f \in [S -> Nat]
  PROVE  \E iter : Sums(f, S, iter) /\ Total(f) = iter[S]
<1> DEFINE Table(iter) ==
             iter = [V \in SUBSET S |->
                       IF V = {} THEN 0
                       ELSE f[CHOOSE x \in V : TRUE] + iter[V \ {CHOOSE x \in V : TRUE}]]
           table == CHOOSE iter : Table(iter)
<1>1. DOMAIN f = S
  OBVIOUS
<1>2. Total(f) = table[S]
  BY <1>1, Zenon DEF Total, FoldFunction, FoldFunctionOnSet, MapThenFoldSet
<1>3. \E iter : Table(iter)
  <2>1. PICK iter : Sums(f, S, iter)
    BY SumsExist
  <2>2. /\ iter = [V \in SUBSET S |-> iter[V]]
        /\ \A V \in SUBSET S :
             iter[V] = IF V = {} THEN 0
                       ELSE f[CHOOSE x \in V : TRUE] + iter[V \ {CHOOSE x \in V : TRUE}]
    BY <2>1 DEF Sums, AnyOf
  <2>3. Table(iter)
    BY <2>2, Zenon
  <2> QED
    BY <2>3
<1>4. Table(table)
  BY <1>3, Zenon
<1>5. /\ DOMAIN table = SUBSET S
      /\ \A V \in SUBSET S : table[V] = IF V = {} THEN 0 ELSE f[AnyOf(V)] + table[V \ {AnyOf(V)}]
      /\ table = [V \in SUBSET S |-> table[V]]
  <2> HIDE DEF table
  <2> QED
    BY <1>4, Zenon DEF AnyOf
<1> HIDE DEF table
<1>6. PICK b : Sums(f, S, b)
  BY SumsExist
<1>7. \A V \in SUBSET S : table[V] = b[V]
  <2>1. S \in SUBSET S /\ SameOn(S, f, f) /\ TableOf(S, f, table)
    BY <1>5 DEF SameOn, TableOf
  <2>2. SameOn(SUBSET S, table, b)
    BY <1>6, <2>1, SumsOfPart
  <2> QED
    BY <2>2 DEF SameOn
<1>8. Sums(f, S, table)
  BY <1>5, <1>6, <1>7 DEF Sums
<1> QED
  BY <1>2, <1>8

\* A total is a number, no smaller than a value.
LEMMA TotalIsNat ==
  ASSUME NEW S, IsFiniteSet(S), NEW f \in [S -> Nat]
  PROVE  Total(f) \in Nat /\ \A x \in S : f[x] <= Total(f)
<1>1. PICK iter : Sums(f, S, iter) /\ Total(f) = iter[S]
  BY TotalIsTheSum
<1>2. \A V \in SUBSET S : iter[V] \in Nat
  BY <1>1 DEF Sums
<1>3. ASSUME NEW x \in S PROVE f[x] <= Total(f)
  <2>1. S \in SUBSET S /\ S \ {x} \in SUBSET S
    OBVIOUS
  <2>2. iter[S] = f[x] + iter[S \ {x}]
    <3>1. TakesAny(f, S, iter)
      BY <1>1, SumTakesAny
    <3> QED
      BY <2>1, <3>1 DEF TakesAny
  <2>3. iter[S] \in Nat /\ iter[S \ {x}] \in Nat /\ f[x] \in Nat
    BY <1>2, <2>1
  <2> QED
    BY <1>1, <2>2, <2>3
<1> QED
  BY <1>1, <1>2, <1>3

\* A total over more elements is no smaller.
LEMMA TotalsGrow ==
  ASSUME NEW S, IsFiniteSet(S), NEW g \in [S -> Nat], NEW T \in SUBSET S, NEW f \in [T -> Nat],
         \A x \in T : f[x] = g[x]
  PROVE  Total(f) <= Total(g)
<1>1. IsFiniteSet(T)
  BY FS_Subset
<1>2. PICK a : Sums(f, T, a) /\ Total(f) = a[T]
  BY <1>1, TotalIsTheSum
<1>3. PICK b : Sums(g, S, b) /\ Total(g) = b[S]
  BY TotalIsTheSum
<1>4. a[T] = b[T]
  <2>1. TableOf(T, f, a) /\ SameOn(T, f, g) /\ T \in SUBSET T
    BY <1>2 DEF Sums, TableOf, SameOn
  <2>2. SameOn(SUBSET T, a, b)
    BY <1>3, <2>1, SumsOfPart
  <2> QED
    BY <2>1, <2>2 DEF SameOn
<1>5. b[T] <= b[S]
  BY <1>3, SumsGrow
<1> QED
  BY <1>2, <1>3, <1>4, <1>5

-----------------------------------------------------------------------------
(* Iteration. *)

Iterates(A, base, g, N, f) ==
  /\ f \in [0 .. N -> A]
  /\ f[0] = base
  /\ \A n \in 1 .. N : f[n] = g[f[n - 1]]

\* A function can be iterated.
LEMMA IterationExists ==
  ASSUME NEW A, NEW base \in A, NEW g \in [A -> A], NEW N \in Nat
  PROVE  \E f : Iterates(A, base, g, N, f)
<1> DEFINE Walk(n, f) == f[0] = base /\ \A k \in 1 .. n : f[k] = g[f[k - 1]]
           U == {n \in 0 .. N : \E f \in [0 .. n -> A] : Walk(n, f)}
<1>1. 0 \in U
  <2> DEFINE f == [k \in 0 .. 0 |-> base]
  <2>1. f \in [0 .. 0 -> A] /\ Walk(0, f)
    OBVIOUS
  <2>2. 0 \in 0 .. N
    OBVIOUS
  <2> HIDE DEF f
  <2>3. \E it \in [0 .. 0 -> A] : Walk(0, it)
    BY <2>1
  <2> QED
    BY <2>2, <2>3
<1>2. ASSUME NEW n \in 0 .. (N - 1), n \in U PROVE n + 1 \in U
  <2>1. PICK f \in [0 .. n -> A] : Walk(n, f)
    BY <1>2
  <2> DEFINE h == [k \in 0 .. n + 1 |-> IF k <= n THEN f[k] ELSE g[f[n]]]
  <2>2. h \in [0 .. n + 1 -> A]
    OBVIOUS
  <2>3. ASSUME NEW k \in 1 .. n + 1 PROVE h[k] = g[h[k - 1]]
    BY <2>1
  <2>4. Walk(n + 1, h)
    BY <2>1, <2>3
  <2>5. n + 1 \in 0 .. N
    OBVIOUS
  <2> HIDE DEF h
  <2>6. \E it \in [0 .. n + 1 -> A] : Walk(n + 1, it)
    BY <2>2, <2>4
  <2> QED
    BY <2>5, <2>6
<1> HIDE DEF U
<1>3. 0 .. N \subseteq U
  BY <1>1, <1>2, BoundedInduction
<1>4. N \in U
  BY <1>3
<1> QED
  BY <1>4 DEF U, Iterates

-----------------------------------------------------------------------------
(* Sorting. *)

\* A set sorted by a total order lists each of its elements once, in order.
LEMMA SortedInOrder ==
  ASSUME NEW S, IsFiniteSet(S), NEW R, Orders(S, R)
  PROVE  /\ Cardinality(S) \in Nat
         /\ SortedBy(S, R) \in [1 .. Cardinality(S) -> S]
         /\ \A i, j \in 1 .. Cardinality(S) : i < j => <<SortedBy(S, R)[i], SortedBy(S, R)[j]>> \in R
         /\ \A x \in S : \E i \in 1 .. Cardinality(S) : SortedBy(S, R)[i] = x
<1> DEFINE n == Cardinality(S)
           rank == [x \in S |-> Cardinality(Preceding(S, R, x))]
<1>1. n \in Nat
  BY FS_CardinalityType
<1>2. \A x \in S : IsFiniteSet(Preceding(S, R, x)) /\ Preceding(S, R, x) \subseteq S \ {x}
  <2>1. \A x \in S : Preceding(S, R, x) \subseteq S \ {x}
    BY DEF Preceding, Orders
  <2>2. \A x \in S : Preceding(S, R, x) \in SUBSET S
    BY DEF Preceding
  <2> QED
    BY <2>1, <2>2, FS_Subset
<1>3. \A x \in S : rank[x] \in 0 .. n - 1
  <2> SUFFICES ASSUME NEW x \in S PROVE Cardinality(Preceding(S, R, x)) \in 0 .. n - 1
    OBVIOUS
  <2>1. Cardinality(Preceding(S, R, x)) \in Nat
    BY <1>2, FS_CardinalityType
  <2>2. Cardinality(S \ {x}) = n - 1 /\ IsFiniteSet(S \ {x})
    BY FS_RemoveElement
  <2>3. Preceding(S, R, x) \in SUBSET (S \ {x})
    BY <1>2
  <2>4. Cardinality(Preceding(S, R, x)) <= Cardinality(S \ {x})
    BY <2>2, <2>3, FS_Subset
  <2> QED
    BY <1>1, <2>1, <2>2, <2>4
<1>4. \A x, y \in S : <<x, y>> \in R => rank[x] < rank[y]
  <2> SUFFICES ASSUME NEW x \in S, NEW y \in S, <<x, y>> \in R
               PROVE  Cardinality(Preceding(S, R, x)) < Cardinality(Preceding(S, R, y))
    OBVIOUS
  <2>1. Preceding(S, R, x) \in SUBSET Preceding(S, R, y)
    BY DEF Preceding, Orders
  <2>2. x \in Preceding(S, R, y) /\ x \notin Preceding(S, R, x)
    BY DEF Preceding, Orders
  <2>3. IsFiniteSet(Preceding(S, R, y)) /\ IsFiniteSet(Preceding(S, R, x))
    BY <1>2
  <2>4. /\ Cardinality(Preceding(S, R, x)) <= Cardinality(Preceding(S, R, y))
        /\ Cardinality(Preceding(S, R, x)) # Cardinality(Preceding(S, R, y))
    BY <2>1, <2>2, <2>3, FS_Subset
  <2>5. Cardinality(Preceding(S, R, x)) \in Nat /\ Cardinality(Preceding(S, R, y)) \in Nat
    BY <2>3, FS_CardinalityType
  <2> QED
    BY <2>4, <2>5
<1>5. rank \in Injection(S, 0 .. n - 1)
  <2>1. rank \in [S -> 0 .. n - 1]
    BY <1>3
  <2> HIDE DEF rank, n
  <2>2. \A x, y \in S : x # y => rank[x] # rank[y]
    <3> SUFFICES ASSUME NEW x \in S, NEW y \in S, x # y PROVE rank[x] # rank[y]
      OBVIOUS
    <3>1. rank[x] \in Int /\ rank[y] \in Int
      BY <1>1, <1>3
    <3>2. <<x, y>> \in R \/ <<y, x>> \in R
      BY DEF Orders
    <3>3. rank[x] < rank[y] \/ rank[y] < rank[x]
      BY <1>4, <3>2
    <3> QED
      BY <3>1, <3>3
  <2>3. IsInjective(rank)
    BY <2>1, <2>2 DEF IsInjective
  <2> QED
    BY <2>1, <2>3 DEF Injection
<1>6. IsFiniteSet(0 .. n - 1) /\ Cardinality(0 .. n - 1) = n
  <2>1. 0 \in Int /\ n - 1 \in Int
    BY <1>1
  <2>2. /\ IsFiniteSet(0 .. n - 1)
        /\ Cardinality(0 .. n - 1) = IF 0 > n - 1 THEN 0 ELSE (n - 1) - 0 + 1
    BY <2>1, FS_Interval
  <2> QED
    BY <1>1, <2>2
<1>7. \A k \in 0 .. n - 1 : \E x \in S : rank[x] = k
  <2>1. rank \in Surjection(S, 0 .. n - 1)
    <3> HIDE DEF rank, n
    <3>1. Cardinality(S) = Cardinality(0 .. n - 1) <=> rank \in Surjection(S, 0 .. n - 1)
      BY <1>5, <1>6, FS_Injection
    <3> QED
      BY <1>6, <3>1 DEF n
  <2> QED
    BY <2>1 DEF Surjection
<1> DEFINE place == [k \in 1 .. n |-> CHOOSE x \in S : rank[x] = k - 1]
<1>8. \A k \in 1 .. n : place[k] \in S /\ rank[place[k]] = k - 1
  <2> SUFFICES ASSUME NEW k \in 1 .. n PROVE place[k] \in S /\ rank[place[k]] = k - 1
    OBVIOUS
  <2>1. k - 1 \in 0 .. n - 1
    BY <1>1
  <2>2. \E x \in S : rank[x] = k - 1
    BY <1>7, <2>1
  <2> HIDE DEF rank
  <2> QED
    BY <2>2, Zenon
<1> DEFINE q == SortedBy(S, R)
<1>9. q \in [1 .. n -> S] /\ \A k \in 1 .. n : q[k] = place[k]
  <2>1. q = place
    BY Zenon DEF SortedBy
  <2> HIDE DEF rank, q, place
  <2>2. place = [k \in 1 .. n |-> place[k]]
    BY DEF place
  <2> QED
    BY <1>8, <2>1, <2>2
<1>10. \A i, j \in 1 .. n : i < j => <<q[i], q[j]>> \in R
  <2> SUFFICES ASSUME NEW i \in 1 .. n, NEW j \in 1 .. n, i < j PROVE <<q[i], q[j]>> \in R
    OBVIOUS
  <2> HIDE DEF rank, q, place
  <2>1. q[i] \in S /\ q[j] \in S /\ rank[q[i]] = i - 1 /\ rank[q[j]] = j - 1
    BY <1>8, <1>9
  <2>2. rank[q[i]] < rank[q[j]]
    BY <2>1, <1>1
  <2>3. ~(<<q[j], q[i]>> \in R) /\ q[i] # q[j]
    BY <1>4, <2>1, <2>2, <1>1
  <2> QED
    BY <2>1, <2>3 DEF Orders
<1>11. \A x \in S : \E i \in 1 .. n : q[i] = x
  <2> SUFFICES ASSUME NEW x \in S PROVE \E i \in 1 .. n : q[i] = x
    OBVIOUS
  <2> HIDE DEF rank, q, place
  <2>1. rank[x] + 1 \in 1 .. n /\ rank[x] \in Nat
    BY <1>1, <1>3
  <2>2. q[rank[x] + 1] \in S /\ rank[q[rank[x] + 1]] = rank[x]
    BY <1>8, <1>9, <2>1
  <2>3. q[rank[x] + 1] = x
    <3> DEFINE y == q[rank[x] + 1]
    <3>1. y \in S /\ rank[y] = rank[x]
      BY <2>2
    <3> HIDE DEF y
    <3>2. ~(rank[x] < rank[y]) /\ ~(rank[y] < rank[x])
      BY <2>1, <3>1
    <3>3. <<x, y>> \notin R /\ <<y, x>> \notin R
      BY <1>4, <3>1, <3>2
    <3>4. y = x
      BY <3>1, <3>3 DEF Orders
    <3> QED
      BY <3>4 DEF y
  <2> QED
    BY <2>1, <2>3
<1> QED
  BY <1>1, <1>9, <1>10, <1>11

\* Sorted by whatever pairs, a set gives a sequence as long as it has elements.
LEMMA SortedLength ==
  ASSUME NEW S, IsFiniteSet(S), NEW R
  PROVE  DOMAIN SortedBy(S, R) = 1 .. Cardinality(S) /\ Cardinality(S) \in Nat
BY FS_CardinalityType DEF SortedBy
================================================================================
