---------------------------- MODULE Folds_proofs ----------------------------
(***************************************************************************)
(* What the folds of the community modules compute: sums of functions over *)
(* finite sets, and concatenations of sequences of sequences.  Their       *)
(* definitions are recursive; an induction is an argument by a least       *)
(* counterexample, of WFMin.                                               *)
(***************************************************************************)
EXTENDS Integers, Sequences, SequencesExt, TLAPS, SequenceTheorems, FiniteSetTheorems,
        WellFoundedInduction

\* The least number of a set.
LEMMA LeastNumber ==
    ASSUME NEW P, P \subseteq Nat, P # {}
    PROVE  \E n \in P : \A m \in P : n <= m
  <1>1. PICK n \in P : \A m \in P : ~(<<m, n>> \in OpToRel(<, Nat))
    BY WFMin, NatLessThanWellFounded
  <1>2. \A m \in P : ~(m < n)
    BY <1>1 DEF OpToRel
  <1>3. QED
    BY <1>2

-----------------------------------------------------------------------------
(* Sums over finite sets.  SumFunctionOnSet is a recursive function over   *)
(* the subsets, one arbitrary element at a time; h below is what it yields *)
(* whatever the order.                                                     *)

SumsUp(h, f, S) ==
    /\ h \in [SUBSET S -> Nat]
    /\ h[{}] = 0
    /\ \A T \in SUBSET S : \A x \in T : h[T] = h[T \ {x}] + f[x]

\* A set of finite subsets that is not empty has a smallest member.
LEMMA SmallestSet ==
    ASSUME NEW S, IsFiniteSet(S), NEW P, P \subseteq SUBSET S, P # {}
    PROVE  \E T \in P : \A U \in P : ~(Cardinality(U) < Cardinality(T))
  <1> DEFINE N == {Cardinality(T) : T \in P}
  <1>1. \A T \in P : IsFiniteSet(T) /\ Cardinality(T) \in Nat
    BY FS_Subset, FS_CardinalityType
  <1>2. N \subseteq Nat /\ N # {}
    BY <1>1
  <1>3. PICK n \in N : \A m \in N : ~(<<m, n>> \in OpToRel(<, Nat))
    <2> HIDE DEF N
    <2>1. QED
      BY <1>2, WFMin, NatLessThanWellFounded
  <1>4. PICK T \in P : Cardinality(T) = n
    OBVIOUS
  <1>5. \A U \in P : ~(Cardinality(U) < Cardinality(T))
    BY <1>1, <1>3, <1>4 DEF OpToRel
  <1>6. QED
    BY <1>5

\* There is such a function for every finite set.
LEMMA SumExists ==
    ASSUME NEW S, IsFiniteSet(S), NEW f, \A x \in S : f[x] \in Nat
    PROVE  \E h : SumsUp(h, f, S)
  <1> DEFINE P == {T \in SUBSET S : ~\E h : SumsUp(h, f, T)}
  <1>1. SUFFICES ASSUME P # {} PROVE FALSE
    OBVIOUS
  <1>2. PICK T \in P : \A U \in P : ~(Cardinality(U) < Cardinality(T))
    <2> HIDE DEF P
    <2>1. P \subseteq SUBSET S
      BY DEF P
    <2>2. QED
      BY <1>1, <2>1, SmallestSet
  <1>3. CASE T = {}
    <2> DEFINE h == [U \in SUBSET {} |-> 0]
    <2>1. SumsUp(h, f, {})
      BY DEF SumsUp
    <2>2. QED
      BY <1>3, <2>1
  <1>4. ASSUME NEW y \in T PROVE FALSE
    <2>1. IsFiniteSet(T) /\ Cardinality(T \ {y}) < Cardinality(T)
      <3>1. IsFiniteSet(T)
        BY FS_Subset
      <3>2. Cardinality(T \ {y}) = Cardinality(T) - 1 /\ Cardinality(T) \in Nat
        BY <3>1, FS_RemoveElement, FS_CardinalityType
      <3>3. QED
        BY <3>1, <3>2
    <2>2. PICK h : SumsUp(h, f, T \ {y})
      BY <1>2, <2>1
    <2> DEFINE g == [U \in SUBSET T |-> IF y \in U THEN h[U \ {y}] + f[y] ELSE h[U]]
    <2>3. \A U \in SUBSET T : /\ U \ {y} \in SUBSET (T \ {y})
                              /\ y \notin U => U \in SUBSET (T \ {y})
      OBVIOUS
    <2>h. /\ h \in [SUBSET (T \ {y}) -> Nat]
          /\ h[{}] = 0
          /\ \A U \in SUBSET (T \ {y}) : \A x \in U : h[U] = h[U \ {x}] + f[x]
      BY <2>2 DEF SumsUp
    <2>f. \A x \in T : f[x] \in Nat
      OBVIOUS
    <2>4. g \in [SUBSET T -> Nat]
      BY <2>3, <2>h, <2>f
    <2>5. g[{}] = 0
      BY <2>h
    <2>6. ASSUME NEW U \in SUBSET T, NEW x \in U PROVE g[U] = g[U \ {x}] + f[x]
      <3> U \ {x} \in SUBSET T
        OBVIOUS
      <3>1. CASE x = y
        <4>1. g[U] = h[U \ {y}] + f[y] /\ g[U \ {x}] = h[U \ {y}]
          BY <3>1
        <4>2. QED
          BY <3>1, <4>1
      <3>2. CASE x # y /\ y \in U
        <4>1. (U \ {x}) \ {y} = (U \ {y}) \ {x} /\ x \in U \ {y}
          BY <3>2
        <4> DEFINE W == (U \ {y}) \ {x}
        <4>2. h[U \ {y}] = h[W] + f[x]
          BY <2>h, <2>3, <4>1
        <4>3. g[U] = h[U \ {y}] + f[y] /\ g[U \ {x}] = h[W] + f[y]
          BY <3>2, <4>1
        <4>4. h[W] \in Nat /\ f[x] \in Nat /\ f[y] \in Nat
          <5>1. W \in SUBSET (T \ {y})
            OBVIOUS
          <5>2. QED
            BY <5>1, <2>h, <2>f
        <4> HIDE DEF g, W
        <4>5. g[U] = (h[W] + f[x]) + f[y] /\ g[U \ {x}] + f[x] = (h[W] + f[y]) + f[x]
          BY <4>2, <4>3
        <4>6. QED
          BY <4>4, <4>5
      <3>3. CASE y \notin U
        <4>1. g[U] = h[U] /\ g[U \ {x}] = h[U \ {x}]
          BY <3>3
        <4>2. QED
          BY <4>1, <3>3, <2>3, <2>h
      <3>4. QED
        BY <3>1, <3>2, <3>3
    <2>7. SumsUp(g, f, T)
      BY <2>4, <2>5, <2>6 DEF SumsUp
    <2>8. QED
      BY <2>7
  <1>5. QED
    BY <1>3, <1>4

\* The order in which the elements are added makes no difference.
LEMMA SumIsUnique ==
    ASSUME NEW S, IsFiniteSet(S), NEW f, \A x \in S : f[x] \in Nat,
           NEW h, SumsUp(h, f, S)
    PROVE  SumFunctionOnSet(f, S) = h[S]
  <1> DEFINE Pick(s) == CHOOSE x \in s : TRUE
             Def(g) == [s \in SUBSET S |-> IF s = {} THEN 0
                                           ELSE f[Pick(s)] + g[s \ {Pick(s)}]]
             iter == CHOOSE g : g = Def(g)
  <1>h. /\ h \in [SUBSET S -> Nat]
        /\ h[{}] = 0
        /\ \A T \in SUBSET S : \A x \in T : h[T] = h[T \ {x}] + f[x]
    BY DEF SumsUp
  <1>1. SumFunctionOnSet(f, S) = iter[S]
    BY DEF SumFunctionOnSet, FoldFunctionOnSet, MapThenFoldSet
  <1>2. \A s : s # {} => Pick(s) \in s
    OBVIOUS
  <1> HIDE DEF Pick
  <1>3. h = Def(h)
    <2>1. ASSUME NEW s \in SUBSET S
          PROVE  h[s] = IF s = {} THEN 0 ELSE f[Pick(s)] + h[s \ {Pick(s)}]
      <3>1. CASE s # {}
        <4>1. /\ Pick(s) \in s /\ Pick(s) \in S
              /\ s \ {Pick(s)} \in SUBSET S
          BY <1>2, <3>1
        <4>2. h[s] = h[s \ {Pick(s)}] + f[Pick(s)] /\ h[s \ {Pick(s)}] \in Nat /\ f[Pick(s)] \in Nat
          BY <1>h, <4>1
        <4>3. QED
          BY <4>2, <3>1
      <3>2. QED
        BY <3>1, <1>h
    <2>2. QED
      BY <2>1, <1>h
  <1>4. iter = Def(iter)
    <2> HIDE DEF Def
    <2>1. QED
      BY <1>3
  <1> HIDE DEF iter
  <1>5. \A s \in SUBSET S : iter[s] = IF s = {} THEN 0 ELSE f[Pick(s)] + iter[s \ {Pick(s)}]
    BY <1>4
  <1>6. \A s \in SUBSET S : h[s] = IF s = {} THEN 0 ELSE f[Pick(s)] + h[s \ {Pick(s)}]
    BY <1>3
  <1> HIDE DEF Def
  <1> DEFINE P == {T \in SUBSET S : iter[T] # h[T]}
  <1>7. P = {}
    <2>1. SUFFICES ASSUME P # {} PROVE FALSE
      OBVIOUS
    <2>2. PICK T \in P : \A U \in P : ~(Cardinality(U) < Cardinality(T))
      <3> HIDE DEF P
      <3>1. P \subseteq SUBSET S
        BY DEF P
      <3>2. QED
        BY <2>1, <3>1, SmallestSet
    <2>3. T # {}
      BY <1>5, <1>6
    <2> DEFINE y == Pick(T)
    <2>4. y \in T /\ T \ {y} \in SUBSET S
      BY <1>2, <2>3
    <2>5. Cardinality(T \ {y}) < Cardinality(T)
      <3>1. IsFiniteSet(T)
        BY FS_Subset
      <3>2. Cardinality(T \ {y}) = Cardinality(T) - 1 /\ Cardinality(T) \in Nat
        BY <2>4, <3>1, FS_RemoveElement, FS_CardinalityType
      <3>3. QED
        BY <3>2
    <2>6. iter[T \ {y}] = h[T \ {y}]
      BY <2>2, <2>4, <2>5
    <2>7. iter[T] = h[T]
      BY <2>3, <2>4, <2>6, <1>5, <1>6
    <2>8. QED
      BY <2>7
  <1>8. QED
    BY <1>1, <1>7

LEMMA SumOfNone == ASSUME NEW f PROVE SumFunctionOnSet(f, {}) = 0
  <1> DEFINE h == [U \in SUBSET {} |-> 0]
  <1>1. SumsUp(h, f, {}) /\ h[{}] = 0
    BY DEF SumsUp
  <1> HIDE DEF h
  <1>2. QED
    BY <1>1, SumIsUnique, FS_EmptySet

LEMMA SumIsNat ==
    ASSUME NEW S, IsFiniteSet(S), NEW f, \A x \in S : f[x] \in Nat
    PROVE  SumFunctionOnSet(f, S) \in Nat
  <1>1. PICK h : SumsUp(h, f, S)
    BY SumExists
  <1>2. SumFunctionOnSet(f, S) = h[S]
    BY <1>1, SumIsUnique
  <1>3. QED
    BY <1>1, <1>2 DEF SumsUp

LEMMA SumAdds ==
    ASSUME NEW S, IsFiniteSet(S), NEW f, \A x \in S : f[x] \in Nat, NEW y \in S
    PROVE  SumFunctionOnSet(f, S) = SumFunctionOnSet(f, S \ {y}) + f[y]
  <1>1. PICK h : SumsUp(h, f, S)
    BY SumExists
  <1> DEFINE U == S \ {y}
             g == [T \in SUBSET U |-> h[T]]
  <1>2. IsFiniteSet(U) /\ \A x \in U : f[x] \in Nat
    BY FS_Subset
  <1>3. SumsUp(g, f, U)
    BY <1>1 DEF SumsUp
  <1>4. g[U] = h[U]
    OBVIOUS
  <1>5. SumFunctionOnSet(f, S) = h[S]
    BY <1>1, SumIsUnique
  <1>6. SumFunctionOnSet(f, U) = g[U]
    <2> HIDE DEF U, g
    <2>1. QED
      BY <1>2, <1>3, SumIsUnique
  <1>7. h[S] = h[U] + f[y]
    BY <1>1 DEF SumsUp
  <1>8. QED
    BY <1>4, <1>5, <1>6, <1>7

LEMMA SumIsTheSame ==
    ASSUME NEW S, IsFiniteSet(S), NEW f, \A x \in S : f[x] \in Nat,
           NEW g, \A x \in S : g[x] = f[x]
    PROVE  SumFunctionOnSet(g, S) = SumFunctionOnSet(f, S)
  <1>1. PICK h : SumsUp(h, f, S)
    BY SumExists
  <1>2. SumsUp(h, g, S)
    BY <1>1 DEF SumsUp
  <1>3. SumFunctionOnSet(f, S) = h[S]
    BY <1>1, SumIsUnique
  <1>4. SumFunctionOnSet(g, S) = h[S]
    BY <1>2, SumIsUnique
  <1>5. QED
    BY <1>3, <1>4

\* A function with one more argument.
LEMMA SumGrows ==
    ASSUME NEW f, IsFiniteSet(DOMAIN f), \A x \in DOMAIN f : f[x] \in Nat,
           NEW k, k \notin DOMAIN f,
           NEW g, DOMAIN g = DOMAIN f \cup {k}, g[k] \in Nat,
           \A x \in DOMAIN f : g[x] = f[x]
    PROVE  /\ SumFunction(f) \in Nat
           /\ SumFunction(g) = SumFunction(f) + g[k]
  <1>1. IsFiniteSet(DOMAIN g)
    BY FS_AddElement
  <1>2. \A x \in DOMAIN g : g[x] \in Nat
    OBVIOUS
  <1>3. SumFunctionOnSet(g, DOMAIN g) = SumFunctionOnSet(g, DOMAIN g \ {k}) + g[k]
    BY <1>1, <1>2, SumAdds
  <1>4. DOMAIN g \ {k} = DOMAIN f
    OBVIOUS
  <1>5. SumFunctionOnSet(g, DOMAIN f) = SumFunctionOnSet(f, DOMAIN f)
    BY SumIsTheSame
  <1>6. SumFunctionOnSet(f, DOMAIN f) \in Nat
    BY SumIsNat
  <1>7. QED
    BY <1>3, <1>4, <1>5, <1>6 DEF SumFunction

\* A function with another value at one argument.
LEMMA SumChanges ==
    ASSUME NEW f, IsFiniteSet(DOMAIN f), \A x \in DOMAIN f : f[x] \in Nat,
           NEW k \in DOMAIN f,
           NEW g, DOMAIN g = DOMAIN f, g[k] \in Nat,
           \A x \in DOMAIN f \ {k} : g[x] = f[x]
    PROVE  SumFunction(g) = SumFunction(f) - f[k] + g[k]
  <1> DEFINE D == DOMAIN f \ {k}
  <1>1. IsFiniteSet(D) /\ \A x \in D : f[x] \in Nat
    BY FS_Subset
  <1>2. \A x \in DOMAIN g : g[x] \in Nat
    OBVIOUS
  <1>3. SumFunctionOnSet(f, DOMAIN f) = SumFunctionOnSet(f, D) + f[k]
    BY SumAdds
  <1>4. SumFunctionOnSet(g, DOMAIN f) = SumFunctionOnSet(g, D) + g[k]
    BY <1>2, SumAdds
  <1>5. SumFunctionOnSet(g, D) = SumFunctionOnSet(f, D)
    <2> HIDE DEF D
    <2>1. \A x \in D : g[x] = f[x]
      BY DEF D
    <2>2. QED
      BY <1>1, <2>1, SumIsTheSame
  <1>6. SumFunctionOnSet(f, D) \in Nat
    <2> HIDE DEF D
    <2>1. QED
      BY <1>1, SumIsNat
  <1>7. QED
    BY <1>3, <1>4, <1>5, <1>6 DEF SumFunction

LEMMA SumOfEmpty == ASSUME NEW f, DOMAIN f = {} PROVE SumFunction(f) = 0
  BY SumOfNone DEF SumFunction

-----------------------------------------------------------------------------
(* FlattenSeq concatenates a sequence of sequences.                        *)

\* The prefixes of the concatenation of s, up to its n-th element.
Joins(h, s, T, n) ==
    /\ h \in [0..n -> Seq(T)]
    /\ h[0] = << >>
    /\ \A i \in 1..n : h[i] = h[i - 1] \o s[i]

LEMMA JoinExists ==
    ASSUME NEW T, NEW s \in Seq(Seq(T)), NEW n \in 0..Len(s)
    PROVE  \E h : Joins(h, s, T, n)
  <1> DEFINE P == {k \in 0..Len(s) : ~\E h : Joins(h, s, T, k)}
  <1>1. SUFFICES ASSUME P # {} PROVE FALSE
    OBVIOUS
  <1>2. PICK k \in P : \A m \in P : k <= m
    <2>1. P \subseteq Nat
      OBVIOUS
    <2> HIDE DEF P
    <2>2. QED
      BY <1>1, <2>1, LeastNumber
  <1>3. CASE k = 0
    <2> DEFINE h == [i \in 0..0 |-> << >>]
    <2>1. Joins(h, s, T, 0)
      BY DEF Joins
    <2>2. QED
      BY <1>3, <2>1
  <1>4. CASE k # 0
    <2>1. k - 1 \in 0..Len(s) /\ k \in 1..Len(s) /\ k - 1 \notin P
      <3>1. Len(s) \in Nat /\ k \in 0..Len(s)
        OBVIOUS
      <3>2. k - 1 \in 0..Len(s) /\ k \in 1..Len(s) /\ ~(k <= k - 1)
        BY <3>1, <1>4
      <3> HIDE DEF P
      <3>3. QED
        BY <3>2, <1>2
    <2>2. PICK h : Joins(h, s, T, k - 1)
      BY <2>1
    <2> DEFINE g == [i \in 0..k |-> IF i = k THEN h[k - 1] \o s[k] ELSE h[i]]
    <2>3. s[k] \in Seq(T) /\ h[k - 1] \in Seq(T)
      BY <2>1, <2>2 DEF Joins
    <2>4. h[k - 1] \o s[k] \in Seq(T)
      BY <2>3, ConcatProperties
    <2>5. g \in [0..k -> Seq(T)] /\ g[0] = << >>
      BY <2>1, <2>2, <2>4, <1>4 DEF Joins
    <2>h. \A i \in 1..(k - 1) : h[i] = h[i - 1] \o s[i]
      BY <2>2 DEF Joins
    <2>6. ASSUME NEW i \in 1..k PROVE g[i] = g[i - 1] \o s[i]
      <3>1. k \in Nat /\ i - 1 \in 0..k /\ i - 1 # k
        BY <2>1
      <3>2. g[i - 1] = h[i - 1]
        BY <3>1
      <3>3. CASE i = k
        BY <3>2, <3>3, <2>1
      <3>4. CASE i # k
        <4>1. i \in 1..(k - 1) /\ g[i] = h[i]
          BY <3>1, <3>4
        <4>2. QED
          BY <4>1, <3>2, <2>h
      <3>5. QED
        BY <3>3, <3>4
    <2>7. Joins(g, s, T, k)
      BY <2>5, <2>6 DEF Joins
    <2>8. QED
      BY <2>7, <1>2
  <1>5. QED
    BY <1>3, <1>4

\* Any two functions that join s agree, and so do those of another sequence
\* that begins like s.
LEMMA JoinIsUnique ==
    ASSUME NEW T, NEW n \in Nat, NEW s, NEW t, \A i \in 1..n : s[i] = t[i],
           NEW g, Joins(g, s, T, n), NEW h, Joins(h, t, T, n)
    PROVE  g[n] = h[n]
  <1> DEFINE P == {k \in 0..n : g[k] # h[k]}
  <1>1. SUFFICES ASSUME P # {} PROVE FALSE
    OBVIOUS
  <1>2. PICK k \in P : \A m \in P : k <= m
    <2>1. P \subseteq Nat
      OBVIOUS
    <2> HIDE DEF P
    <2>2. QED
      BY <1>1, <2>1, LeastNumber
  <1>3. k # 0
    BY DEF Joins
  <1>4. k \in 1..n /\ k - 1 \in 0..n /\ k - 1 \notin P
    BY <1>2, <1>3
  <1>5. g[k - 1] = h[k - 1]
    BY <1>4
  <1>6. QED
    BY <1>4, <1>5 DEF Joins

LEMMA FlattenIsJoin ==
    ASSUME NEW T, NEW s \in Seq(Seq(T)), NEW h, Joins(h, s, T, Len(s))
    PROVE  FlattenSeq(s) = h[Len(s)]
  <1> DEFINE n == Len(s)
             Def(f) == [i \in 1..n |-> IF i = 1 THEN s[i] ELSE f[i - 1] \o s[i]]
             flatten == CHOOSE f : f = Def(f)
             g == [i \in 1..n |-> h[i]]
  <1>h. /\ h \in [0..n -> Seq(T)]
        /\ h[0] = << >>
        /\ \A i \in 1..n : h[i] = h[i - 1] \o s[i]
    BY DEF Joins
  <1>n. n \in Nat /\ \A i \in 1..n : s[i] \in Seq(T)
    OBVIOUS
  <1>1. CASE n = 0
    BY <1>1, <1>h DEF FlattenSeq
  <1>2. CASE n # 0
    <2>1. FlattenSeq(s) = flatten[n]
      BY <1>2 DEF FlattenSeq
    <2> HIDE DEF n
    <2>2. g = Def(g)
      <3>1. ASSUME NEW i \in 1..n PROVE g[i] = IF i = 1 THEN s[i] ELSE g[i - 1] \o s[i]
        <4>1. CASE i = 1
          <5>0. i - 1 = 0
            BY <4>1
          <5>1. h[i - 1] = << >> /\ h[i] = h[i - 1] \o s[i] /\ g[i] = h[i]
            BY <5>0, <1>h
          <5>2. << >> \o s[i] = s[i]
            BY <1>n, ConcatEmptySeq
          <5>3. QED
            BY <4>1, <5>1, <5>2
        <4>2. CASE i # 1
          <5>1. i - 1 \in 1..n
            BY <4>2, <1>n
          <5>2. QED
            BY <5>1, <4>2, <1>h
        <4>3. QED
          BY <4>1, <4>2
      <3>2. QED
        BY <3>1
    <2>3. flatten = Def(flatten)
      <3> HIDE DEF Def, g
      <3>1. QED
        BY <2>2
    <2> HIDE DEF flatten
    <2>4. \A i \in 1..n : flatten[i] = IF i = 1 THEN s[i] ELSE flatten[i - 1] \o s[i]
      BY <2>3
    <2> DEFINE f == [i \in 0..n |-> IF i = 0 THEN << >> ELSE flatten[i]]
    <2> HIDE DEF Def
    <2> DEFINE P == {k \in 1..n : flatten[k] # h[k]}
    <2>5. P = {}
      <3>1. SUFFICES ASSUME P # {} PROVE FALSE
        OBVIOUS
      <3>2. PICK k \in P : \A m \in P : k <= m
        <4>1. P \subseteq Nat
          OBVIOUS
        <4> HIDE DEF P
        <4>2. QED
          BY <3>1, <4>1, LeastNumber
      <3>3. CASE k = 1
        <4>0. k - 1 = 0
          BY <3>3
        <4>1. h[k - 1] = << >> /\ h[k] = h[k - 1] \o s[k] /\ flatten[k] = s[k]
          BY <4>0, <3>3, <2>4, <1>h
        <4>2. << >> \o s[k] = s[k]
          BY <1>n, ConcatEmptySeq
        <4>3. QED
          BY <4>1, <4>2
      <3>4. CASE k # 1
        <4>1. k - 1 \in 1..n /\ k - 1 \notin P
          BY <3>2, <3>4, <1>n
        <4>2. flatten[k] = flatten[k - 1] \o s[k] /\ h[k] = h[k - 1] \o s[k]
          BY <3>4, <2>4, <1>h
        <4>3. QED
          BY <4>1, <4>2
      <3>5. QED
        BY <3>3, <3>4
    <2>6. n \in 1..n
      BY <1>2, <1>n
    <2>7. QED
      BY <2>1, <2>5, <2>6 DEF n
  <1>3. QED
    BY <1>1, <1>2

LEMMA FlattenOfEmpty == FlattenSeq(<< >>) = << >>
  BY DEF FlattenSeq

LEMMA FlattenType ==
    ASSUME NEW T, NEW s \in Seq(Seq(T))
    PROVE  FlattenSeq(s) \in Seq(T)
  <1>1. Len(s) \in 0..Len(s)
    OBVIOUS
  <1>2. PICK h : Joins(h, s, T, Len(s))
    BY <1>1, JoinExists
  <1>3. h[Len(s)] \in Seq(T)
    BY <1>1, <1>2 DEF Joins
  <1>4. QED
    BY <1>2, <1>3, FlattenIsJoin

LEMMA FlattenOfAppend ==
    ASSUME NEW T, NEW s \in Seq(Seq(T)), NEW x \in Seq(T)
    PROVE  FlattenSeq(Append(s, x)) = FlattenSeq(s) \o x
  <1> DEFINE t == Append(s, x)
             n == Len(s)
  <1>1. /\ t \in Seq(Seq(T)) /\ Len(t) = n + 1 /\ n \in Nat
        /\ \A i \in 1..n : t[i] = s[i]
        /\ t[n + 1] = x
    BY AppendProperties
  <1> HIDE DEF t, n
  <1>2. PICK h : Joins(h, t, T, n + 1)
    <2>1. n + 1 \in 0..Len(t)
      BY <1>1
    <2>2. QED
      BY <1>1, <2>1, JoinExists
  <1>3. PICK g : Joins(g, s, T, n)
    <2>1. n \in 0..Len(s)
      BY <1>1 DEF n
    <2>2. QED
      BY <2>1, JoinExists
  <1>h. /\ h \in [0..(n + 1) -> Seq(T)]
        /\ h[0] = << >>
        /\ \A i \in 1..(n + 1) : h[i] = h[i - 1] \o t[i]
    BY <1>2 DEF Joins
  <1> DEFINE f == [i \in 0..n |-> h[i]]
  <1>4. Joins(f, t, T, n)
    <2>1. f \in [0..n -> Seq(T)]
      BY <1>1, <1>h
    <2>2. ASSUME NEW i \in 1..n PROVE f[i] = f[i - 1] \o t[i]
      <3>1. i \in 1..(n + 1) /\ i \in 0..n /\ i - 1 \in 0..n
        BY <1>1
      <3>2. f[i] = h[i] /\ f[i - 1] = h[i - 1]
        BY <3>1
      <3> HIDE DEF f
      <3>3. QED
        BY <3>1, <3>2, <1>h
    <2>3. f[0] = << >>
      BY <1>1, <1>h
    <2> HIDE DEF f
    <2>4. QED
      BY <2>1, <2>2, <2>3 DEF Joins
  <1>5. f[n] = h[n]
    BY <1>1
  <1> HIDE DEF f
  <1>6. f[n] = g[n]
    BY <1>1, <1>3, <1>4, JoinIsUnique
  <1>7. h[n + 1] = h[n] \o x
    <2>1. n + 1 \in 1..(n + 1) /\ (n + 1) - 1 = n
      BY <1>1
    <2>2. QED
      BY <1>1, <1>h, <2>1
  <1>8. FlattenSeq(t) = h[n + 1] /\ FlattenSeq(s) = g[n]
    BY <1>1, <1>2, <1>3, FlattenIsJoin DEF n
  <1>9. QED
    BY <1>5, <1>6, <1>7, <1>8 DEF t

LEMMA FlattenOfCons ==
    ASSUME NEW T, NEW s \in Seq(Seq(T)), NEW x \in Seq(T),
           NEW t \in Seq(Seq(T)), Len(t) = Len(s) + 1, t[1] = x,
           \A i \in 1..Len(s) : t[i + 1] = s[i]
    PROVE  FlattenSeq(t) = x \o FlattenSeq(s)
  <1> DEFINE n == Len(s)
  <1>1. PICK h : Joins(h, s, T, n)
    BY JoinExists
  <1>2. n \in Nat
    OBVIOUS
  <1> DEFINE g == [i \in 0..(n + 1) |-> IF i = 0 THEN << >> ELSE x \o h[i - 1]]
  <1>h. /\ h \in [0..n -> Seq(T)]
        /\ h[0] = << >>
        /\ \A i \in 1..n : h[i] = h[i - 1] \o s[i]
    BY <1>1 DEF Joins
  <1>s. \A i \in 1..n : s[i] \in Seq(T) /\ t[i + 1] = s[i]
    BY SMTT(30)
  <1>x. x \in Seq(T)
    OBVIOUS
  <1>t. t[1] = x /\ Len(t) = n + 1
    OBVIOUS
  <1>g. /\ DOMAIN g = 0..(n + 1)
        /\ g[0] = << >>
        /\ \A i \in 0..n : g[i + 1] = x \o h[i]
    BY <1>2, SMTT(30)
  <1>4. g \in [0..(n + 1) -> Seq(T)]
    <2>1. \A i \in 0..n : x \o h[i] \in Seq(T)
      BY <1>h, ConcatProperties
    <2>2. << >> \in Seq(T)
      OBVIOUS
    <2>3. ASSUME NEW i \in 0..(n + 1) PROVE g[i] \in Seq(T)
      <3>1. i = 0 \/ (i - 1 \in 0..n /\ (i - 1) + 1 = i)
        BY <1>2
      <3> HIDE DEF g, n
      <3>2. QED
        BY <3>1, <1>g, <2>1, <2>2
    <2>4. QED
      BY <2>3
  <1> HIDE DEF g, n
  <1>3. ASSUME NEW i \in 0..n PROVE g[i + 1] = g[i] \o t[i + 1]
    <2>1. CASE i = 0
      <3>1. g[0 + 1] = x \o h[0] /\ g[0] = << >> /\ t[0 + 1] = x
        BY <1>g, <1>t, <1>2
      <3>2. x \o << >> = x /\ << >> \o x = x
        BY ConcatEmptySeq
      <3>3. QED
        BY <2>1, <3>1, <3>2, <1>h
    <2>2. CASE i # 0
      <3>1. i \in 1..n /\ i - 1 \in 0..n /\ (i - 1) + 1 = i
        BY <2>2, <1>2
      <3>2. h[i] = h[i - 1] \o s[i] /\ h[i - 1] \in Seq(T)
        BY <3>1, <1>h
      <3>3. t[i + 1] = s[i] /\ s[i] \in Seq(T)
        BY <3>1, <1>s
      <3>4. g[i + 1] = x \o h[i] /\ g[i] = x \o h[i - 1]
        BY <3>1, <1>g
      <3>5. \A a, b \in Seq(T) : x \o (a \o b) = (x \o a) \o b
        BY ONLY <1>x
      <3>6. QED
        BY <3>2, <3>3, <3>4, <3>5, ZenonT(30)
    <2>3. QED
      BY <2>1, <2>2
  <1>5. Joins(g, t, T, n + 1) /\ g[n + 1] = x \o h[n]
    <2>1. \A i \in 1..(n + 1) : g[i] = g[i - 1] \o t[i]
      <3>1. \A i \in 1..(n + 1) : i - 1 \in 0..n /\ (i - 1) + 1 = i
        BY <1>2
      <3>2. QED
        BY <3>1, <1>3
    <2>2. n \in 0..n
      BY <1>2
    <2>3. QED
      BY <1>4, <1>g, <2>1, <2>2 DEF Joins
  <1>6. FlattenSeq(t) = g[n + 1]
    BY <1>5, <1>t, FlattenIsJoin
  <1>7. FlattenSeq(s) = h[n]
    BY <1>1, FlattenIsJoin DEF n
  <1>8. QED
    BY <1>5, <1>6, <1>7

=============================================================================
