--------------------------- MODULE Gateway_proofs ---------------------------
(***************************************************************************)
(* Proofs about the gateway: that its rate limits hold over every interval *)
(* of a window's length, not only from one reset to the next, and that no  *)
(* key is created but for the token or for a key that may administrate.    *)
(***************************************************************************)
EXTENDS Gateway, Folds_proofs

-----------------------------------------------------------------------------
(* The bounds.                                                             *)

\* A finite set of numbers that is not empty has a greatest.
LEMMA GreatestNumber ==
    ASSUME NEW P, P \subseteq Nat, P # {}, IsFiniteSet(P)
    PROVE  \E n \in P : \A m \in P : m <= n
  <1> DEFINE Above(n) == {m \in P : n < m}
             Q == {Above(n) : n \in P}
  <1>1. Q \subseteq SUBSET P /\ Q # {}
    OBVIOUS
  <1>2. PICK U \in Q : \A V \in Q : ~(Cardinality(V) < Cardinality(U))
    <2> HIDE DEF Q
    <2>1. QED
      BY <1>1, SmallestSet
  <1>3. PICK n \in P : U = Above(n)
    OBVIOUS
  <1>4. ASSUME NEW m \in P, ~(m <= n) PROVE FALSE
    <2>1. m \in Above(n) /\ n \in Nat /\ m \in Nat
      BY <1>4
    <2>2. Above(m) \subseteq Above(n) \ {m}
      <3>1. \A x \in P : m < x => n < x /\ x # m
        BY <2>1
      <3>2. QED
        BY <3>1
    <2>3. IsFiniteSet(Above(n))
      BY FS_Subset
    <2> HIDE DEF Above
    <2>4. /\ IsFiniteSet(Above(n) \ {m})
          /\ Cardinality(Above(n) \ {m}) = Cardinality(Above(n)) - 1
          /\ Cardinality(Above(n)) \in Nat
      BY <2>1, <2>3, FS_RemoveElement, FS_CardinalityType
    <2>5. Cardinality(Above(m)) <= Cardinality(Above(n) \ {m}) /\ Cardinality(Above(m)) \in Nat
      BY <2>2, <2>4, FS_Subset, FS_CardinalityType
    <2>6. Cardinality(Above(m)) < Cardinality(U)
      BY <2>4, <2>5, <1>3
    <2>7. QED
      BY <2>6, <1>2 DEF Q
  <1>5. QED
    BY <1>4

LEMMA MaxIsGreatest ==
    ASSUME NEW P, P \subseteq Nat, P # {}, IsFiniteSet(P)
    PROVE  Max(P) \in Nat /\ \A m \in P : m <= Max(P)
  <1>1. \E n \in P : \A m \in P : n >= m
    BY GreatestNumber
  <1>2. QED
    BY <1>1 DEF Max

LEMMA ImageIsFinite ==
    ASSUME NEW S, IsFiniteSet(S), NEW T, NEW f \in [S -> T]
    PROVE  IsFiniteSet({f[x] : x \in S})
  <1> DEFINE Image == {f[x] : x \in S}
  <1>1. f \in [S -> Image] /\ \A y \in Image : \E x \in S : f[x] = y
    OBVIOUS
  <1>2. f \in Surjection(S, Image)
    BY <1>1 DEF Surjection
  <1>3. QED
    BY <1>2, FS_Surjection

LEMMA MinOfTwo ==
    ASSUME NEW a \in Nat, NEW b \in Nat
    PROVE  Min({a, b}) = IF a <= b THEN a ELSE b
  <1> DEFINE m == IF a <= b THEN a ELSE b
  <1>1. \E x \in {a, b} : \A y \in {a, b} : x <= y
    OBVIOUS
  <1>2. /\ Min({a, b}) \in {a, b}
        /\ \A y \in {a, b} : Min({a, b}) <= y
    BY <1>1 DEF Min
  <1>3. QED
    BY <1>2

LEMMA Bounds ==
    /\ MaxWindow \in Nat /\ OldAge \in Nat /\ MaxCount \in Nat
    /\ PurgeAge < OldAge /\ MaxWindow < OldAge
    /\ WindowMs <= MaxWindow /\ MaxRequests < MaxCount
    /\ \A l \in Limits : l.windowMs <= MaxWindow /\ l.maxRequests < MaxCount
  <1> DEFINE W == {l.windowMs : l \in Limits}
             R == {l.maxRequests : l \in Limits}
  <1>1. IsFiniteSet(W) /\ IsFiniteSet(R)
    <2> DEFINE f == [l \in Limits |-> l.windowMs]
               g == [l \in Limits |-> l.maxRequests]
    <2>1. IsFiniteSet({f[l] : l \in Limits}) /\ IsFiniteSet({g[l] : l \in Limits})
      <3>1. f \in [Limits -> Nat] /\ g \in [Limits -> Nat]
        BY LimitAssumption
      <3>2. IsFiniteSet(Limits)
        BY LimitAssumption
      <3> HIDE DEF f, g
      <3>3. IsFiniteSet({f[l] : l \in Limits})
        BY ONLY <3>1, <3>2, ImageIsFinite
      <3>4. IsFiniteSet({g[l] : l \in Limits})
        BY ONLY <3>1, <3>2, ImageIsFinite
      <3>5. QED
        BY <3>3, <3>4
    <2>2. W = {f[l] : l \in Limits} /\ R = {g[l] : l \in Limits}
      OBVIOUS
    <2>3. QED
      BY <2>1, <2>2
  <1>2. /\ IsFiniteSet({WindowMs} \cup W) /\ IsFiniteSet({MaxRequests} \cup R)
        /\ IsFiniteSet({PurgeAge, MaxWindow})
    <2>1. {WindowMs} \cup W = W \cup {WindowMs} /\ {MaxRequests} \cup R = R \cup {MaxRequests}
      OBVIOUS
    <2>2. IsFiniteSet({PurgeAge}) /\ {PurgeAge, MaxWindow} = {PurgeAge} \cup {MaxWindow}
      BY FS_Singleton
    <2> HIDE DEF W, R
    <2>3. IsFiniteSet({WindowMs} \cup W)
      BY <1>1, <2>1, FS_AddElement
    <2>4. IsFiniteSet({MaxRequests} \cup R)
      BY <1>1, <2>1, FS_AddElement
    <2>5. IsFiniteSet({PurgeAge, MaxWindow})
      BY <2>2, FS_AddElement
    <2>6. QED
      BY <2>3, <2>4, <2>5
  <1>3. W \subseteq Nat /\ R \subseteq Nat /\ WindowMs \in Nat /\ MaxRequests \in Nat /\ PurgeAge \in Nat
    BY LimitAssumption
  <1>4. MaxWindow \in Nat /\ WindowMs <= MaxWindow /\ \A x \in W : x <= MaxWindow
    <2> HIDE DEF W
    <2>1. Max({WindowMs} \cup W) \in Nat /\ \A x \in {WindowMs} \cup W : x <= Max({WindowMs} \cup W)
      BY <1>2, <1>3, MaxIsGreatest
    <2>2. QED
      BY <2>1 DEF MaxWindow, W
  <1>5. OldAge \in Nat /\ PurgeAge < OldAge /\ MaxWindow < OldAge
    <2>1. /\ Max({PurgeAge, MaxWindow}) \in Nat
          /\ \A x \in {PurgeAge, MaxWindow} : x <= Max({PurgeAge, MaxWindow})
      BY <1>2, <1>3, <1>4, MaxIsGreatest
    <2>2. QED
      BY <1>3, <1>4, <2>1 DEF OldAge
  <1>6. MaxCount \in Nat /\ MaxRequests < MaxCount /\ \A x \in R : x < MaxCount
    <2> HIDE DEF R
    <2>1. /\ Max({MaxRequests} \cup R) \in Nat
          /\ \A x \in {MaxRequests} \cup R : x <= Max({MaxRequests} \cup R)
      BY <1>2, <1>3, MaxIsGreatest
    <2>2. R \subseteq Nat
      BY <1>3
    <2>3. MaxCount = 1 + Max({MaxRequests} \cup R)
      BY DEF MaxCount, R
    <2>4. QED
      BY <1>3, <2>1, <2>2, <2>3
  <1>7. QED
    BY <1>4, <1>5, <1>6

-----------------------------------------------------------------------------
(* A history says how many requests were let through at each age.          *)

Histories == [0..MaxWindow -> Nat]

LEMMA Interval ==
    ASSUME NEW n \in 0..MaxWindow
    PROVE  IsFiniteSet(0..n) /\ 0..n \subseteq 0..MaxWindow /\ n \in Nat
  <1>1. MaxWindow \in Nat /\ n \in Nat
    BY Bounds
  <1>2. IsFiniteSet(0..n)
    BY <1>1, FS_Interval
  <1>3. QED
    BY <1>1, <1>2

LEMMA WithinNone ==
    ASSUME NEW h \in Histories
    PROVE  AcceptedWithin(h, 0) = h[0] /\ h[0] \in Nat
  <1>1. 0 \in 0..MaxWindow
    BY Bounds
  <1>2. IsFiniteSet(0..0) /\ (0..0) \ {0} = {} /\ 0 \in 0..0 /\ \A x \in 0..0 : h[x] \in Nat
    <2>1. 0..0 = {0}
      OBVIOUS
    <2>2. QED
      BY <1>1, <2>1, Interval DEF Histories
  <1>3. SumFunctionOnSet(h, 0..0) = SumFunctionOnSet(h, (0..0) \ {0}) + h[0]
    BY <1>2, SumAdds
  <1>4. SumFunctionOnSet(h, {}) = 0
    BY SumOfNone
  <1>5. QED
    BY <1>2, <1>3, <1>4 DEF AcceptedWithin

LEMMA WithinMore ==
    ASSUME NEW h \in Histories, NEW n \in 1..MaxWindow
    PROVE  /\ AcceptedWithin(h, n) = AcceptedWithin(h, n - 1) + h[n]
           /\ n - 1 \in 0..MaxWindow /\ n \in 0..MaxWindow /\ h[n] \in Nat
  <1>1. MaxWindow \in Nat
    BY Bounds
  <1>2. n \in 0..MaxWindow /\ n - 1 \in 0..MaxWindow /\ n \in 0..n /\ (0..n) \ {n} = 0..(n - 1)
    BY <1>1
  <1>3. IsFiniteSet(0..n) /\ \A x \in 0..n : h[x] \in Nat
    BY <1>2, Interval DEF Histories
  <1>4. SumFunctionOnSet(h, 0..n) = SumFunctionOnSet(h, (0..n) \ {n}) + h[n]
    BY <1>2, <1>3, SumAdds
  <1>5. QED
    BY <1>2, <1>3, <1>4 DEF AcceptedWithin

LEMMA WithinIsNat ==
    ASSUME NEW h \in Histories, NEW n \in 0..MaxWindow
    PROVE  AcceptedWithin(h, n) \in Nat
  <1>1. IsFiniteSet(0..n) /\ \A x \in 0..n : h[x] \in Nat
    BY Interval DEF Histories
  <1>2. QED
    BY <1>1, SumIsNat DEF AcceptedWithin

\* What holds of 0 and goes on from n - 1 to n holds up to MaxWindow: a least
\* counterexample, in the form in which the lemmas below use it.
LEMMA NoLeast ==
    ASSUME NEW P, P \subseteq 0..MaxWindow, 0 \notin P,
           \A n \in 1..MaxWindow : n - 1 \notin P => n \notin P
    PROVE  P = {}
  <1>1. SUFFICES ASSUME P # {} PROVE FALSE
    OBVIOUS
  <1>2. MaxWindow \in Nat
    BY Bounds
  <1>3. PICK n \in P : \A m \in P : n <= m
    <2>1. P \subseteq Nat
      BY <1>2
    <2>2. QED
      BY <1>1, <2>1, LeastNumber
  <1>4. n \in 1..MaxWindow /\ ~(n <= n - 1)
    BY <1>2
  <1>5. QED
    BY <1>3, <1>4

LEMMA WithinGrows ==
    ASSUME NEW h \in Histories, NEW n \in 0..MaxWindow, NEW m \in 0..MaxWindow, m <= n
    PROVE  AcceptedWithin(h, m) <= AcceptedWithin(h, n)
  <1> DEFINE P == {x \in 0..MaxWindow : m <= x /\ ~(AcceptedWithin(h, m) <= AcceptedWithin(h, x))}
  <1>1. AcceptedWithin(h, m) \in Nat
    BY WithinIsNat
  <1>2. 0 \notin P
    BY <1>1
  <1>3. ASSUME NEW x \in 1..MaxWindow, x - 1 \notin P PROVE x \notin P
    <2>1. /\ AcceptedWithin(h, x) = AcceptedWithin(h, x - 1) + h[x]
          /\ x - 1 \in 0..MaxWindow /\ h[x] \in Nat
      BY WithinMore
    <2>2. AcceptedWithin(h, x - 1) \in Nat
      BY <2>1, WithinIsNat
    <2>3. CASE m <= x - 1
      <3>1. AcceptedWithin(h, m) <= AcceptedWithin(h, x - 1)
        BY <1>3, <2>1, <2>3
      <3>2. QED
        BY <3>1, <1>1, <2>1, <2>2
    <2>4. CASE ~(m <= x - 1)
      <3>1. m <= x => m = x
        BY <2>4
      <3>2. QED
        BY <3>1, <1>1
    <2>5. QED
      BY <2>3, <2>4
  <1>4. P = {}
    <2>1. P \subseteq 0..MaxWindow
      OBVIOUS
    <2> HIDE DEF P
    <2>2. QED
      BY <1>2, <1>3, <2>1, NoLeast
  <1>5. QED
    BY <1>4

LEMMA WithinCounts ==
    ASSUME NEW h \in Histories, NEW n \in 0..MaxWindow
    PROVE  /\ [h EXCEPT ![0] = @ + 1] \in Histories
           /\ AcceptedWithin([h EXCEPT ![0] = @ + 1], n) = AcceptedWithin(h, n) + 1
  <1> DEFINE g == [h EXCEPT ![0] = @ + 1]
  <1>1. 0 \in 0..MaxWindow
    BY Bounds
  <1>2. /\ g \in Histories /\ g[0] = h[0] + 1
        /\ \A x \in 0..MaxWindow : x # 0 => g[x] = h[x]
    BY <1>1 DEF Histories
  <1> HIDE DEF g
  <1> DEFINE P == {x \in 0..MaxWindow : AcceptedWithin(g, x) # AcceptedWithin(h, x) + 1}
  <1>3. 0 \notin P
    BY <1>2, WithinNone
  <1>4. ASSUME NEW x \in 1..MaxWindow, x - 1 \notin P PROVE x \notin P
    <2>1. /\ AcceptedWithin(h, x) = AcceptedWithin(h, x - 1) + h[x]
          /\ AcceptedWithin(g, x) = AcceptedWithin(g, x - 1) + g[x]
          /\ x - 1 \in 0..MaxWindow /\ x \in 0..MaxWindow /\ x # 0 /\ h[x] \in Nat
      BY <1>2, WithinMore
    <2>2. AcceptedWithin(h, x - 1) \in Nat
      BY <2>1, WithinIsNat
    <2>3. AcceptedWithin(g, x - 1) = AcceptedWithin(h, x - 1) + 1 /\ g[x] = h[x]
      BY <1>2, <1>4, <2>1
    <2>4. QED
      BY <2>1, <2>2, <2>3
  <1>5. P = {}
    <2>1. P \subseteq 0..MaxWindow
      OBVIOUS
    <2> HIDE DEF P
    <2>2. QED
      BY <1>3, <1>4, <2>1, NoLeast
  <1>6. AcceptedWithin(g, n) = AcceptedWithin(h, n) + 1
    BY <1>5
  <1>7. QED
    BY <1>2, <1>6 DEF g

\* The clock.
LEMMA WithinShifts ==
    ASSUME NEW h \in Histories
    PROVE  /\ Shifted(h) \in Histories /\ Shifted(h)[0] = 0
           /\ \A n \in 1..MaxWindow : AcceptedWithin(Shifted(h), n) = AcceptedWithin(h, n - 1)
  <1> DEFINE g == Shifted(h)
  <1>1. MaxWindow \in Nat /\ \A x \in 1..MaxWindow : x - 1 \in 0..MaxWindow /\ x \in 0..MaxWindow
    BY Bounds
  <1>2. /\ g \in Histories /\ g[0] = 0
        /\ \A x \in 1..MaxWindow : g[x] = h[x - 1]
    <2>1. \A x \in 0..MaxWindow : x = 0 \/ x \in 1..MaxWindow
      BY <1>1
    <2>2. 0 \in 0..MaxWindow
      BY <1>1
    <2>3. QED
      BY <1>1, <2>1, <2>2 DEF Shifted, Histories
  <1> HIDE DEF g
  <1> DEFINE P == {x \in 0..MaxWindow : x # 0 /\ AcceptedWithin(g, x) # AcceptedWithin(h, x - 1)}
  <1>3. 0 \notin P
    OBVIOUS
  <1>4. ASSUME NEW x \in 1..MaxWindow, x - 1 \notin P PROVE x \notin P
    <2>1. /\ AcceptedWithin(g, x) = AcceptedWithin(g, x - 1) + g[x]
          /\ g[x] = h[x - 1] /\ x - 1 \in 0..MaxWindow
      BY <1>2, WithinMore
    <2>2. CASE x = 1
      <3>1. x - 1 = 0
        BY <2>2
      <3>2. QED
        BY <2>1, <3>1, <1>2, WithinNone
    <2>3. CASE x # 1
      <3>1. x - 1 \in 1..MaxWindow /\ x - 1 # 0
        BY <1>1, <2>3
      <3>2. AcceptedWithin(g, x - 1) = AcceptedWithin(h, (x - 1) - 1)
        BY <1>4, <2>1, <3>1
      <3>3. AcceptedWithin(h, x - 1) = AcceptedWithin(h, (x - 1) - 1) + h[x - 1]
        BY <3>1, WithinMore
      <3>4. QED
        BY <2>1, <3>2, <3>3
    <2>4. QED
      BY <2>2, <2>3
  <1>5. P = {}
    <2>1. P \subseteq 0..MaxWindow
      OBVIOUS
    <2> HIDE DEF P
    <2>2. QED
      BY <1>3, <1>4, <2>1, NoLeast
  <1>6. ASSUME NEW n \in 1..MaxWindow PROVE AcceptedWithin(g, n) = AcceptedWithin(h, n - 1)
    BY <1>1, <1>5
  <1>7. QED
    BY <1>2, <1>6 DEF g

LEMMA NobodyWithin ==
    ASSUME NEW n \in 0..MaxWindow
    PROVE  LET zero == [age \in 0..MaxWindow |-> 0] IN
           zero \in Histories /\ zero[0] = 0 /\ AcceptedWithin(zero, n) = 0
  <1> DEFINE zero == [age \in 0..MaxWindow |-> 0]
             P == {x \in 0..MaxWindow : AcceptedWithin(zero, x) # 0}
  <1>1. MaxWindow \in Nat
    BY Bounds
  <1>2. zero \in Histories /\ zero[0] = 0 /\ \A x \in 1..MaxWindow : zero[x] = 0
    BY <1>1 DEF Histories
  <1> HIDE DEF zero
  <1>3. 0 \notin P
    BY <1>2, WithinNone
  <1>4. ASSUME NEW x \in 1..MaxWindow, x - 1 \notin P PROVE x \notin P
    <2>1. /\ AcceptedWithin(zero, x) = AcceptedWithin(zero, x - 1) + 0
          /\ x - 1 \in 0..MaxWindow
      BY <1>2, WithinMore
    <2>2. AcceptedWithin(zero, x - 1) = 0
      BY <1>4, <2>1
    <2>3. QED
      BY <2>1, <2>2
  <1>5. P = {}
    <2>1. P \subseteq 0..MaxWindow
      OBVIOUS
    <2> HIDE DEF P
    <2>2. QED
      BY <1>3, <1>4, <2>1, NoLeast
  <1>6. AcceptedWithin(zero, n) = 0
    BY <1>5
  <1>7. QED
    BY <1>2, <1>6 DEF zero

-----------------------------------------------------------------------------
(* A bucket and the history of its address.                                *)

\* A limit of m requests in w milliseconds.  The bucket has counted every
\* request since its window began, and in the rest of an interval that ends
\* now there are no more than m.
BucketOK(b, h, w, m) ==
    /\ b = None \/ b.age > w => h[0] = 0 /\ AcceptedWithin(h, w) <= m
    /\ b # None /\ b.age <= w =>
           /\ AcceptedWithin(h, b.age) <= b.count
           /\ AcceptedWithin(h, b.age) <= m
           /\ AcceptedWithin(h, w) <= AcceptedWithin(h, b.age) + m

IsLimit(w, m) == w \in 1..MaxWindow /\ m \in 1..MaxCount /\ m < MaxCount

LEMMA LimitsAreLimits ==
    /\ IsLimit(WindowMs, MaxRequests)
    /\ \A l \in Limits : IsLimit(l.windowMs, l.maxRequests)
  BY Bounds, LimitAssumption DEF IsLimit

LEMMA BucketFields ==
    ASSUME NEW b \in Bucket, b # None
    PROVE  /\ b = [count |-> b.count, age |-> b.age]
           /\ b.count \in 1..MaxCount /\ b.count \in Nat
           /\ b.age \in 0..OldAge /\ b.age \in Nat
  BY Bounds DEF Bucket, Ages

LEMMA BucketIsNotNone ==
    ASSUME NEW n \in 1..MaxCount, NEW a \in 0..OldAge
    PROVE  [count |-> n, age |-> a] \in Bucket /\ [count |-> n, age |-> a] # None
  BY NoneAssumption DEF Bucket, Ages

\* No interval of the window's length has more than twice the limit.
LEMMA BucketBounds ==
    ASSUME NEW b \in Bucket, NEW h \in Histories, NEW w, NEW m, IsLimit(w, m),
           BucketOK(b, h, w, m)
    PROVE  AcceptedWithin(h, w) <= 2 * m
  <1>1. w \in 0..MaxWindow /\ m \in Nat
    BY Bounds DEF IsLimit
  <1>2. AcceptedWithin(h, w) \in Nat
    BY <1>1, WithinIsNat
  <1>3. CASE b = None \/ b.age > w
    BY <1>1, <1>2, <1>3 DEF BucketOK
  <1>4. CASE b # None /\ ~(b.age > w)
    <2>1. b.age \in 0..MaxWindow /\ b.age <= w
      BY <1>1, <1>4, BucketFields, Bounds
    <2>2. AcceptedWithin(h, b.age) \in Nat
      BY <2>1, WithinIsNat
    <2>3. AcceptedWithin(h, b.age) <= m /\ AcceptedWithin(h, w) <= AcceptedWithin(h, b.age) + m
      BY <1>4, <2>1 DEF BucketOK
    <2>4. QED
      BY <1>1, <1>2, <2>2, <2>3
  <1>5. QED
    BY <1>3, <1>4

\* A history without requests agrees with every bucket.
LEMMA BucketForgets ==
    ASSUME NEW b \in Bucket, NEW w, NEW m, IsLimit(w, m)
    PROVE  BucketOK(b, [age \in 0..MaxWindow |-> 0], w, m)
  <1> DEFINE zero == [age \in 0..MaxWindow |-> 0]
  <1>1. w \in 0..MaxWindow /\ m \in Nat /\ MaxWindow \in Nat
    BY Bounds DEF IsLimit
  <1>2. \A n \in 0..MaxWindow : AcceptedWithin(zero, n) = 0 /\ zero[0] = 0
    BY NobodyWithin
  <1> HIDE DEF zero
  <1>3. b # None /\ b.age <= w => b.age \in 0..MaxWindow /\ b.count \in Nat
    BY <1>1, BucketFields
  <1>4. BucketOK(b, zero, w, m)
    BY <1>1, <1>2, <1>3 DEF BucketOK
  <1>5. QED
    BY <1>4 DEF zero

\* A bucket is purged when its window is over.
LEMMA BucketPurged ==
    ASSUME NEW b \in Bucket, NEW h \in Histories, NEW w, NEW m, IsLimit(w, m),
           BucketOK(b, h, w, m), w <= PurgeAge, Stale(b)
    PROVE  BucketOK(None, h, w, m)
  <1>1. w \in Nat /\ PurgeAge \in Nat
    BY LimitAssumption, Bounds DEF IsLimit
  <1>2. b.age > w
    BY <1>1, BucketFields DEF Stale
  <1>3. QED
    BY <1>2 DEF BucketOK

LEMMA CountedType ==
    ASSUME NEW b \in Bucket, NEW w
    PROVE  Counted(b, w) \in Bucket /\ Counted(b, w) # None
  <1>1. MaxCount \in Nat /\ MaxCount > 0 /\ OldAge \in Nat
    BY Bounds, LimitAssumption
  <1>2. CASE b = None \/ b.age > w
    <2>1. 1 \in 1..MaxCount /\ 0 \in 0..OldAge
      BY <1>1
    <2>2. Counted(b, w) = [count |-> 1, age |-> 0]
      BY <1>2 DEF Counted
    <2>3. QED
      BY <2>1, <2>2, BucketIsNotNone
  <1>3. CASE ~(b = None \/ b.age > w)
    <2>1. Counted(b, w) = [count |-> Min({b.count + 1, MaxCount}), age |-> b.age]
      BY <1>3, BucketFields DEF Counted
    <2>2. Min({b.count + 1, MaxCount}) \in 1..MaxCount
      BY <1>1, <1>3, BucketFields, MinOfTwo
    <2>3. QED
      BY <1>3, <2>1, <2>2, BucketFields, BucketIsNotNone
  <1>4. QED
    BY <1>2, <1>3

\* A request is counted, and let through unless the count is beyond the limit.
LEMMA BucketCounts ==
    ASSUME NEW b \in Bucket, NEW h \in Histories, NEW w, NEW m, IsLimit(w, m),
           BucketOK(b, h, w, m)
    PROVE  /\ Counted(b, w).count <= m => BucketOK(Counted(b, w), [h EXCEPT ![0] = @ + 1], w, m)
           /\ ~(Counted(b, w).count <= m) => BucketOK(Counted(b, w), h, w, m)
  <1> DEFINE c == Counted(b, w)
             g == [h EXCEPT ![0] = @ + 1]
  <1>1. /\ w \in Nat /\ w >= 1 /\ w <= MaxWindow /\ m \in Nat /\ m >= 1 /\ m < MaxCount
        /\ MaxCount \in Nat /\ MaxWindow \in Nat /\ w \in 0..MaxWindow /\ 0 \in 0..MaxWindow
    BY Bounds DEF IsLimit
  <1>2. c \in Bucket /\ c # None
    BY CountedType
  <1>3. g \in Histories /\ \A n \in 0..MaxWindow : AcceptedWithin(g, n) = AcceptedWithin(h, n) + 1
    BY <1>1, WithinCounts
  <1>4. \A n \in 0..MaxWindow : AcceptedWithin(h, n) \in Nat
    BY WithinIsNat
  <1>5. AcceptedWithin(h, 0) = h[0]
    BY WithinNone
  <1>6. CASE b = None \/ b.age > w
    <2>1. c.count = 1 /\ c.age = 0
      BY <1>6 DEF Counted
    <2>2. AcceptedWithin(h, 0) = 0 /\ AcceptedWithin(h, w) <= m
      BY <1>5, <1>6 DEF BucketOK
    <2> HIDE DEF c, g
    <2>3. /\ AcceptedWithin(g, 0) = 1 /\ AcceptedWithin(g, w) <= 1 + m
      BY <1>1, <1>3, <1>4, <2>2
    <2>4. BucketOK(c, g, w, m)
      BY <1>1, <1>2, <2>1, <2>3 DEF BucketOK
    <2>5. c.count <= m
      BY <1>1, <2>1
    <2>6. QED
      BY <2>4, <2>5 DEF c, g
  <1>7. CASE ~(b = None \/ b.age > w)
    <2>1. /\ b.age \in 0..MaxWindow /\ b.age <= w
          /\ b.count \in Nat
      BY <1>1, <1>7, BucketFields
    <2>2. c.age = b.age /\ c.count = IF b.count + 1 <= MaxCount THEN b.count + 1 ELSE MaxCount
      <3>1. c = [count |-> Min({b.count + 1, MaxCount}), age |-> b.age]
        BY <1>7, BucketFields DEF Counted
      <3>2. QED
        BY <1>1, <2>1, <3>1, MinOfTwo
    <2>3. /\ AcceptedWithin(h, b.age) <= b.count
          /\ AcceptedWithin(h, b.age) <= m
          /\ AcceptedWithin(h, w) <= AcceptedWithin(h, b.age) + m
      BY <1>7, <2>1 DEF BucketOK
    <2>b. b.count <= MaxCount
      BY <1>1, <1>7, BucketFields
    <2> HIDE DEF c, g
    <2>4. AcceptedWithin(h, b.age) \in Nat /\ AcceptedWithin(h, w) \in Nat
      BY <1>1, <1>4, <2>1
    <2>5. c.count \in Nat /\ c.count >= b.count
      BY <1>1, <2>1, <2>2, <2>b
    <2>6. ASSUME ~(c.count <= m) PROVE BucketOK(c, h, w, m)
      <3>1. AcceptedWithin(h, c.age) <= c.count
        BY <2>1, <2>2, <2>3, <2>4, <2>5
      <3>2. QED
        BY <1>1, <1>2, <2>1, <2>2, <2>3, <3>1 DEF BucketOK
    <2>7. ASSUME c.count <= m PROVE BucketOK(c, g, w, m)
      <3>1. c.count = b.count + 1
        BY <1>1, <2>1, <2>2, <2>7
      <3>2. /\ AcceptedWithin(g, b.age) = AcceptedWithin(h, b.age) + 1
            /\ AcceptedWithin(g, w) = AcceptedWithin(h, w) + 1
        BY <1>1, <1>3, <2>1
      <3>3. /\ AcceptedWithin(g, c.age) <= c.count
            /\ AcceptedWithin(g, c.age) <= m
            /\ AcceptedWithin(g, w) <= AcceptedWithin(g, c.age) + m
        BY <1>1, <2>1, <2>2, <2>3, <2>4, <2>5, <2>7, <3>1, <3>2
      <3>4. QED
        BY <1>1, <1>2, <2>1, <2>2, <3>3 DEF BucketOK
    <2>8. QED
      BY <2>6, <2>7 DEF c, g
  <1>8. QED
    BY <1>6, <1>7

LEMMA OlderType ==
    ASSUME NEW b \in Bucket
    PROVE  /\ Older(b) \in Bucket
           /\ Older(b) = None <=> b = None
           /\ b # None => /\ Older(b).count = b.count
                          /\ Older(b).age = IF b.age + 1 <= OldAge THEN b.age + 1 ELSE OldAge
  <1>1. OldAge \in Nat
    BY Bounds
  <1>2. CASE b = None
    BY <1>2 DEF Older, Bucket
  <1>3. CASE b # None
    <2>1. /\ b = [count |-> b.count, age |-> b.age]
          /\ b.count \in 1..MaxCount /\ b.age \in 0..OldAge
      BY <1>3, BucketFields
    <2>2. Min({b.age + 1, OldAge}) = IF b.age + 1 <= OldAge THEN b.age + 1 ELSE OldAge
      BY <1>1, <2>1, MinOfTwo
    <2>3. Min({b.age + 1, OldAge}) \in 0..OldAge
      BY <1>1, <2>1, <2>2
    <2>4. Older(b) = [count |-> b.count, age |-> Min({b.age + 1, OldAge})]
      BY <1>3, <2>1 DEF Older
    <2>5. QED
      BY <1>3, <2>1, <2>2, <2>3, <2>4, BucketIsNotNone
  <1>4. QED
    BY <1>2, <1>3

\* Time goes on.
LEMMA BucketAges ==
    ASSUME NEW b \in Bucket, NEW h \in Histories, NEW w, NEW m, IsLimit(w, m),
           BucketOK(b, h, w, m)
    PROVE  BucketOK(Older(b), Shifted(h), w, m)
  <1> DEFINE c == Older(b)
             g == Shifted(h)
  <1>1. /\ w \in Nat /\ w >= 1 /\ w <= MaxWindow /\ m \in Nat
        /\ MaxWindow \in Nat /\ OldAge \in Nat /\ MaxWindow < OldAge
        /\ w \in 1..MaxWindow /\ w \in 0..MaxWindow /\ w - 1 \in 0..MaxWindow
    BY Bounds DEF IsLimit
  <1>2. /\ g[0] = 0
        /\ \A n \in 1..MaxWindow : AcceptedWithin(g, n) = AcceptedWithin(h, n - 1)
    BY WithinShifts
  <1>3. AcceptedWithin(g, w) = AcceptedWithin(h, w - 1)
    BY <1>1, <1>2
  <1>4. \A n \in 0..MaxWindow : AcceptedWithin(h, n) \in Nat
    BY WithinIsNat
  <1>5. AcceptedWithin(h, w - 1) <= AcceptedWithin(h, w)
    BY <1>1, WithinGrows
  <1>6. /\ c = None <=> b = None
        /\ b # None => /\ c.count = b.count
                       /\ c.age = IF b.age + 1 <= OldAge THEN b.age + 1 ELSE OldAge
    BY OlderType
  <1> HIDE DEF c, g
  <1>7. AcceptedWithin(g, w) \in Nat /\ AcceptedWithin(h, w) \in Nat /\ AcceptedWithin(h, w - 1) \in Nat
    BY <1>1, <1>3, <1>4
  <1>8. CASE b = None \/ b.age > w
    <2>1. AcceptedWithin(h, w) <= m
      BY <1>8 DEF BucketOK
    <2>2. AcceptedWithin(g, w) <= m
      BY <1>1, <1>3, <1>5, <1>7, <2>1
    <2>3. c = None \/ c.age > w
      BY <1>1, <1>6, <1>8, BucketFields
    <2>4. c # None => ~(c.age <= w)
      BY <1>1, <1>6, <1>8, BucketFields
    <2>5. QED
      BY <1>2, <2>2, <2>4 DEF BucketOK, c, g
  <1>9. CASE ~(b = None \/ b.age > w)
    <2>1. /\ b # None /\ c # None
          /\ b.age \in Nat /\ b.age \in 0..MaxWindow /\ b.age <= w
          /\ c.age = b.age + 1 /\ c.count = b.count
      BY <1>1, <1>6, <1>9, BucketFields
    <2>2. /\ AcceptedWithin(h, b.age) <= b.count
          /\ AcceptedWithin(h, b.age) <= m
          /\ AcceptedWithin(h, w) <= AcceptedWithin(h, b.age) + m
      BY <1>9, <2>1 DEF BucketOK
    <2>3. AcceptedWithin(h, b.age) \in Nat
      BY <1>4, <2>1
    <2>4. CASE b.age = w
      <3>1. AcceptedWithin(g, w) <= m
        BY <1>1, <1>3, <1>5, <1>7, <2>2, <2>4
      <3>2. c.age > w /\ ~(c.age <= w)
        BY <1>1, <2>1, <2>4
      <3>3. QED
        BY <1>2, <2>1, <3>1, <3>2 DEF BucketOK, c, g
    <2>5. CASE b.age # w
      <3>1. c.age \in 1..MaxWindow /\ c.age <= w /\ ~(c.age > w) /\ c.age - 1 = b.age
        BY <1>1, <2>1, <2>5
      <3>2. AcceptedWithin(g, c.age) = AcceptedWithin(h, b.age)
        BY <1>2, <3>1
      <3>3. AcceptedWithin(g, w) <= AcceptedWithin(g, c.age) + m
        BY <1>1, <1>3, <1>5, <1>7, <2>2, <2>3, <3>2
      <3>4. QED
        BY <2>1, <2>2, <3>1, <3>2, <3>3 DEF BucketOK, c, g
    <2>6. QED
      BY <2>4, <2>5
  <1>10. QED
    BY <1>8, <1>9

-----------------------------------------------------------------------------
(* The limits, global and of the namespaces.                               *)

GlobalOK(bs, hs) ==
    /\ bs \in [Addresses -> Bucket] /\ hs \in [Addresses -> Histories]
    /\ WindowMs <= PurgeAge =>
           \A a \in Addresses : BucketOK(bs[a], hs[a], WindowMs, MaxRequests)

\* What was let through after the instant, c ago, at which the limit changed.
Since(h, c) == [age \in 0..MaxWindow |-> IF age < c THEN h[age] ELSE 0]

LimitOK(limit, b, h, c) ==
    limit # None /\ limit.windowMs <= PurgeAge =>
        BucketOK(b, Since(h, c), limit.windowMs, limit.maxRequests)

NamespacesOK(configs, bs, hs, cs) ==
    /\ configs \in [Namespaces -> Limits \cup {None}]
    /\ bs \in [Namespaces -> [Addresses -> Bucket]]
    /\ hs \in [Namespaces -> [Addresses -> Histories]]
    /\ cs \in [Namespaces -> 0..LongAgo]
    /\ \A ns \in Namespaces, a \in Addresses : LimitOK(configs[ns], bs[ns][a], hs[ns][a], cs[ns])

LEMMA SinceType ==
    ASSUME NEW h \in Histories, NEW c \in 0..LongAgo
    PROVE  Since(h, c) \in Histories /\ c \in Nat
  <1>1. MaxWindow \in Nat /\ LongAgo = MaxWindow + 1
    BY Bounds DEF LongAgo
  <1>2. c \in Nat
    BY <1>1
  <1>3. QED
    BY <1>2 DEF Since, Histories

\* At the instant itself nothing is counted, whatever the bucket says.
LEMMA SinceNever ==
    ASSUME NEW h \in Histories, NEW b \in Bucket, NEW limit \in Limits \cup {None}
    PROVE  LimitOK(limit, b, h, 0)
  <1> DEFINE zero == [age \in 0..MaxWindow |-> 0]
  <1>1. Since(h, 0) = zero
    <2>1. \A age \in 0..MaxWindow : ~(age < 0)
      BY Bounds
    <2>2. QED
      BY <2>1 DEF Since
  <1>2. ASSUME limit # None PROVE BucketOK(b, zero, limit.windowMs, limit.maxRequests)
    <2>1. IsLimit(limit.windowMs, limit.maxRequests)
      BY <1>2, LimitsAreLimits
    <2>2. QED
      BY <2>1, BucketForgets
  <1> HIDE DEF zero
  <1>3. QED
    BY <1>1, <1>2 DEF LimitOK

LEMMA SinceCounts ==
    ASSUME NEW h \in Histories, NEW c \in 0..LongAgo, c # 0
    PROVE  Since([h EXCEPT ![0] = @ + 1], c) = [Since(h, c) EXCEPT ![0] = @ + 1]
  <1>1. 0 \in 0..MaxWindow /\ 0 < c
    BY Bounds, SinceType
  <1> DEFINE g == [h EXCEPT ![0] = @ + 1]
             s == Since(h, c)
  <1>2. \A age \in 0..MaxWindow : g[age] = IF age = 0 THEN h[0] + 1 ELSE h[age]
    BY DEF Histories
  <1>3. s = [age \in 0..MaxWindow |-> IF age < c THEN h[age] ELSE 0] /\ s[0] = h[0]
    BY <1>1 DEF Since
  <1>4. [s EXCEPT ![0] = @ + 1] = [age \in 0..MaxWindow |-> IF age = 0 THEN s[0] + 1 ELSE s[age]]
    BY <1>3
  <1>5. \A age \in 0..MaxWindow :
           (IF age < c THEN g[age] ELSE 0) = (IF age = 0 THEN s[0] + 1 ELSE s[age])
    BY <1>1, <1>2, <1>3
  <1> HIDE DEF g, s
  <1>6. Since(g, c) = [s EXCEPT ![0] = @ + 1]
    BY <1>4, <1>5 DEF Since
  <1>7. QED
    BY <1>6 DEF g, s

LEMMA SinceShifts ==
    ASSUME NEW h \in Histories, NEW c \in 0..LongAgo
    PROVE  LET d == Min({c + 1, LongAgo}) IN
           d \in 0..LongAgo /\ Since(Shifted(h), d) = Shifted(Since(h, c))
  <1> DEFINE d == Min({c + 1, LongAgo})
  <1>1. MaxWindow \in Nat /\ LongAgo = MaxWindow + 1 /\ LongAgo \in Nat /\ c \in Nat /\ c + 1 \in Nat
    BY Bounds, SinceType DEF LongAgo
  <1>2. d = IF c + 1 <= LongAgo THEN c + 1 ELSE LongAgo
    BY <1>1, MinOfTwo
  <1> HIDE DEF d
  <1>3. d \in 0..LongAgo /\ d # 0
    BY <1>1, <1>2
  <1>4. \A age \in 0..MaxWindow : age # 0 =>
           age - 1 \in 0..MaxWindow /\ (age < d <=> age - 1 < c)
    BY <1>1, <1>2
  <1>5. \A age \in 0..MaxWindow :
           (IF age < d THEN Shifted(h)[age] ELSE 0)
               = (IF age = 0 THEN 0 ELSE Since(h, c)[age - 1])
    BY <1>4 DEF Shifted, Since
  <1>6. Since(Shifted(h), d) = Shifted(Since(h, c))
    BY <1>5 DEF Since, Shifted
  <1>7. QED
    BY <1>3, <1>6 DEF d

\* A limit that has stood for longer than n has counted all of the last n.
LEMMA SinceWithin ==
    ASSUME NEW h \in Histories, NEW c \in 0..LongAgo, NEW n \in 0..MaxWindow, n < c
    PROVE  AcceptedWithin(Since(h, c), n) = AcceptedWithin(h, n)
  <1> DEFINE s == Since(h, c)
             P == {x \in 0..MaxWindow : x < c /\ AcceptedWithin(s, x) # AcceptedWithin(h, x)}
  <1>1. MaxWindow \in Nat /\ c \in Nat /\ s \in Histories
    BY Bounds, SinceType
  <1>2. \A x \in 0..MaxWindow : x < c => s[x] = h[x]
    BY DEF Since
  <1> HIDE DEF s
  <1>3. 0 \notin P
    <2>1. 0 \in 0..MaxWindow
      BY <1>1
    <2>2. QED
      BY <1>1, <1>2, <2>1, WithinNone
  <1>4. ASSUME NEW x \in 1..MaxWindow, x - 1 \notin P PROVE x \notin P
    <2>1. /\ AcceptedWithin(s, x) = AcceptedWithin(s, x - 1) + s[x]
          /\ AcceptedWithin(h, x) = AcceptedWithin(h, x - 1) + h[x]
          /\ x - 1 \in 0..MaxWindow /\ x \in 0..MaxWindow
      BY <1>1, WithinMore
    <2>2. x < c => x - 1 < c
      BY <1>1
    <2>3. QED
      BY <1>2, <1>4, <2>1, <2>2
  <1>5. P = {}
    <2>1. P \subseteq 0..MaxWindow
      OBVIOUS
    <2> HIDE DEF P
    <2>2. QED
      BY <1>3, <1>4, <2>1, NoLeast
  <1>6. QED
    BY <1>5 DEF s

\* Two levels of a function of functions.
LEMMA ExceptTwo ==
    ASSUME NEW D, NEW E, NEW T, NEW f \in [D -> [E -> T]], NEW d \in D, NEW e \in E,
           NEW v \in T
    PROVE  /\ [f EXCEPT ![d][e] = v] \in [D -> [E -> T]]
           /\ \A x \in D, y \in E :
                 [f EXCEPT ![d][e] = v][x][y] = IF x = d /\ y = e THEN v ELSE f[x][y]
  <1> DEFINE g == [f EXCEPT ![d][e] = v]
  <1>1. g = [f EXCEPT ![d] = [f[d] EXCEPT ![e] = v]]
    OBVIOUS
  <1>2. [f[d] EXCEPT ![e] = v] \in [E -> T]
    OBVIOUS
  <1>3. QED
    BY <1>1, <1>2

LEMMA GlobalCounts ==
    ASSUME NEW q \in Requests, GlobalOK(buckets, accepted), RateLimit(q)
    PROVE  GlobalOK(buckets', accepted')
  <1> DEFINE a == q.address
             b == buckets[a]
             h == accepted[a]
             c == Counted(b, WindowMs)
             g == [h EXCEPT ![0] = @ + 1]
  <1>1. a \in Addresses /\ b \in Bucket /\ h \in Histories
    BY RequestsAssumption DEF GlobalOK
  <1>2. c \in Bucket
    BY <1>1, CountedType
  <1>3. g \in Histories
    <2>1. 0 \in 0..MaxWindow
      BY Bounds
    <2>2. QED
      BY <1>1, <2>1, WithinCounts
  <1>4. buckets' = [buckets EXCEPT ![a] = c]
    BY DEF RateLimit
  <1>5. accepted' = IF c.count <= MaxRequests THEN [accepted EXCEPT ![a] = g] ELSE accepted
    <2>1. [accepted EXCEPT ![a][0] = @ + 1] = [accepted EXCEPT ![a] = g]
      OBVIOUS
    <2>2. Passes(b, Global) <=> c.count <= MaxRequests
      BY DEF Passes, Global
    <2> HIDE DEF g
    <2>3. QED
      BY <2>1, <2>2 DEF RateLimit
  <1>6. WindowMs <= PurgeAge => BucketOK(c, IF c.count <= MaxRequests THEN g ELSE h, WindowMs, MaxRequests)
    <2>1. SUFFICES ASSUME WindowMs <= PurgeAge
                   PROVE  BucketOK(c, IF c.count <= MaxRequests THEN g ELSE h, WindowMs, MaxRequests)
      OBVIOUS
    <2>2. BucketOK(b, h, WindowMs, MaxRequests)
      BY <1>1, <2>1 DEF GlobalOK
    <2>3. /\ c.count <= MaxRequests => BucketOK(c, g, WindowMs, MaxRequests)
          /\ ~(c.count <= MaxRequests) => BucketOK(c, h, WindowMs, MaxRequests)
      <3> HIDE DEF b, h
      <3>1. QED
        BY <1>1, <2>2, BucketCounts, LimitsAreLimits
    <2>4. QED
      BY <2>3
  <1> HIDE DEF c, g, b, h, a
  <1>7. \A x \in Addresses :
           /\ buckets'[x] = IF x = a THEN c ELSE buckets[x]
           /\ accepted'[x] = IF x = a /\ c.count <= MaxRequests THEN g ELSE accepted[x]
    BY <1>4, <1>5 DEF GlobalOK
  <1>8. buckets' \in [Addresses -> Bucket] /\ accepted' \in [Addresses -> Histories]
    BY <1>2, <1>3, <1>4, <1>5 DEF GlobalOK
  <1>9. WindowMs <= PurgeAge =>
           \A x \in Addresses : BucketOK(buckets'[x], accepted'[x], WindowMs, MaxRequests)
    BY <1>6, <1>7 DEF GlobalOK, h
  <1>10. QED
    BY <1>8, <1>9 DEF GlobalOK

LEMMA NamespaceCounts ==
    ASSUME NEW q \in Requests, NamespacesOK(namespaceConfigs, namespaceBuckets, nsAccepted, changed)
    PROVE  NamespacesOK(namespaceConfigs, NamespaceCounted(q), NamespaceAccepted(q), changed)
  <1> DEFINE through == Passes(buckets[q.address], Global)
  <1>1. CASE ~(through /\ Limited(q.ns))
    <2>1. NamespaceCounted(q) = namespaceBuckets
      BY <1>1 DEF NamespaceCounted
    <2>2. NamespaceAccepted(q) = nsAccepted
      BY <1>1 DEF NamespaceAccepted, LetThrough, LetThroughBy
    <2>3. QED
      BY <2>1, <2>2
  <1>2. CASE through /\ Limited(q.ns)
    <2> DEFINE a == q.address
               n == q.ns
               limit == namespaceConfigs[n]
               w == limit.windowMs
               m == limit.maxRequests
               b == namespaceBuckets[n][a]
               h == nsAccepted[n][a]
               c == Counted(b, w)
               g == [h EXCEPT ![0] = @ + 1]
               hh == IF c.count <= m THEN g ELSE h
               age == changed[n]
               s == Since(h, age)
    <2>1. /\ a \in Addresses /\ n \in Namespaces /\ limit \in Limits /\ limit # None
          /\ b \in Bucket /\ h \in Histories /\ age \in 0..LongAgo
      BY <1>2, RequestsAssumption DEF NamespacesOK, Limited
    <2>2. IsLimit(w, m)
      BY <2>1, LimitsAreLimits
    <2>3. c \in Bucket
      <3> HIDE DEF b, w
      <3>1. QED
        BY <2>1, CountedType
    <2>4. g \in Histories
      <3>1. 0 \in 0..MaxWindow
        BY Bounds
      <3> HIDE DEF h
      <3>2. QED
        BY <2>1, <3>1, WithinCounts
    <2>5. NamespaceCounted(q) = [namespaceBuckets EXCEPT ![n][a] = c]
      BY <1>2 DEF NamespaceCounted
    <2>6. NamespaceAccepted(q) = [nsAccepted EXCEPT ![n][a] = hh]
      <3>1. LetThrough(q) <=> c.count <= m
        BY <1>2 DEF LetThrough, LetThroughBy, Passes
      <3>2. CASE c.count <= m
        <4>1. NamespaceAccepted(q) = [nsAccepted EXCEPT ![n][a][0] = @ + 1]
          BY <1>2, <3>1, <3>2 DEF NamespaceAccepted
        <4>2. [nsAccepted EXCEPT ![n][a][0] = @ + 1] = [nsAccepted EXCEPT ![n][a] = g]
          OBVIOUS
        <4>3. QED
          BY <3>2, <4>1, <4>2
      <3>3. CASE ~(c.count <= m)
        <4>1. NamespaceAccepted(q) = nsAccepted
          BY <3>1, <3>3 DEF NamespaceAccepted
        <4>2. nsAccepted = [nsAccepted EXCEPT ![n][a] = h]
          BY DEF NamespacesOK
        <4>3. QED
          BY <3>3, <4>1, <4>2
      <3>4. QED
        BY <3>2, <3>3
    <2>7. hh \in Histories
      BY <2>1, <2>4
    <2>8. LimitOK(limit, c, hh, age)
      <3>1. CASE age = 0
        <4> HIDE DEF age, c, hh, limit
        <4>1. QED
          BY <2>1, <2>3, <2>7, <3>1, SinceNever
      <3>2. CASE age # 0
        <4>1. SUFFICES ASSUME w <= PurgeAge PROVE BucketOK(c, Since(hh, age), w, m)
          BY DEF LimitOK
        <4>2. BucketOK(b, s, w, m)
          <5>1. LimitOK(limit, b, h, age)
            BY <2>1 DEF NamespacesOK
          <5>2. QED
            BY <2>1, <4>1, <5>1 DEF LimitOK
        <4>3. s \in Histories /\ Since(g, age) = [s EXCEPT ![0] = @ + 1]
          <5> HIDE DEF h, age
          <5>1. QED
            BY <2>1, <3>2, SinceType, SinceCounts
        <4>4. /\ c.count <= m => BucketOK(c, [s EXCEPT ![0] = @ + 1], w, m)
              /\ ~(c.count <= m) => BucketOK(c, s, w, m)
          <5> HIDE DEF b, s, w, m
          <5>1. QED
            BY <2>1, <2>2, <4>2, <4>3, BucketCounts
        <4>5. Since(hh, age) = IF c.count <= m THEN [s EXCEPT ![0] = @ + 1] ELSE s
          <5> HIDE DEF g, c, h
          <5>1. QED
            BY <4>3
        <4>6. QED
          BY <4>4, <4>5
      <3>3. QED
        BY <3>1, <3>2
    <2> DEFINE bs == NamespaceCounted(q)
               hs == NamespaceAccepted(q)
    <2>t. /\ namespaceConfigs \in [Namespaces -> Limits \cup {None}]
          /\ namespaceBuckets \in [Namespaces -> [Addresses -> Bucket]]
          /\ nsAccepted \in [Namespaces -> [Addresses -> Histories]]
          /\ \A ns \in Namespaces, x \in Addresses :
                LimitOK(namespaceConfigs[ns], namespaceBuckets[ns][x], nsAccepted[ns][x], changed[ns])
          /\ changed \in [Namespaces -> 0..LongAgo]
      BY DEF NamespacesOK
    <2>9. /\ bs \in [Namespaces -> [Addresses -> Bucket]]
          /\ \A ns \in Namespaces, x \in Addresses :
                bs[ns][x] = IF ns = n /\ x = a THEN c ELSE namespaceBuckets[ns][x]
      <3> HIDE DEF n, a, c
      <3>1. QED
        BY <2>1, <2>3, <2>5, <2>t, ExceptTwo
    <2>10. /\ hs \in [Namespaces -> [Addresses -> Histories]]
           /\ \A ns \in Namespaces, x \in Addresses :
                 hs[ns][x] = IF ns = n /\ x = a THEN hh ELSE nsAccepted[ns][x]
      <3> HIDE DEF n, a, hh
      <3>1. QED
        BY <2>1, <2>6, <2>7, <2>t, ExceptTwo
    <2> HIDE DEF bs, hs, c, hh
    <2>11. ASSUME NEW ns \in Namespaces, NEW x \in Addresses
           PROVE  LimitOK(namespaceConfigs[ns], bs[ns][x], hs[ns][x], changed[ns])
      <3>1. CASE ns = n /\ x = a
        <4>1. bs[ns][x] = c /\ hs[ns][x] = hh
          BY <2>9, <2>10, <3>1
        <4>2. QED
          BY <2>8, <3>1, <4>1
      <3>2. CASE ~(ns = n /\ x = a)
        <4>1. bs[ns][x] = namespaceBuckets[ns][x] /\ hs[ns][x] = nsAccepted[ns][x]
          BY <2>9, <2>10, <3>2
        <4>2. QED
          BY <2>t, <4>1
      <3>3. QED
        BY <3>1, <3>2
    <2>12. NamespacesOK(namespaceConfigs, bs, hs, changed)
      BY <2>t, <2>9, <2>10, <2>11 DEF NamespacesOK
    <2>13. QED
      BY <2>12 DEF bs, hs
  <1>3. QED
    BY <1>1, <1>2

\* A namespace gets another limit, or none.
LEMMA NamespaceChanges ==
    ASSUME NEW configs, NEW bs, NEW hs, NEW cs, NamespacesOK(configs, bs, hs, cs),
           NEW n \in Namespaces, NEW limit \in Limits \cup {None},
           NEW row \in [Addresses -> Bucket]
    PROVE  NamespacesOK([configs EXCEPT ![n] = limit], [bs EXCEPT ![n] = row],
                        hs, [cs EXCEPT ![n] = 0])
  <1> DEFINE configs2 == [configs EXCEPT ![n] = limit]
             bs2 == [bs EXCEPT ![n] = row]
             cs2 == [cs EXCEPT ![n] = 0]
  <1>1. 0 \in 0..LongAgo
    BY Bounds DEF LongAgo
  <1>2. /\ configs2 \in [Namespaces -> Limits \cup {None}]
        /\ bs2 \in [Namespaces -> [Addresses -> Bucket]]
        /\ hs \in [Namespaces -> [Addresses -> Histories]]
        /\ cs2 \in [Namespaces -> 0..LongAgo]
    BY <1>1 DEF NamespacesOK
  <1>3. ASSUME NEW ns \in Namespaces, NEW a \in Addresses
        PROVE  LimitOK(configs2[ns], bs2[ns][a], hs[ns][a], cs2[ns])
    <2>1. CASE ns = n
      <3>1. configs2[ns] = limit /\ bs2[ns][a] = row[a] /\ cs2[ns] = 0
        BY <2>1 DEF NamespacesOK
      <3>2. row[a] \in Bucket /\ hs[ns][a] \in Histories
        BY <1>2
      <3>3. LimitOK(limit, row[a], hs[ns][a], 0)
        BY <3>2, SinceNever
      <3>4. QED
        BY <3>1, <3>3
    <2>2. CASE ns # n
      <3>1. configs2[ns] = configs[ns] /\ bs2[ns][a] = bs[ns][a] /\ cs2[ns] = cs[ns]
        BY <2>2 DEF NamespacesOK
      <3>2. QED
        BY <3>1 DEF NamespacesOK
    <2>3. QED
      BY <2>1, <2>2
  <1> HIDE DEF configs2, bs2, cs2
  <1>4. NamespacesOK(configs2, bs2, hs, cs2)
    BY <1>2, <1>3 DEF NamespacesOK
  <1>5. QED
    BY <1>4 DEF configs2, bs2, cs2

LEMMA LimitsPurged ==
    ASSUME GlobalOK(buckets, accepted),
           NamespacesOK(namespaceConfigs, namespaceBuckets, nsAccepted, changed)
    PROVE  /\ Purge => GlobalOK(buckets', accepted')
           /\ PurgeNamespaces => NamespacesOK(namespaceConfigs', namespaceBuckets', nsAccepted', changed')
  <1>1. None \in Bucket
    BY DEF Bucket
  <1>2. ASSUME Purge PROVE GlobalOK(buckets', accepted')
    <2>1. /\ buckets' = [a \in Addresses |-> IF Stale(buckets[a]) THEN None ELSE buckets[a]]
          /\ accepted' = accepted
      BY <1>2 DEF Purge
    <2>2. buckets' \in [Addresses -> Bucket]
      BY <1>1, <2>1 DEF GlobalOK
    <2>3. ASSUME NEW a \in Addresses, WindowMs <= PurgeAge
          PROVE  BucketOK(buckets'[a], accepted'[a], WindowMs, MaxRequests)
      <3>1. BucketOK(buckets[a], accepted[a], WindowMs, MaxRequests)
            /\ buckets[a] \in Bucket /\ accepted[a] \in Histories
        BY <2>3 DEF GlobalOK
      <3>2. Stale(buckets[a]) => BucketOK(None, accepted[a], WindowMs, MaxRequests)
        BY <2>3, <3>1, BucketPurged, LimitsAreLimits
      <3>3. buckets'[a] = IF Stale(buckets[a]) THEN None ELSE buckets[a]
        BY <2>1
      <3>4. QED
        BY <2>1, <3>1, <3>2, <3>3
    <2>4. QED
      BY <2>1, <2>2, <2>3 DEF GlobalOK
  <1>3. ASSUME PurgeNamespaces
        PROVE  NamespacesOK(namespaceConfigs', namespaceBuckets', nsAccepted', changed')
    <2>1. /\ namespaceBuckets' =
                [ns \in Namespaces |-> [a \in Addresses |->
                    IF Stale(namespaceBuckets[ns][a]) THEN None ELSE namespaceBuckets[ns][a]]]
          /\ namespaceConfigs' = namespaceConfigs /\ nsAccepted' = nsAccepted
          /\ changed' = changed
      BY <1>3 DEF PurgeNamespaces
    <2>2. namespaceBuckets' \in [Namespaces -> [Addresses -> Bucket]]
      BY <1>1, <2>1 DEF NamespacesOK
    <2>3. ASSUME NEW ns \in Namespaces, NEW a \in Addresses
          PROVE  LimitOK(namespaceConfigs[ns], namespaceBuckets'[ns][a], nsAccepted[ns][a], changed[ns])
      <3> DEFINE limit == namespaceConfigs[ns]
                 b == namespaceBuckets[ns][a]
                 h == nsAccepted[ns][a]
                 c == changed[ns]
                 s == Since(h, c)
      <3>1. /\ LimitOK(limit, b, h, c) /\ b \in Bucket /\ h \in Histories
            /\ limit \in Limits \cup {None} /\ c \in 0..LongAgo
        BY DEF NamespacesOK
      <3>2. namespaceBuckets'[ns][a] = IF Stale(b) THEN None ELSE b
        BY <2>1
      <3> HIDE DEF limit, b, h, c
      <3>s. s \in Histories
        BY <3>1, SinceType
      <3>3. Stale(b) => LimitOK(limit, None, h, c)
        <4>1. SUFFICES ASSUME Stale(b), limit # None, limit.windowMs <= PurgeAge
                       PROVE  BucketOK(None, s, limit.windowMs, limit.maxRequests)
          BY DEF LimitOK
        <4>2. BucketOK(b, s, limit.windowMs, limit.maxRequests)
          BY <3>1, <4>1 DEF LimitOK
        <4>3. IsLimit(limit.windowMs, limit.maxRequests)
          BY <3>1, <4>1, LimitsAreLimits
        <4>4. QED
          BY <3>1, <3>s, <4>1, <4>2, <4>3, BucketPurged
      <3>4. QED
        BY <3>1, <3>2, <3>3 DEF limit, h, c
    <2>4. QED
      BY <2>1, <2>2, <2>3 DEF NamespacesOK
  <1>4. QED
    BY <1>2, <1>3

LEMMA LimitsAge ==
    ASSUME GlobalOK(buckets, accepted),
           NamespacesOK(namespaceConfigs, namespaceBuckets, nsAccepted, changed), Tick
    PROVE  /\ GlobalOK(buckets', accepted')
           /\ NamespacesOK(namespaceConfigs', namespaceBuckets', nsAccepted', changed')
  <1>1. /\ buckets' = [a \in Addresses |-> Older(buckets[a])]
        /\ namespaceBuckets' =
             [ns \in Namespaces |-> [a \in Addresses |-> Older(namespaceBuckets[ns][a])]]
        /\ accepted' = [a \in Addresses |-> Shifted(accepted[a])]
        /\ nsAccepted' = [ns \in Namespaces |-> [a \in Addresses |-> Shifted(nsAccepted[ns][a])]]
        /\ namespaceConfigs' = namespaceConfigs
        /\ changed' = [ns \in Namespaces |-> Min({changed[ns] + 1, LongAgo})]
    BY DEF Tick
  <1>2. \A b \in Bucket : Older(b) \in Bucket
    BY OlderType
  <1>3. \A h \in Histories : Shifted(h) \in Histories
    BY WithinShifts
  <1>4. GlobalOK(buckets', accepted')
    <2>1. buckets' \in [Addresses -> Bucket] /\ accepted' \in [Addresses -> Histories]
      BY <1>1, <1>2, <1>3 DEF GlobalOK
    <2>2. ASSUME NEW a \in Addresses, WindowMs <= PurgeAge
          PROVE  BucketOK(buckets'[a], accepted'[a], WindowMs, MaxRequests)
      <3>1. /\ BucketOK(buckets[a], accepted[a], WindowMs, MaxRequests)
            /\ buckets[a] \in Bucket /\ accepted[a] \in Histories
        BY <2>2 DEF GlobalOK
      <3>2. BucketOK(Older(buckets[a]), Shifted(accepted[a]), WindowMs, MaxRequests)
        BY <3>1, BucketAges, LimitsAreLimits
      <3>3. QED
        BY <1>1, <3>2
    <2>3. QED
      BY <2>1, <2>2 DEF GlobalOK
  <1>5. NamespacesOK(namespaceConfigs', namespaceBuckets', nsAccepted', changed')
    <2>1. /\ namespaceBuckets' \in [Namespaces -> [Addresses -> Bucket]]
          /\ nsAccepted' \in [Namespaces -> [Addresses -> Histories]]
          /\ changed' \in [Namespaces -> 0..LongAgo]
      <3>1. \A ns \in Namespaces : changed[ns] \in 0..LongAgo
        BY DEF NamespacesOK
      <3>2. ASSUME NEW c \in 0..LongAgo PROVE Min({c + 1, LongAgo}) \in 0..LongAgo
        <4> DEFINE none == [age \in 0..MaxWindow |-> 0]
        <4>1. none \in Histories
          BY DEF Histories
        <4> HIDE DEF none
        <4>2. QED
          BY <4>1, SinceShifts
      <3>3. QED
        BY <1>1, <1>2, <1>3, <3>1, <3>2 DEF NamespacesOK
    <2>2. ASSUME NEW ns \in Namespaces, NEW a \in Addresses
          PROVE  LimitOK(namespaceConfigs[ns], namespaceBuckets'[ns][a], nsAccepted'[ns][a], changed'[ns])
      <3> DEFINE limit == namespaceConfigs[ns]
                 b == namespaceBuckets[ns][a]
                 h == nsAccepted[ns][a]
                 c == changed[ns]
                 d == Min({c + 1, LongAgo})
                 s == Since(h, c)
      <3>1. /\ LimitOK(limit, b, h, c) /\ b \in Bucket /\ h \in Histories
            /\ limit \in Limits \cup {None} /\ c \in 0..LongAgo
        BY DEF NamespacesOK
      <3>2. namespaceBuckets'[ns][a] = Older(b) /\ nsAccepted'[ns][a] = Shifted(h)
            /\ changed'[ns] = d
        BY <1>1
      <3> HIDE DEF limit, b, h, c
      <3>s. s \in Histories /\ Since(Shifted(h), d) = Shifted(s)
        BY <3>1, SinceType, SinceShifts
      <3> HIDE DEF d, s
      <3>3. LimitOK(limit, Older(b), Shifted(h), d)
        <4>1. SUFFICES ASSUME limit # None, limit.windowMs <= PurgeAge
                       PROVE  BucketOK(Older(b), Shifted(s), limit.windowMs, limit.maxRequests)
          BY <3>s DEF LimitOK
        <4>2. BucketOK(b, s, limit.windowMs, limit.maxRequests)
          BY <3>1, <4>1 DEF LimitOK, s
        <4>3. IsLimit(limit.windowMs, limit.maxRequests)
          BY <3>1, <4>1, LimitsAreLimits
        <4>4. QED
          BY <3>1, <3>s, <4>2, <4>3, BucketAges
      <3>4. QED
        BY <3>2, <3>3 DEF limit
    <2>3. QED
      BY <1>1, <2>1, <2>2 DEF NamespacesOK
  <1>6. QED
    BY <1>4, <1>5

LEMMA LimitsInit ==
    Init => /\ GlobalOK(buckets, accepted)
            /\ NamespacesOK(namespaceConfigs, namespaceBuckets, nsAccepted, changed)
  <1> SUFFICES ASSUME Init
               PROVE  /\ GlobalOK(buckets, accepted)
                      /\ NamespacesOK(namespaceConfigs, namespaceBuckets, nsAccepted, changed)
    OBVIOUS
  <1> DEFINE zero == [age \in 0..MaxWindow |-> 0]
  <1>1. zero \in Histories /\ None \in Bucket
    BY DEF Histories, Bucket
  <1>2. /\ buckets = [a \in Addresses |-> None]
        /\ namespaceConfigs = [ns \in Namespaces |-> None]
        /\ namespaceBuckets = [ns \in Namespaces |-> [a \in Addresses |-> None]]
        /\ accepted = [a \in Addresses |-> zero]
        /\ nsAccepted = [ns \in Namespaces |-> [a \in Addresses |-> zero]]
        /\ changed = [ns \in Namespaces |-> LongAgo]
    BY DEF Init, NobodyYet
  <1>c. LongAgo \in 0..LongAgo
    BY Bounds DEF LongAgo
  <1>3. BucketOK(None, zero, WindowMs, MaxRequests)
    BY <1>1, LimitsAreLimits, BucketForgets
  <1> HIDE DEF zero
  <1>4. GlobalOK(buckets, accepted)
    BY <1>1, <1>2, <1>3 DEF GlobalOK
  <1>5. NamespacesOK(namespaceConfigs, namespaceBuckets, nsAccepted, changed)
    BY <1>1, <1>2, <1>c DEF NamespacesOK, LimitOK
  <1>6. QED
    BY <1>4, <1>5

\* Every step.
LEMMA LimitsStep ==
    ASSUME GlobalOK(buckets, accepted),
           NamespacesOK(namespaceConfigs, namespaceBuckets, nsAccepted, changed),
           waiting \in [Slots -> Requests \cup {None}], [Next]_vars
    PROVE  /\ GlobalOK(buckets', accepted')
           /\ NamespacesOK(namespaceConfigs', namespaceBuckets', nsAccepted', changed')
  <1> DEFINE Goal == /\ GlobalOK(buckets', accepted')
                     /\ NamespacesOK(namespaceConfigs', namespaceBuckets', nsAccepted', changed')
  <1>n. \A q \in Requests : NamespacesOK(namespaceConfigs, NamespaceCounted(q), NamespaceAccepted(q), changed)
    BY NamespaceCounts
  <1>g. \A q \in Requests : RateLimit(q) => GlobalOK(buckets', accepted')
    BY GlobalCounts
  <1>1. ASSUME UNCHANGED limits PROVE Goal
    BY <1>1 DEF limits
  <1>2. ASSUME NEW q \in Requests, Refuse(q) PROVE Goal
    <2>1. /\ RateLimit(q) /\ ~LetThrough(q)
          /\ namespaceBuckets' = NamespaceCounted(q)
          /\ namespaceConfigs' = namespaceConfigs /\ nsAccepted' = nsAccepted
          /\ changed' = changed
      BY <1>2 DEF Refuse
    <2>2. nsAccepted' = NamespaceAccepted(q)
      BY <2>1 DEF NamespaceAccepted
    <2>3. QED
      BY <1>n, <1>g, <2>1, <2>2
  <1>3. ASSUME NEW q \in Requests, NEW c \in Slots, Await(c, q) PROVE Goal
    <2>1. /\ RateLimit(q)
          /\ namespaceBuckets' = NamespaceCounted(q) /\ nsAccepted' = NamespaceAccepted(q)
          /\ namespaceConfigs' = namespaceConfigs /\ changed' = changed
      BY <1>3 DEF Await
    <2>2. QED
      BY <1>n, <1>g, <2>1
  <1>4. ASSUME NEW q \in Requests, Handle(q) PROVE Goal
    <2>1. RateLimit(q)
      BY <1>4 DEF Handle
    <2>2. CASE RevokeKey(q) \/ Answer(q)
      <3>1. /\ namespaceBuckets' = NamespaceCounted(q) /\ nsAccepted' = NamespaceAccepted(q)
            /\ namespaceConfigs' = namespaceConfigs /\ changed' = changed
        BY <2>2 DEF RevokeKey, Answer
      <3>2. QED
        BY <1>n, <1>g, <2>1, <3>1
    <2>3. CASE RemoveLimit(q)
      <3>1. /\ Is(q, "DELETE", <<"rate-limits", Param>>)
            /\ namespaceConfigs' = [namespaceConfigs EXCEPT ![q.args] = None]
            /\ namespaceBuckets' = [NamespaceCounted(q) EXCEPT ![q.args] = [a \in Addresses |-> None]]
            /\ nsAccepted' = NamespaceAccepted(q)
            /\ changed' = [changed EXCEPT ![q.args] = 0]
        BY <2>3 DEF RemoveLimit
      <3>2. q.args \in Namespaces
        BY <3>1, RequestsAssumption
      <3>3. [a \in Addresses |-> None] \in [Addresses -> Bucket]
        BY DEF Bucket
      <3>4. NamespacesOK(namespaceConfigs', namespaceBuckets', nsAccepted', changed')
        BY <1>n, <3>1, <3>2, <3>3, NamespaceChanges
      <3>5. QED
        BY <1>g, <2>1, <3>4
    <2>4. QED
      BY <1>4, <2>2, <2>3 DEF Handle
  <1>5. ASSUME NEW c \in Slots, ConfigureLimit(c) PROVE Goal
    <2> DEFINE q == waiting[c]
               row == namespaceBuckets[q.args.ns]
    <2>1. /\ q \in Requests /\ q.valid /\ Is(q, "POST", <<"rate-limits">>)
          /\ namespaceConfigs' = [namespaceConfigs EXCEPT ![q.args.ns] = q.args.limit]
          /\ changed' = [ns \in Namespaces |->
               IF namespaceConfigs'[ns] = namespaceConfigs[ns] THEN changed[ns] ELSE 0]
          /\ buckets' = buckets /\ accepted' = accepted /\ namespaceBuckets' = namespaceBuckets
          /\ nsAccepted' = nsAccepted
      BY <1>5 DEF ConfigureLimit
    <2> HIDE DEF q
    <2>2. q.args.ns \in Namespaces /\ q.args.limit \in Limits
      BY <2>1, RequestsAssumption
    <2>3. /\ row \in [Addresses -> Bucket]
          /\ namespaceBuckets = [namespaceBuckets EXCEPT ![q.args.ns] = row]
      BY <2>2 DEF NamespacesOK
    <2> HIDE DEF row
    <2>t. /\ changed \in [Namespaces -> 0..LongAgo]
          /\ namespaceConfigs \in [Namespaces -> Limits \cup {None}]
      BY DEF NamespacesOK
    <2>4. NamespacesOK(namespaceConfigs', namespaceBuckets', nsAccepted', changed')
      <3>1. CASE namespaceConfigs[q.args.ns] = q.args.limit
        <4>1. namespaceConfigs' = namespaceConfigs
          BY <2>1, <2>t, <3>1
        <4>2. changed' = changed
          BY <2>1, <2>t, <4>1
        <4>3. QED
          BY <2>1, <4>1, <4>2
      <3>2. CASE namespaceConfigs[q.args.ns] # q.args.limit
        <4>1. \A ns \in Namespaces :
                 namespaceConfigs'[ns] = namespaceConfigs[ns] <=> ns # q.args.ns
          BY <2>1, <2>2, <2>t, <3>2
        <4>2. changed' = [changed EXCEPT ![q.args.ns] = 0]
          BY <2>1, <2>t, <4>1
        <4>3. NamespacesOK([namespaceConfigs EXCEPT ![q.args.ns] = q.args.limit],
                           [namespaceBuckets EXCEPT ![q.args.ns] = row],
                           nsAccepted, [changed EXCEPT ![q.args.ns] = 0])
          BY <2>2, <2>3, NamespaceChanges
        <4>4. QED
          BY <2>1, <2>3, <4>2, <4>3
      <3>3. QED
        BY <3>1, <3>2
    <2>5. QED
      BY <2>1, <2>4
  <1>6. ASSUME NEW c \in Slots, CreateKey(c) \/ Finish(c) PROVE Goal
    BY <1>1, <1>6 DEF CreateKey, Finish
  <1>7. ASSUME Purge PROVE Goal
    BY <1>7, LimitsPurged DEF Purge
  <1>8. ASSUME PurgeNamespaces PROVE Goal
    BY <1>8, LimitsPurged DEF PurgeNamespaces
  <1>9. ASSUME Tick PROVE Goal
    BY <1>9, LimitsAge
  <1>10. QED
    BY <1>1, <1>2, <1>3, <1>4, <1>5, <1>6, <1>7, <1>8, <1>9 DEF Next, vars

-----------------------------------------------------------------------------
(* Every route that takes a path below "admin" checks the permission.      *)

Elsewhere(r) == "path" \in DOMAIN r /\ r.path[1] \notin {Param, "admin"}
AllElsewhere(s) == (\E T : s \in Seq(T)) /\ \A i \in 1..Len(s) : Elsewhere(s[i])

LEMMA BuiltRoutes ==
    \A p : p[1] \notin {Param, "admin"} =>
        /\ Elsewhere(Get(p)) /\ Elsewhere(Post(p)) /\ Elsewhere(Del(p))
        /\ Elsewhere(Route("PUT", p))
  BY DEF Elsewhere, Get, Post, Del, Route

LEMMA MarkedRoutes ==
    \A r : Elsewhere(r) =>
        /\ Elsewhere(Reads(r)) /\ Elsewhere(Lenient(r)) /\ Elsewhere(Keyed(r))
        /\ \A s : Elsewhere(Needs(s, r))
  BY DEF Elsewhere, Reads, Lenient, Keyed, Needs

LEMMA ConcatAt ==
    ASSUME NEW U, NEW s \in Seq(U), NEW t \in Seq(U)
    PROVE  /\ s \o t \in Seq(U) /\ Len(s) \in Nat /\ Len(s \o t) = Len(s) + Len(t)
           /\ \A i \in 1..Len(s) + Len(t) :
                 (s \o t)[i] = IF i <= Len(s) THEN s[i] ELSE t[i - Len(s)]
  <1>1. Len(s) \in Nat /\ Len(t) \in Nat
    OBVIOUS
  <1>2. /\ s \o t \in Seq(U) /\ Len(s \o t) = Len(s) + Len(t)
        /\ \A i \in 1..Len(s) + Len(t) :
              (s \o t)[i] = IF i <= Len(s) THEN s[i] ELSE t[i - Len(s)]
    BY <1>1, ConcatProperties
  <1>3. QED
    BY <1>1, <1>2

LEMMA ElsewhereConcat ==
    ASSUME NEW s, NEW t, AllElsewhere(s), AllElsewhere(t)
    PROVE  AllElsewhere(s \o t)
  <1>1. PICK S, T : s \in Seq(S) /\ t \in Seq(T)
    BY DEF AllElsewhere
  <1> DEFINE U == S \cup T
  <1>2. s \in Seq(U) /\ t \in Seq(U) /\ Len(s) \in Nat /\ Len(t) \in Nat
    BY <1>1
  <1> HIDE DEF U
  <1>3. /\ s \o t \in Seq(U)
        /\ Len(s \o t) = Len(s) + Len(t)
        /\ \A i \in 1..Len(s) + Len(t) :
              (s \o t)[i] = IF i <= Len(s) THEN s[i] ELSE t[i - Len(s)]
    BY <1>2, ConcatProperties
  <1>4. ASSUME NEW i \in 1..Len(s) + Len(t) PROVE Elsewhere((s \o t)[i])
    <2>1. CASE i <= Len(s)
      <3>1. i \in 1..Len(s)
        BY <1>2, <2>1
      <3>2. QED
        BY <1>3, <2>1, <3>1 DEF AllElsewhere
    <2>2. CASE ~(i <= Len(s))
      <3>1. i - Len(s) \in 1..Len(t)
        BY <1>2, <2>2
      <3>2. QED
        BY <1>3, <2>2, <3>1 DEF AllElsewhere
    <2>3. QED
      BY <2>1, <2>2
  <1>5. QED
    BY <1>3, <1>4 DEF AllElsewhere

LEMMA ElsewhereNeeds ==
    ASSUME NEW s, AllElsewhere(s), NEW service
    PROVE  AllElsewhere([i \in DOMAIN s |-> Needs(service, s[i])])
  <1> DEFINE t == [i \in DOMAIN s |-> Needs(service, s[i])]
             T == {Needs(service, s[i]) : i \in DOMAIN s}
  <1>1. DOMAIN s = 1..Len(s) /\ Len(s) \in Nat
    BY DEF AllElsewhere
  <1>2. t \in Seq(T) /\ Len(t) = Len(s)
    BY <1>1
  <1>3. \A i \in 1..Len(s) : Elsewhere(t[i])
    BY <1>1, MarkedRoutes DEF AllElsewhere
  <1>4. QED
    BY <1>2, <1>3 DEF AllElsewhere

LEMMA HealthElsewhere == AllElsewhere(HealthRoutes)
  <1>1. Len(HealthRoutes) = 3 /\ HealthRoutes \in Seq({HealthRoutes[i] : i \in 1..3})
    BY DEF HealthRoutes
  <1>2. \A i \in 1..3 : Elsewhere(HealthRoutes[i])
    BY BuiltRoutes, MarkedRoutes DEF HealthRoutes, Param
  <1>3. QED
    BY <1>1, <1>2 DEF AllElsewhere

LEMMA CacheElsewhere == AllElsewhere(CacheRoutes)
  <1>1. Len(CacheRoutes) = 4 /\ CacheRoutes \in Seq({CacheRoutes[i] : i \in 1..4})
    BY DEF CacheRoutes
  <1>2. \A i \in 1..4 : Elsewhere(CacheRoutes[i])
    BY BuiltRoutes, MarkedRoutes DEF CacheRoutes, Param
  <1>3. QED
    BY <1>1, <1>2 DEF AllElsewhere

LEMMA ManagementElsewhere == AllElsewhere(ManagementRoutes)
  <1>1. Len(ManagementRoutes) = 10 /\ ManagementRoutes \in Seq({ManagementRoutes[i] : i \in 1..10})
    BY DEF ManagementRoutes
  <1>2. \A i \in 1..10 : Elsewhere(ManagementRoutes[i])
    BY BuiltRoutes, MarkedRoutes DEF ManagementRoutes, Param
  <1>3. QED
    BY <1>1, <1>2 DEF AllElsewhere

LEMMA StorageElsewhere == AllElsewhere(StorageRoutes)
  <1> DEFINE s == <<Keyed(Get(<<"db", Param>>)), Keyed(Reads(Post(<<"db", Param>>))),
                    Keyed(Del(<<"db", Param>>)), Reads(Post(<<"db">>)),
                    Get(<<"db-stats">>), Get(<<"db-keys">>), Post(<<"db-clear">>),
                    Post(<<"db-purge">>)>>
  <1>1. Len(s) = 8 /\ s \in Seq({s[i] : i \in 1..8})
    OBVIOUS
  <1>2. \A i \in 1..8 : Elsewhere(s[i])
    BY BuiltRoutes, MarkedRoutes DEF Param
  <1>3. StorageRoutes = [i \in DOMAIN s |-> Needs("database", s[i])]
    BY DEF StorageRoutes
  <1> HIDE DEF s
  <1>4. AllElsewhere(s)
    BY <1>1, <1>2 DEF AllElsewhere
  <1>5. QED
    BY <1>3, <1>4, ElsewhereNeeds

LEMMA QueryElsewhere == AllElsewhere(QueryRoutes)
  <1> DEFINE s == <<Get(<<"query-cache", "stats">>), Get(<<"query-cache", Param>>),
                    Reads(Post(<<"query-cache">>)),
                    Reads(Post(<<"query-cache", "invalidate">>)),
                    Post(<<"query-cache", "clear">>), Get(<<"db-proxy", "connectors">>),
                    Reads(Post(<<"db-proxy", "register">>)),
                    Reads(Post(<<"db-proxy", "unregister">>)),
                    Reads(Post(<<"db-proxy", "query">>)),
                    Reads(Post(<<"db-proxy", "invalidate">>)),
                    Get(<<"db-proxy", "buffer", "stats">>),
                    Post(<<"db-proxy", "buffer", "flush">>)>>
  <1>1. Len(s) = 12 /\ s \in Seq({s[i] : i \in 1..12})
    OBVIOUS
  <1>2. \A i \in 1..12 : Elsewhere(s[i])
    BY BuiltRoutes, MarkedRoutes DEF Param
  <1>3. QueryRoutes = [i \in DOMAIN s |-> Needs("database", s[i])]
    BY DEF QueryRoutes
  <1> HIDE DEF s
  <1>4. AllElsewhere(s)
    BY <1>1, <1>2 DEF AllElsewhere
  <1>5. QED
    BY <1>3, <1>4, ElsewhereNeeds

LEMMA AtomicElsewhere == AllElsewhere(AtomicRoutes)
  <1>1. Len(AtomicRoutes) = 8 /\ AtomicRoutes \in Seq({AtomicRoutes[i] : i \in 1..8})
    BY DEF AtomicRoutes
  <1>2. \A i \in 1..8 : Elsewhere(AtomicRoutes[i])
    BY BuiltRoutes, MarkedRoutes DEF AtomicRoutes, Param
  <1>3. QED
    BY <1>1, <1>2 DEF AllElsewhere

LEMMA LockElsewhere == AllElsewhere(LockRoutes)
  <1>1. Len(LockRoutes) = 6 /\ LockRoutes \in Seq({LockRoutes[i] : i \in 1..6})
    BY DEF LockRoutes
  <1>2. \A i \in 1..6 : Elsewhere(LockRoutes[i])
    BY BuiltRoutes, MarkedRoutes DEF LockRoutes, Param
  <1>3. QED
    BY <1>1, <1>2 DEF AllElsewhere

LEMMA ReplicationElsewhere == AllElsewhere(ReplicationRoutes)
  <1>1. Len(ReplicationRoutes) = 8 /\ ReplicationRoutes \in Seq({ReplicationRoutes[i] : i \in 1..8})
    BY DEF ReplicationRoutes
  <1>2. \A i \in 1..8 : Elsewhere(ReplicationRoutes[i])
    BY BuiltRoutes, MarkedRoutes DEF ReplicationRoutes, Param
  <1>3. QED
    BY <1>1, <1>2 DEF AllElsewhere

LEMMA LimitElsewhere == AllElsewhere(LimitRoutes)
  <1>1. Len(LimitRoutes) = 4 /\ LimitRoutes \in Seq({LimitRoutes[i] : i \in 1..4})
    BY DEF LimitRoutes
  <1>2. \A i \in 1..4 : Elsewhere(LimitRoutes[i])
    BY BuiltRoutes, MarkedRoutes DEF LimitRoutes, Param
  <1>3. QED
    BY <1>1, <1>2 DEF AllElsewhere

\* The routes before AdminRoutes.
OtherRoutes ==
    HealthRoutes \o CacheRoutes \o ManagementRoutes \o StorageRoutes \o QueryRoutes
        \o AtomicRoutes \o LockRoutes \o ReplicationRoutes \o LimitRoutes

LEMMA OthersElsewhere == AllElsewhere(OtherRoutes)
  <1>1. AllElsewhere(HealthRoutes \o CacheRoutes)
    BY HealthElsewhere, CacheElsewhere, ElsewhereConcat
  <1>2. AllElsewhere(HealthRoutes \o CacheRoutes \o ManagementRoutes)
    BY <1>1, ManagementElsewhere, ElsewhereConcat
  <1>3. AllElsewhere(HealthRoutes \o CacheRoutes \o ManagementRoutes \o StorageRoutes)
    BY <1>2, StorageElsewhere, ElsewhereConcat
  <1>4. AllElsewhere(HealthRoutes \o CacheRoutes \o ManagementRoutes \o StorageRoutes
                     \o QueryRoutes)
    BY <1>3, QueryElsewhere, ElsewhereConcat
  <1>5. AllElsewhere(HealthRoutes \o CacheRoutes \o ManagementRoutes \o StorageRoutes
                     \o QueryRoutes \o AtomicRoutes)
    BY <1>4, AtomicElsewhere, ElsewhereConcat
  <1>6. AllElsewhere(HealthRoutes \o CacheRoutes \o ManagementRoutes \o StorageRoutes
                     \o QueryRoutes \o AtomicRoutes \o LockRoutes)
    BY <1>5, LockElsewhere, ElsewhereConcat
  <1>7. AllElsewhere(HealthRoutes \o CacheRoutes \o ManagementRoutes \o StorageRoutes
                     \o QueryRoutes \o AtomicRoutes \o LockRoutes \o ReplicationRoutes)
    BY <1>6, ReplicationElsewhere, ElsewhereConcat
  <1>8. QED
    BY <1>7, LimitElsewhere, ElsewhereConcat DEF OtherRoutes

\* A route begins elsewhere or is one of the administration.
LEMMA RoutesSplit ==
    ASSUME NEW i \in DOMAIN Routes
    PROVE  i \in Nat /\ (Elsewhere(Routes[i]) \/ IsAdmin(i))
  <1> DEFINE F == OtherRoutes
             A == AdminRoutes
             M == <<Get(<<"metrics">>)>>
  <1>1. AllElsewhere(F)
    BY OthersElsewhere
  <1>2. PICK S : F \in Seq(S)
    BY <1>1 DEF AllElsewhere
  <1>3. A \in Seq({A[x] : x \in DOMAIN A}) /\ Len(A) = 4 /\ DOMAIN A = 1..4
    BY DEF AdminRoutes
  <1>4. M \in Seq({M[1]}) /\ Len(M) = 1 /\ Elsewhere(M[1])
    BY BuiltRoutes DEF Param
  <1>5. Routes = (F \o A) \o M
    BY DEF Routes, OtherRoutes
  <1> DEFINE U == S \cup {A[x] : x \in DOMAIN A} \cup {M[1]}
  <1>6. F \in Seq(U) /\ A \in Seq(U) /\ M \in Seq(U) /\ Len(F) \in Nat
    BY <1>2, <1>3, <1>4
  <1> HIDE DEF U, F, A, M
  <1>7. /\ F \o A \in Seq(U) /\ Len(F \o A) = Len(F) + 4
        /\ \A x \in 1..Len(F) + 4 : (F \o A)[x] = IF x <= Len(F) THEN F[x] ELSE A[x - Len(F)]
    <2>1. Len(A) = 4
      BY <1>3
    <2>2. /\ F \o A \in Seq(U) /\ Len(F \o A) = Len(F) + Len(A)
          /\ \A x \in 1..Len(F) + Len(A) :
                (F \o A)[x] = IF x <= Len(F) THEN F[x] ELSE A[x - Len(F)]
      BY ONLY <1>6, ConcatAt
    <2>3. QED
      BY <2>1, <2>2
  <1>8. /\ Routes \in Seq(U) /\ Len(Routes) = Len(F) + 5
        /\ \A x \in 1..Len(F) + 5 :
              Routes[x] = IF x <= Len(F) + 4 THEN (F \o A)[x] ELSE M[x - (Len(F) + 4)]
    <2>1. /\ (F \o A) \o M \in Seq(U)
          /\ Len((F \o A) \o M) = (Len(F) + 4) + 1
          /\ \A x \in 1..(Len(F) + 4) + 1 :
               ((F \o A) \o M)[x] = IF x <= Len(F) + 4 THEN (F \o A)[x] ELSE M[x - (Len(F) + 4)]
      <3> DEFINE G == F \o A
      <3>1. G \in Seq(U) /\ M \in Seq(U) /\ Len(M) = 1 /\ Len(G) = Len(F) + 4
        BY <1>4, <1>6, <1>7
      <3> HIDE DEF G
      <3>2. /\ G \o M \in Seq(U)
            /\ Len(G \o M) = Len(G) + 1
            /\ \A x \in 1..Len(G) + 1 : (G \o M)[x] = IF x <= Len(G) THEN G[x] ELSE M[x - Len(G)]
        <4>1. /\ G \o M \in Seq(U) /\ Len(G \o M) = Len(G) + Len(M)
              /\ \A x \in 1..Len(G) + Len(M) :
                    (G \o M)[x] = IF x <= Len(G) THEN G[x] ELSE M[x - Len(G)]
          BY ONLY <3>1, ConcatAt
        <4>2. QED
          BY <3>1, <4>1
      <3>3. QED
        BY <3>1, <3>2 DEF G
    <2>2. (Len(F) + 4) + 1 = Len(F) + 5
      BY <1>6
    <2>3. QED
      BY <1>5, <2>1, <2>2
  <1>9. i \in 1..Len(F) + 5
    BY <1>8
  <1>10. CASE i <= Len(F)
    <2>1. Routes[i] = F[i] /\ i \in 1..Len(F)
      BY <1>6, <1>7, <1>8, <1>9, <1>10
    <2>2. QED
      BY <2>1, <1>1 DEF AllElsewhere
  <1>11. CASE ~(i <= Len(F)) /\ i <= Len(F) + 4
    <2>1. Routes[i] = A[i - Len(F)] /\ i - Len(F) \in 1..4
      BY <1>6, <1>7, <1>8, <1>9, <1>11
    <2>2. QED
      BY <2>1, <1>3 DEF IsAdmin, A, Range
  <1>12. CASE ~(i <= Len(F) + 4)
    <2>1. Routes[i] = M[1]
      <3>1. i - (Len(F) + 4) = 1
        BY <1>6, <1>9, <1>12
      <3>2. QED
        BY <1>8, <1>9, <1>12, <3>1
    <2>2. QED
      BY <2>1, <1>4
  <1>13. QED
    BY <1>6, <1>9, <1>10, <1>11, <1>12

LEMMA AdminKeysChecked ==
    ASSUME NEW q \in Requests, Is(q, "POST", <<"admin", "keys">>), match(q.method, q.path) # 0
    PROVE  IsAdmin(match(q.method, q.path)) /\ q.path[1] # "health"
  <1> DEFINE found == Matching(q.method, q.path)
             i == match(q.method, q.path)
  <1>1. q.path \in Seq(STRING) /\ Len(q.path) = 2 /\ DOMAIN q.path = 1..2 /\ q.path[1] = "admin"
    <2>1. q.path \in Seq(STRING)
      BY RequestsAssumption
    <2>2. Len(q.path) = 2 /\ DOMAIN q.path = 1..2
      BY <2>1 DEF Is, matchPath
    <2>3. 1 \in 1..2
      OBVIOUS
    <2>4. <<"admin", "keys">>[1] \in {Param, q.path[1]}
      BY <2>2, <2>3 DEF Is, matchPath
    <2>5. <<"admin", "keys">>[1] = "admin" /\ "admin" # Param
      BY DEF Param
    <2>6. QED
      BY <2>1, <2>2, <2>4, <2>5
  <1>2. i \in found
    <2>1. found # {}
      BY DEF match
    <2>2. found \subseteq Nat
      BY RoutesSplit DEF Matching
    <2>3. \E x \in found : \A y \in found : x <= y
      <3> HIDE DEF found
      <3>1. QED
        BY <2>1, <2>2, LeastNumber
    <2>4. QED
      BY <2>1, <2>3 DEF match
  <1>3. i \in DOMAIN Routes /\ matchPath(Routes[i].path, q.path)
    BY <1>2 DEF Matching
  <1>4. Routes[i].path[1] \in {Param, "admin"}
    <2> HIDE DEF i
    <2>1. 1 \in DOMAIN q.path
      BY <1>1
    <2>2. QED
      BY <1>1, <1>3, <2>1 DEF matchPath
  <1>5. QED
    BY <1>1, <1>3, <1>4, RoutesSplit DEF Elsewhere

-----------------------------------------------------------------------------
(* Keys.                                                                   *)

KeysTypeOK ==
    /\ api_keys \in [Keys -> APIKey \cup {None}]
    /\ waiting \in [Slots -> Requests \cup {None}]

\* A key stays what it is, so that what let its request in still holds when
\* the body is there.
MayCreate(x) == x = Token \/ (x \in Keys /\ api_keys[x] # None /\ api_keys[x].admin)

CreationsOK ==
    HasToken /\ HasRBAC =>
        /\ \A k \in Keys : api_keys[k] # None => MayCreate(api_keys[k].by)
        /\ \A c \in Slots : waiting[c] # None /\ Is(waiting[c], "POST", <<"admin", "keys">>) =>
               MayCreate(waiting[c].credential)

LEMMA KeyIsNotNone == ASSUME NEW k \in APIKey PROVE k # None
  BY NoneAssumption

\* The two ways in which a key is changed.
LEMMA KeyRevoked ==
    ASSUME NEW key \in APIKey
    PROVE  /\ [key EXCEPT !.active = FALSE] \in APIKey
           /\ [key EXCEPT !.active = FALSE].by = key.by
           /\ [key EXCEPT !.active = FALSE].admin = key.admin
  BY DEF APIKey

LEMMA KeyAged ==
    ASSUME NEW key \in APIKey, key.left # None
    PROVE  /\ [key EXCEPT !.left = @ - 1] \in APIKey
           /\ [key EXCEPT !.left = @ - 1].by = key.by
           /\ [key EXCEPT !.left = @ - 1].admin = key.admin
  <1>1. key.left \in Int
    BY DEF APIKey
  <1>2. \A n \in Int : n - 1 \in Int
    OBVIOUS
  <1>3. QED
    BY <1>1, <1>2 DEF APIKey

LEMMA RequestIsNotNone == ASSUME NEW q \in Requests PROVE q # None
  BY NoneAssumption

\* Whoever is let into the handler that creates keys may create one.
LEMMA CreatorsMay ==
    ASSUME NEW q \in Requests, HasToken, HasRBAC, Arrives(q), Waits(q),
           Is(q, "POST", <<"admin", "keys">>)
    PROVE  MayCreate(q.credential)
  <1>1. match(q.method, q.path) # 0 /\ (IsAdmin(match(q.method, q.path)) => MayAdmin(q.credential))
    <2>1. RouteOf[q] = match(q.method, q.path)
      BY DEF RouteOf
    <2>2. RouteOf[q] # 0 /\ (IsAdmin(RouteOf[q]) => MayAdmin(q.credential))
      BY DEF Waits, Proceeds
    <2>3. QED
      BY ONLY <2>1, <2>2
  <1>2. MayAdmin(q.credential) /\ q.path[1] # "health"
    BY <1>1, AdminKeysChecked
  <1>3. q.credential = Token \/ ValidKey(q.credential)
    BY <1>2 DEF Arrives, Authenticated
  <1>4. QED
    BY <1>2, <1>3 DEF MayCreate, MayAdmin, ValidKey

\* Revocation and time leave a key's permissions and its creator alone.
LEMMA KeysKept ==
    ASSUME KeysTypeOK,
           \/ UNCHANGED api_keys
           \/ Tick
           \/ \E q \in Requests : RevokeKey(q)
    PROVE  /\ api_keys' \in [Keys -> APIKey \cup {None}]
           /\ \A k \in Keys : /\ api_keys'[k] = None <=> api_keys[k] = None
                              /\ api_keys[k] # None => /\ api_keys'[k].by = api_keys[k].by
                                                       /\ api_keys'[k].admin = api_keys[k].admin
  <1> DEFINE Kept(k) == /\ api_keys'[k] \in APIKey \cup {None}
                        /\ api_keys'[k] = None <=> api_keys[k] = None
                        /\ api_keys[k] # None => /\ api_keys'[k].by = api_keys[k].by
                                                 /\ api_keys'[k].admin = api_keys[k].admin
  <1>k. \A k \in Keys : api_keys[k] # None => api_keys[k] \in APIKey
    BY DEF KeysTypeOK
  <1>1. ASSUME UNCHANGED api_keys, NEW k \in Keys PROVE Kept(k)
    BY <1>1 DEF KeysTypeOK
  <1>2. ASSUME Tick, NEW k \in Keys PROVE Kept(k)
    <2>1. api_keys'[k] = IF api_keys[k] # None /\ api_keys[k].left \notin {None, -1}
                         THEN [api_keys[k] EXCEPT !.left = @ - 1] ELSE api_keys[k]
      BY <1>2 DEF Tick
    <2>2. CASE api_keys[k] # None /\ api_keys[k].left \notin {None, -1}
      <3>1. api_keys[k] \in APIKey /\ api_keys[k].left # None
        BY <1>k, <2>2
      <3>2. QED
        BY <2>1, <2>2, <3>1, KeyAged, KeyIsNotNone
    <2>3. CASE ~(api_keys[k] # None /\ api_keys[k].left \notin {None, -1})
      BY <2>1, <2>3 DEF KeysTypeOK
    <2>4. QED
      BY <2>2, <2>3
  <1>3. ASSUME NEW q \in Requests, RevokeKey(q), NEW k \in Keys PROVE Kept(k)
    <2>1. api_keys'[k] = IF k = q.args /\ api_keys[k] # None
                         THEN [api_keys[k] EXCEPT !.active = FALSE] ELSE api_keys[k]
      BY <1>3 DEF RevokeKey
    <2>2. CASE k = q.args /\ api_keys[k] # None
      <3>1. api_keys[k] \in APIKey
        BY <1>k, <2>2
      <3>2. QED
        BY <2>1, <2>2, <3>1, KeyRevoked, KeyIsNotNone
    <2>3. CASE ~(k = q.args /\ api_keys[k] # None)
      BY <2>1, <2>3 DEF KeysTypeOK
    <2>4. QED
      BY <2>2, <2>3
  <1>4. \A k \in Keys : Kept(k)
    BY <1>1, <1>2, <1>3
  <1>5. \E f : api_keys' = [k \in Keys |-> f[k]]
    <2>1. CASE UNCHANGED api_keys
      BY <2>1 DEF KeysTypeOK
    <2>2. CASE Tick
      <3> DEFINE f == [k \in Keys |->
                         IF api_keys[k] # None /\ api_keys[k].left \notin {None, -1}
                         THEN [api_keys[k] EXCEPT !.left = @ - 1] ELSE api_keys[k]]
      <3>1. api_keys' = f
        BY <2>2 DEF Tick
      <3>2. f = [k \in Keys |-> f[k]]
        OBVIOUS
      <3> HIDE DEF f
      <3>3. QED
        BY <3>1, <3>2
    <2>3. CASE \E q \in Requests : RevokeKey(q)
      <3>1. PICK q \in Requests : RevokeKey(q)
        BY <2>3
      <3> DEFINE f == [k \in Keys |-> IF k = q.args /\ api_keys[k] # None
                                      THEN [api_keys[k] EXCEPT !.active = FALSE]
                                      ELSE api_keys[k]]
      <3>2. api_keys' = f
        BY <3>1 DEF RevokeKey
      <3>3. f = [k \in Keys |-> f[k]]
        OBVIOUS
      <3> HIDE DEF f
      <3>4. QED
        BY <3>2, <3>3
    <2>4. QED
      BY <2>1, <2>2, <2>3
  <1>6. api_keys' \in [Keys -> APIKey \cup {None}]
    BY <1>4, <1>5
  <1>7. QED
    BY <1>4, <1>6

\* Steps that create no key: requests may begin to wait, or cease to.
LEMMA CreationsKept ==
    ASSUME KeysTypeOK, CreationsOK,
           \/ UNCHANGED api_keys
           \/ Tick
           \/ \E q \in Requests : RevokeKey(q),
           waiting' \in [Slots -> Requests \cup {None}],
           \A c \in Slots :
               \/ waiting'[c] \in {None, waiting[c]}
               \/ /\ waiting'[c] \in Requests
                  /\ Arrives(waiting'[c]) /\ Waits(waiting'[c])
    PROVE  KeysTypeOK' /\ CreationsOK'
  <1>1. /\ api_keys' \in [Keys -> APIKey \cup {None}]
        /\ \A k \in Keys : /\ api_keys'[k] = None <=> api_keys[k] = None
                           /\ api_keys[k] # None => /\ api_keys'[k].by = api_keys[k].by
                                                    /\ api_keys'[k].admin = api_keys[k].admin
    BY KeysKept
  <1>2. KeysTypeOK'
    BY <1>1 DEF KeysTypeOK
  <1>3. \A x : MayCreate(x) => MayCreate(x)'
    BY <1>1 DEF MayCreate
  <1>4. CreationsOK'
    <2>1. SUFFICES ASSUME HasToken, HasRBAC
                   PROVE  /\ \A k \in Keys : api_keys'[k] # None => MayCreate(api_keys[k].by)'
                          /\ \A c \in Slots :
                                waiting'[c] # None /\ Is(waiting'[c], "POST", <<"admin", "keys">>) =>
                                    MayCreate(waiting[c].credential)'
      BY DEF CreationsOK
    <2>2. ASSUME NEW k \in Keys, api_keys'[k] # None PROVE MayCreate(api_keys[k].by)'
      <3>1. api_keys[k] # None /\ api_keys'[k].by = api_keys[k].by
        BY <1>1, <2>2
      <3>2. MayCreate(api_keys[k].by)
        BY <2>1, <3>1 DEF CreationsOK
      <3>3. QED
        BY <1>1, <3>1, <3>2 DEF MayCreate
    <2>3. ASSUME NEW c \in Slots, waiting'[c] # None,
                 Is(waiting'[c], "POST", <<"admin", "keys">>)
          PROVE  MayCreate(waiting[c].credential)'
      <3>1. MayCreate(waiting'[c].credential)
        <4>1. CASE waiting'[c] \in {None, waiting[c]}
          BY <2>1, <2>3, <4>1 DEF CreationsOK
        <4>2. CASE waiting'[c] \in Requests /\ Arrives(waiting'[c]) /\ Waits(waiting'[c])
          BY <2>1, <2>3, <4>2, CreatorsMay
        <4>3. QED
          BY <4>1, <4>2
      <3>2. QED
        BY <1>1, <3>1 DEF MayCreate
    <2>4. QED
      BY <2>2, <2>3
  <1>5. QED
    BY <1>2, <1>4

LEMMA CreationsCreate ==
    ASSUME KeysTypeOK, CreationsOK, NEW c \in Slots, CreateKey(c)
    PROVE  KeysTypeOK' /\ CreationsOK'
  <1> DEFINE q == waiting[c]
             key == [admin |-> q.args.admin, active |-> TRUE, left |-> q.args.left,
                     by |-> q.credential]
  <1>1. PICK k \in Keys : api_keys[k] = None /\ api_keys' = [api_keys EXCEPT ![k] = key]
    BY DEF CreateKey
  <1>2. /\ q \in Requests /\ q # None /\ q.valid /\ Is(q, "POST", <<"admin", "keys">>)
        /\ waiting' = [waiting EXCEPT ![c] = None]
    BY DEF CreateKey, KeysTypeOK
  <1>3. key \in APIKey
    <2> HIDE DEF q
    <2>1. q.args.admin \in BOOLEAN /\ q.args.left \in Int \cup {None} /\ q.credential \in Credentials
      BY <1>2, RequestsAssumption
    <2>2. QED
      BY <2>1 DEF APIKey
  <1>4. key # None /\ key.by = q.credential
    BY <1>3, KeyIsNotNone
  <1>c. HasToken /\ HasRBAC => MayCreate(q.credential)
    BY <1>2 DEF CreationsOK
  <1> HIDE DEF key, q
  <1>5. /\ api_keys' \in [Keys -> APIKey \cup {None}]
        /\ waiting' \in [Slots -> Requests \cup {None}]
        /\ \A x \in Keys : api_keys'[x] = IF x = k THEN key ELSE api_keys[x]
        /\ \A x \in Slots : waiting'[x] = IF x = c THEN None ELSE waiting[x]
    BY <1>1, <1>2, <1>3 DEF KeysTypeOK
  <1>6. \A x : MayCreate(x) => x = Token \/ (x \in Keys /\ api_keys'[x] # None /\ api_keys'[x].admin)
    BY <1>1, <1>5 DEF MayCreate
  <1>7. CreationsOK'
    <2>1. SUFFICES ASSUME HasToken, HasRBAC
                   PROVE  /\ \A x \in Keys : api_keys'[x] # None => MayCreate(api_keys[x].by)'
                          /\ \A s \in Slots :
                                waiting'[s] # None /\ Is(waiting'[s], "POST", <<"admin", "keys">>) =>
                                    MayCreate(waiting[s].credential)'
      BY DEF CreationsOK
    <2>2. ASSUME NEW x \in Keys, api_keys'[x] # None PROVE MayCreate(api_keys[x].by)'
      <3>1. MayCreate(api_keys'[x].by)
        <4>1. CASE x = k
          BY <1>4, <1>5, <1>c, <2>1, <4>1
        <4>2. CASE x # k
          BY <1>5, <2>1, <2>2, <4>2 DEF CreationsOK
        <4>3. QED
          BY <4>1, <4>2
      <3>2. QED
        BY <1>6, <3>1 DEF MayCreate
    <2>3. ASSUME NEW s \in Slots, waiting'[s] # None,
                 Is(waiting'[s], "POST", <<"admin", "keys">>)
          PROVE  MayCreate(waiting[s].credential)'
      <3>1. waiting'[s] = waiting[s]
        BY <1>5, <2>3
      <3>2. MayCreate(waiting'[s].credential)
        BY <2>1, <2>3, <3>1 DEF CreationsOK
      <3>3. QED
        BY <1>6, <3>2 DEF MayCreate
    <2>4. QED
      BY <2>2, <2>3
  <1>8. QED
    BY <1>5, <1>7 DEF KeysTypeOK

LEMMA KeysStep ==
    ASSUME KeysTypeOK, CreationsOK, [Next]_vars
    PROVE  KeysTypeOK' /\ CreationsOK'
  <1> DEFINE Goal == KeysTypeOK' /\ CreationsOK'
  <1>1. ASSUME \/ UNCHANGED api_keys
               \/ Tick
               \/ \E q \in Requests : RevokeKey(q),
               UNCHANGED waiting
        PROVE  Goal
    <2>1. \A c \in Slots : waiting'[c] \in {None, waiting[c]}
      BY <1>1
    <2>2. waiting' \in [Slots -> Requests \cup {None}]
      BY <1>1 DEF KeysTypeOK
    <2>3. QED
      BY <1>1, <2>1, <2>2, CreationsKept
  <1>2. ASSUME NEW c \in Slots, NEW q \in Requests, Await(c, q) PROVE Goal
    <2>1. /\ Arrives(q) /\ Waits(q) /\ waiting' = [waiting EXCEPT ![c] = q]
          /\ UNCHANGED api_keys
      BY <1>2 DEF Await
    <2>2. /\ waiting' \in [Slots -> Requests \cup {None}]
          /\ \A x \in Slots : waiting'[x] = IF x = c THEN q ELSE waiting[x]
      BY <2>1 DEF KeysTypeOK
    <2>3. QED
      BY <2>1, <2>2, CreationsKept
  <1>3. ASSUME NEW c \in Slots, waiting' = [waiting EXCEPT ![c] = None], UNCHANGED api_keys
        PROVE  Goal
    <2>1. /\ waiting' \in [Slots -> Requests \cup {None}]
          /\ \A x \in Slots : waiting'[x] \in {None, waiting[x]}
      BY <1>3 DEF KeysTypeOK
    <2>2. QED
      BY <1>3, <2>1, CreationsKept
  <1>4. CASE UNCHANGED vars
    BY <1>1, <1>4 DEF vars
  <1>5. CASE \E q \in Requests : Refuse(q)
    BY <1>1, <1>5 DEF Refuse
  <1>6. ASSUME NEW q \in Requests, Handle(q) PROVE Goal
    <2>1. UNCHANGED waiting /\ (RevokeKey(q) \/ UNCHANGED api_keys)
      BY <1>6 DEF Handle, RemoveLimit, Answer
    <2>2. QED
      BY <1>1, <2>1
  <1>7. ASSUME NEW c \in Slots, CreateKey(c) \/ ConfigureLimit(c) \/ Finish(c) PROVE Goal
    <2>1. CASE CreateKey(c)
      BY <2>1, CreationsCreate
    <2>2. CASE ConfigureLimit(c) \/ Finish(c)
      BY <1>3, <2>2 DEF ConfigureLimit, Finish
    <2>3. QED
      BY <1>7, <2>1, <2>2
  <1>8. CASE Purge \/ PurgeNamespaces
    BY <1>1, <1>8 DEF Purge, PurgeNamespaces
  <1>9. CASE Tick
    <2>1. UNCHANGED waiting
      BY <1>9 DEF Tick
    <2>2. QED
      BY <1>1, <1>9, <2>1
  <1>10. QED
    BY <1>2, <1>4, <1>5, <1>6, <1>7, <1>8, <1>9 DEF Next

-----------------------------------------------------------------------------
(* The theorems.                                                           *)

IInv ==
    /\ GlobalOK(buckets, accepted)
    /\ NamespacesOK(namespaceConfigs, namespaceBuckets, nsAccepted, changed)
    /\ KeysTypeOK /\ CreationsOK

LEMMA Inductive == Spec => []IInv
  <1>1. Init => IInv
    <2> SUFFICES ASSUME Init PROVE IInv
      OBVIOUS
    <2>1. /\ GlobalOK(buckets, accepted)
          /\ NamespacesOK(namespaceConfigs, namespaceBuckets, nsAccepted, changed)
      BY LimitsInit
    <2>2. KeysTypeOK /\ CreationsOK
      BY DEF Init, KeysTypeOK, CreationsOK
    <2>3. QED
      BY <2>1, <2>2 DEF IInv
  <1>2. IInv /\ [Next]_vars => IInv'
    <2> SUFFICES ASSUME IInv, [Next]_vars PROVE IInv'
      OBVIOUS
    <2>1. /\ GlobalOK(buckets', accepted')
          /\ NamespacesOK(namespaceConfigs', namespaceBuckets', nsAccepted', changed')
      BY LimitsStep DEF IInv, KeysTypeOK
    <2>2. KeysTypeOK' /\ CreationsOK'
      BY KeysStep DEF IInv
    <2>3. GlobalOK(buckets, accepted)' /\ NamespacesOK(namespaceConfigs, namespaceBuckets, nsAccepted, changed)'
      BY <2>1 DEF GlobalOK, NamespacesOK
    <2>4. QED
      BY <2>2, <2>3 DEF IInv
  <1>3. QED
    BY <1>1, <1>2, PTL DEF Spec

\* No address is let through more than twice the limit in any interval of the
\* window's length, by the global limit (rateLimit) or by the namespace's
\* (namespaceRateLimit) if it did not change in that interval, in whatever
\* order buckets are counted, purged and reset and limits are configured and
\* removed.  A limit that changes, or is removed and set again, starts anew.
THEOREM RateStaysBounded == Spec => []RateIsBounded
  <1>1. IInv => RateIsBounded
    <2> SUFFICES ASSUME IInv PROVE RateIsBounded
      OBVIOUS
    <2>1. TypeOK
      BY DEF IInv, GlobalOK, NamespacesOK, KeysTypeOK, TypeOK
    <2>2. ASSUME WindowMs <= PurgeAge, NEW a \in Addresses
          PROVE  AcceptedWithin(accepted[a], WindowMs) <= 2 * MaxRequests
      <3>1. /\ BucketOK(buckets[a], accepted[a], WindowMs, MaxRequests)
            /\ buckets[a] \in Bucket /\ accepted[a] \in Histories
        BY <2>2 DEF IInv, GlobalOK
      <3>2. QED
        BY <3>1, BucketBounds, LimitsAreLimits
    <2>3. ASSUME NEW ns \in Namespaces, NEW a \in Addresses, namespaceConfigs[ns] # None,
                 namespaceConfigs[ns].windowMs <= PurgeAge,
                 changed[ns] > namespaceConfigs[ns].windowMs
          PROVE  AcceptedWithin(nsAccepted[ns][a], namespaceConfigs[ns].windowMs)
                     <= 2 * namespaceConfigs[ns].maxRequests
      <3> DEFINE limit == namespaceConfigs[ns]
                 b == namespaceBuckets[ns][a]
                 h == nsAccepted[ns][a]
                 c == changed[ns]
                 s == Since(h, c)
      <3>1. /\ limit \in Limits /\ b \in Bucket /\ h \in Histories /\ c \in 0..LongAgo
            /\ BucketOK(b, s, limit.windowMs, limit.maxRequests) /\ c > limit.windowMs
        BY <2>3 DEF IInv, NamespacesOK, LimitOK
      <3> HIDE DEF limit, b, h, c
      <3>4. s \in Histories /\ c \in Nat
        BY <3>1, SinceType
      <3>5. IsLimit(limit.windowMs, limit.maxRequests)
        BY <3>1, LimitsAreLimits
      <3>6. limit.windowMs \in 0..MaxWindow /\ limit.windowMs < c
        BY <3>1, <3>4, <3>5, Bounds DEF IsLimit
      <3>7. AcceptedWithin(s, limit.windowMs) = AcceptedWithin(h, limit.windowMs)
        BY <3>1, <3>6, SinceWithin
      <3> HIDE DEF s
      <3>2. AcceptedWithin(h, limit.windowMs) <= 2 * limit.maxRequests
        BY <3>1, <3>4, <3>5, <3>7, BucketBounds
      <3>3. QED
        BY <3>2 DEF limit, h
    <2>4. QED
      BY <2>1, <2>2, <2>3 DEF RateIsBounded
  <1>2. QED
    BY <1>1, Inductive, PTL

\* With a token and API keys, every key was created with the token or with a
\* key that may administrate (createKey behind checkPermission), whatever was
\* revoked or expired while the request waited for its body.
THEOREM KeysStayFromAdmins == Spec => []KeysComeFromAdmins
  <1>1. IInv => KeysComeFromAdmins
    BY DEF IInv, CreationsOK, MayCreate, KeysComeFromAdmins
  <1>2. QED
    BY <1>1, Inductive, PTL
=============================================================================
