------------------------- MODULE LinkedCache_proofs -------------------------
(***************************************************************************)
(* The pointers of cache.zig are a doubly linked list of the entries of    *)
(* the map after every iteration of every loop, and the engine with its    *)
(* pointers and loops implements CacheEngine, for all constants.           *)
(***************************************************************************)
EXTENDS LinkedCache, CacheOps_proofs

-----------------------------------------------------------------------------
(* The pointer surgery.  The entries of the list stand in a row with NULL  *)
(* at either end, so that the branches of the code for the head and the    *)
(* tail need no case of their own.                                         *)

Row(a, N) ==
    /\ N \in Nat
    /\ a[0] = NULL /\ a[N + 1] = NULL
    /\ \A n \in 1..N : a[n] \in Keys /\ a[n] # NULL
    /\ \A n \in 1..N, m \in 0..(N + 1) : a[m] = a[n] => m = n

Chained(a, N, l) ==
    /\ l.head = a[1]
    /\ l.tail = a[N]
    /\ \A n \in 1..N : l.prev[a[n]] = a[n - 1] /\ l.next[a[n]] = a[n + 1]

RowOf(s) == [n \in 0..(Len(s) + 1) |-> IF n \in 1..Len(s) THEN s[n] ELSE NULL]

\* The two ways to say what the pointers represent.
LEMMA RowRepresents ==
    ASSUME NEW l, NEW s \in Seq(Keys), Distinct(s)
    PROVE  /\ Row(RowOf(s), Len(s))
           /\ Chained(RowOf(s), Len(s), l) <=> Represents(s, l, ToSet(s))
  <1> DEFINE N == Len(s)
             a == RowOf(s)
  <1>1. /\ DOMAIN s = 1..N /\ N \in Nat
        /\ \A n \in 1..N : s[n] \in Keys /\ s[n] # NULL
        /\ \A m, n \in 1..N : s[m] = s[n] => m = n
        /\ s = << >> <=> N = 0
    BY NullAssumption DEF Distinct
  <1>2. \A n \in 0..(N + 1) : a[n] = IF n \in 1..N THEN s[n] ELSE NULL
    BY DEF RowOf
  <1> HIDE DEF a, N
  <1>3. Row(a, N)
    BY <1>1, <1>2 DEF Row
  <1>4. /\ a[1] = IF N = 0 THEN NULL ELSE s[1]
        /\ a[N] = IF N = 0 THEN NULL ELSE s[N]
    BY <1>1, <1>2
  <1>5. \A n \in 1..N : /\ a[n] = s[n]
                        /\ a[n - 1] = IF n = 1 THEN NULL ELSE s[n - 1]
                        /\ a[n + 1] = IF n = N THEN NULL ELSE s[n + 1]
    BY <1>1, <1>2
  <1>6. /\ l.head = a[1] <=> l.head = IF s = << >> THEN NULL ELSE s[1]
        /\ l.tail = a[N] <=> l.tail = IF s = << >> THEN NULL ELSE s[N]
    BY <1>1, <1>4
  <1>7. (\A n \in 1..N : l.prev[a[n]] = a[n - 1] /\ l.next[a[n]] = a[n + 1])
            <=> \A n \in DOMAIN s :
                   /\ l.prev[s[n]] = IF n = 1 THEN NULL ELSE s[n - 1]
                   /\ l.next[s[n]] = IF n = N THEN NULL ELSE s[n + 1]
    <2>1. \A n \in 1..N :
             /\ l.prev[a[n]] = a[n - 1]
                  <=> l.prev[s[n]] = IF n = 1 THEN NULL ELSE s[n - 1]
             /\ l.next[a[n]] = a[n + 1]
                  <=> l.next[s[n]] = IF n = N THEN NULL ELSE s[n + 1]
      BY <1>5
    <2>2. DOMAIN s = 1..N
      BY <1>1
    <2>3. QED
      BY <2>1, <2>2, Zenon
  <1>8. Chained(a, N, l) <=> Represents(s, l, ToSet(s))
    BY <1>1, <1>6, <1>7 DEF Chained, Represents, N
  <1>9. QED
    BY <1>3, <1>8 DEF a, N

\* detach takes the entry out, at either end or between two neighbours.
LEMMA DetachChains ==
    ASSUME NEW l \in List, NEW N, NEW a, Row(a, N), Chained(a, N, l), NEW i \in 1..N,
           NEW b, \A n \in 0..N : b[n] = IF n < i THEN a[n] ELSE a[n + 1]
    PROVE  Chained(b, N - 1, Detach(l, a[i]))
  <1> DEFINE d == Detach(l, a[i])
  <1>1. /\ N \in Nat /\ i \in Int /\ 1 <= i /\ i <= N
        /\ a[i] \in Keys
        /\ l.prev[a[i]] = a[i - 1] /\ l.next[a[i]] = a[i + 1]
        /\ l.head = a[1] /\ l.tail = a[N]
    BY DEF Row, Chained
  <1>2. (a[i - 1] = NULL <=> i = 1) /\ (a[i + 1] = NULL <=> i = N)
    BY <1>1 DEF Row
  <1>3. d.head = IF i = 1 THEN a[i + 1] ELSE a[1]
    BY <1>1, <1>2 DEF Detach
  <1>4. d.tail = IF i = N THEN a[i - 1] ELSE a[N]
    BY <1>1, <1>2 DEF Detach
  <1>5. \A x \in Keys \ {a[i]} :
           /\ d.next[x] = IF x = a[i - 1] THEN a[i + 1] ELSE l.next[x]
           /\ d.prev[x] = IF x = a[i + 1] THEN a[i - 1] ELSE l.prev[x]
    BY <1>1 DEF Detach
  <1> HIDE DEF d
  <1>6. ASSUME NEW m \in 1..N, m # i
        PROVE  /\ d.next[a[m]] = IF m = i - 1 THEN a[i + 1] ELSE a[m + 1]
               /\ d.prev[a[m]] = IF m = i + 1 THEN a[i - 1] ELSE a[m - 1]
    <2>1. /\ i - 1 \in 0..(N + 1) /\ i + 1 \in 0..(N + 1)
          /\ i \in 0..(N + 1)
      BY <1>1
    <2>2. a[m] \in Keys \ {a[i]} /\ (a[m] = a[i - 1] <=> m = i - 1)
          /\ (a[m] = a[i + 1] <=> m = i + 1)
      BY <1>6, <2>1 DEF Row
    <2>3. l.next[a[m]] = a[m + 1] /\ l.prev[a[m]] = a[m - 1]
      BY DEF Chained
    <2>4. QED
      BY <1>5, <2>2, <2>3
  <1>7. d.head = b[1] /\ d.tail = b[N - 1]
    <2>1. 1 \in 0..N /\ N - 1 \in 0..N
      BY <1>1
    <2>2. b[1] = (IF 1 < i THEN a[1] ELSE a[2]) /\ b[N - 1] = IF N - 1 < i THEN a[N - 1] ELSE a[N]
      BY <1>1, <2>1
    <2>3. QED
      BY <1>1, <1>3, <1>4, <2>2
  <1>8. ASSUME NEW n \in 1..(N - 1)
        PROVE  d.prev[b[n]] = b[n - 1] /\ d.next[b[n]] = b[n + 1]
    <2>1. n \in 0..N /\ n - 1 \in 0..N /\ n + 1 \in 0..N /\ n \in Int
      BY <1>1
    <2>2. CASE n < i
      <3>1. /\ n \in 1..N /\ n # i /\ b[n] = a[n] /\ b[n - 1] = a[n - 1]
            /\ b[n + 1] = IF n = i - 1 THEN a[i + 1] ELSE a[n + 1]
        BY <1>1, <2>1, <2>2
      <3>2. QED
        BY <1>1, <1>6, <2>1, <2>2, <3>1
    <2>3. CASE n >= i
      <3>1. /\ n + 1 \in 1..N /\ n + 1 # i /\ b[n] = a[n + 1] /\ b[n + 1] = a[(n + 1) + 1]
            /\ b[n - 1] = IF n + 1 = i + 1 THEN a[i - 1] ELSE a[(n + 1) - 1]
        BY <1>1, <2>1, <2>3
      <3>2. n + 1 # i - 1
        BY <1>1, <2>1, <2>3
      <3>3. QED
        BY <1>6, <3>1, <3>2
    <2>4. QED
      BY <1>1, <2>1, <2>2, <2>3
  <1>9. QED
    BY <1>7, <1>8, <1>1 DEF Chained, d

\* pushFront puts a new entry at the head.
LEMMA PushFrontChains ==
    ASSUME NEW l \in List, NEW N, NEW a, Row(a, N), Chained(a, N, l),
           NEW e \in Keys, \A n \in 1..N : a[n] # e,
           NEW b, \A n \in 0..(N + 2) : b[n] = IF n = 0 THEN NULL ELSE IF n = 1 THEN e ELSE a[n - 1]
    PROVE  Chained(b, N + 1, PushFront(l, e))
  <1> DEFINE d == PushFront(l, e)
  <1>1. N \in Nat /\ l.head = a[1] /\ l.tail = a[N]
    BY DEF Row, Chained
  <1>2. a[N] = NULL <=> N = 0
    BY <1>1 DEF Row
  <1>3. /\ d.head = e
        /\ d.tail = IF N = 0 THEN e ELSE a[N]
        /\ d.next[e] = a[1] /\ d.prev[e] = NULL
        /\ \A x \in Keys \ {e} :
              /\ d.next[x] = l.next[x]
              /\ d.prev[x] = IF x = a[1] THEN e ELSE l.prev[x]
    BY <1>1, <1>2 DEF PushFront, List
  <1> HIDE DEF d
  <1>4. d.head = b[1] /\ d.tail = b[N + 1]
    <2>1. b[1] = e /\ b[N + 1] = IF N = 0 THEN e ELSE a[N]
      BY <1>1
    <2>2. QED
      BY <1>3, <2>1
  <1>5. ASSUME NEW n \in 1..(N + 1)
        PROVE  d.prev[b[n]] = b[n - 1] /\ d.next[b[n]] = b[n + 1]
    <2>1. n \in 0..(N + 2) /\ n - 1 \in 0..(N + 2) /\ n + 1 \in 0..(N + 2) /\ n \in Int
      BY <1>1
    <2>2. CASE n = 1
      <3>1. b[n] = e /\ b[n - 1] = NULL /\ b[n + 1] = a[1]
        BY <2>1, <2>2
      <3>2. QED
        BY <1>3, <3>1
    <2>3. CASE n > 1
      <3>1. /\ n - 1 \in 1..N /\ 1 \in 0..(N + 1)
            /\ b[n] = a[n - 1] /\ b[n + 1] = a[(n - 1) + 1]
            /\ b[n - 1] = IF n - 1 = 1 THEN e ELSE a[(n - 1) - 1]
        BY <1>1, <2>1, <2>3
      <3>2. a[n - 1] \in Keys \ {e} /\ (a[n - 1] = a[1] <=> n - 1 = 1)
        BY <3>1 DEF Row
      <3>3. l.next[a[n - 1]] = a[(n - 1) + 1] /\ l.prev[a[n - 1]] = a[(n - 1) - 1]
        BY <3>1 DEF Chained
      <3>4. QED
        BY <1>3, <3>1, <3>2, <3>3
    <2>4. QED
      BY <2>1, <2>2, <2>3
  <1>6. QED
    BY <1>4, <1>5, <1>1 DEF Chained, d

\* swapWithPrev exchanges the entry with the one before it.
LEMMA SwapChains ==
    ASSUME NEW l \in List, NEW N, NEW a, Row(a, N), Chained(a, N, l), NEW i \in 2..N,
           NEW b, \A n \in 0..(N + 1) : b[n] = IF n = i - 1 THEN a[i]
                                               ELSE IF n = i THEN a[i - 1] ELSE a[n]
    PROVE  /\ SwapWithPrev(l, a[i]) \in List
           /\ Chained(b, N, SwapWithPrev(l, a[i]))
  <1> DEFINE d == SwapWithPrev(l, a[i])
  <1>1. /\ N \in Nat /\ i \in Int /\ 2 <= i /\ i <= N
        /\ a[i] \in Keys /\ a[i - 1] \in Keys /\ a[i] # a[i - 1]
        /\ l.prev[a[i]] = a[i - 1] /\ l.next[a[i]] = a[i + 1]
        /\ l.prev[a[i - 1]] = a[i - 2]
        /\ l.head = a[1] /\ l.tail = a[N]
    <2>1. i \in 1..N /\ i - 1 \in 1..N /\ (i - 1) - 1 = i - 2 /\ N \in Nat /\ i # i - 1 /\ i - 1 \in 0..(N + 1)
      BY DEF Row
    <2>2. QED
      BY <2>1 DEF Row, Chained
  <1>2. (a[i - 2] = NULL <=> i = 2) /\ (a[i + 1] = NULL <=> i = N)
    BY <1>1 DEF Row
  <1>3. d.head = (IF i = 2 THEN a[i] ELSE a[1]) /\ d.tail = IF i = N THEN a[i - 1] ELSE a[N]
    BY <1>1, <1>2 DEF SwapWithPrev
  <1>4. /\ d.next[a[i]] = a[i - 1]
        /\ d.prev[a[i]] = a[i - 2]
        /\ d.next[a[i - 1]] = a[i + 1]
        /\ d.prev[a[i - 1]] = a[i]
    BY <1>1 DEF SwapWithPrev
  <1>5. \A x \in Keys \ {a[i], a[i - 1]} :
           /\ d.next[x] = IF x = a[i - 2] THEN a[i] ELSE l.next[x]
           /\ d.prev[x] = IF x = a[i + 1] THEN a[i - 1] ELSE l.prev[x]
    BY <1>1 DEF SwapWithPrev
  <1>6. d \in List
    <2>1. a[i - 2] \in Node /\ a[i + 1] \in Node /\ a[i - 1] \in Node
      BY <1>1 DEF Row, Node
    <2>2. QED
      BY <1>1, <2>1 DEF SwapWithPrev, List, Node
  <1> HIDE DEF d
  <1>7. ASSUME NEW m \in 1..N, m # i, m # i - 1
        PROVE  /\ d.next[a[m]] = IF m = i - 2 THEN a[i] ELSE a[m + 1]
               /\ d.prev[a[m]] = IF m = i + 1 THEN a[i - 1] ELSE a[m - 1]
    <2>1. /\ i - 2 \in 0..(N + 1) /\ i - 1 \in 0..(N + 1)
          /\ i \in 0..(N + 1) /\ i + 1 \in 0..(N + 1)
      BY <1>1
    <2>2. /\ a[m] \in Keys \ {a[i], a[i - 1]}
          /\ a[m] = a[i - 2] <=> m = i - 2
          /\ a[m] = a[i + 1] <=> m = i + 1
      BY <1>7, <2>1 DEF Row
    <2>3. l.next[a[m]] = a[m + 1] /\ l.prev[a[m]] = a[m - 1]
      BY DEF Chained
    <2>4. QED
      BY <1>5, <2>2, <2>3
  <1>8. d.head = b[1] /\ d.tail = b[N]
    <2>1. b[1] = (IF i = 2 THEN a[i] ELSE a[1]) /\ b[N] = IF i = N THEN a[i - 1] ELSE a[N]
      BY <1>1
    <2>2. QED
      BY <1>3, <2>1
  <1>9. ASSUME NEW n \in 1..N
        PROVE  d.prev[b[n]] = b[n - 1] /\ d.next[b[n]] = b[n + 1]
    <2>1. n \in 0..(N + 1) /\ n - 1 \in 0..(N + 1) /\ n + 1 \in 0..(N + 1) /\ n \in Int
      BY <1>1
    <2>2. CASE n = i - 1
      <3>1. b[n] = a[i] /\ b[n - 1] = a[i - 2] /\ b[n + 1] = a[i - 1]
        BY <1>1, <2>1, <2>2
      <3>2. QED
        BY <1>4, <3>1
    <2>3. CASE n = i
      <3>1. b[n] = a[i - 1] /\ b[n - 1] = a[i] /\ b[n + 1] = a[i + 1]
        BY <1>1, <2>1, <2>3
      <3>2. QED
        BY <1>4, <3>1
    <2>4. CASE n # i /\ n # i - 1
      <3>1. /\ b[n] = a[n]
            /\ b[n - 1] = IF n = i + 1 THEN a[i - 1] ELSE a[n - 1]
            /\ b[n + 1] = IF n = i - 2 THEN a[i] ELSE a[n + 1]
        BY <1>1, <2>1, <2>4
      <3>2. QED
        BY <1>7, <2>4, <3>1
    <2>5. QED
      BY <2>2, <2>3, <2>4
  <1>10. QED
    BY <1>6, <1>8, <1>9 DEF Chained, d

-----------------------------------------------------------------------------
(* The same on the sequences of CacheOps.                                  *)

LEMMA DetachRemoves ==
    ASSUME NEW l \in List, NEW s \in Seq(Keys), NEW S, Represents(s, l, S),
           NEW i \in DOMAIN s
    PROVE  /\ Detach(l, s[i]) \in List
           /\ Represents(RemoveAt(s, i), Detach(l, s[i]), S \ {s[i]})
  <1> DEFINE t == RemoveAt(s, i)
             N == Len(s)
             a == RowOf(s)
             b == RowOf(t)
  <1>1. /\ N \in Nat /\ i \in 1..N /\ DOMAIN s = 1..N
        /\ Distinct(s) /\ ToSet(s) = S
        /\ s[i] \in Keys
    BY DEF Represents, Distinct
  <1>2. /\ t \in Seq(Keys) /\ Len(t) = N - 1
        /\ \A n \in 1..(N - 1) : t[n] = IF n < i THEN s[n] ELSE s[n + 1]
        /\ ToSet(t) = S \ {s[i]} /\ Distinct(t)
    BY <1>1, RemoveAtRemoves, ZenonT(30)
  <1>3. Row(a, N) /\ Chained(a, N, l)
    BY <1>1, RowRepresents
  <1>4. \A n \in 0..N : b[n] = IF n < i THEN a[n] ELSE a[n + 1]
    <2>1. ASSUME NEW n \in 0..N PROVE b[n] = IF n < i THEN a[n] ELSE a[n + 1]
      <3>1. /\ b[n] = IF n \in 1..(N - 1) THEN t[n] ELSE NULL
            /\ a[n] = IF n \in 1..N THEN s[n] ELSE NULL
            /\ a[n + 1] = IF n + 1 \in 1..N THEN s[n + 1] ELSE NULL
        BY <1>1, <1>2 DEF RowOf
      <3> HIDE DEF a, b
      <3>2. n \in 1..(N - 1) => t[n] = IF n < i THEN s[n] ELSE s[n + 1]
        BY <1>2
      <3>3. QED
        BY <1>1, <3>1, <3>2
    <2>2. QED
      BY <2>1
  <1>5. a[i] = s[i]
    BY <1>1 DEF RowOf
  <1>6. Chained(b, N - 1, Detach(l, s[i]))
    <2> HIDE DEF a, b, N, t
    <2>1. QED
      BY <1>1, <1>3, <1>4, <1>5, DetachChains
  <1>7. Represents(t, Detach(l, s[i]), S \ {s[i]})
    <2> HIDE DEF t
    <2>1. QED
      BY <1>2, <1>6, RowRepresents
  <1>8. Detach(l, s[i]) \in List
    BY <1>1 DEF Detach, List, Node
  <1>9. QED
    BY <1>7, <1>8

LEMMA PushFrontAdds ==
    ASSUME NEW l \in List, NEW s \in Seq(Keys), NEW S, Represents(s, l, S),
           NEW e \in Keys, e \notin S
    PROVE  /\ PushFront(l, e) \in List
           /\ Represents(Cons(e, s), PushFront(l, e), S \cup {e})
  <1> DEFINE t == Cons(e, s)
             N == Len(s)
             a == RowOf(s)
             b == RowOf(t)
  <1>1. /\ N \in Nat /\ DOMAIN s = 1..N
        /\ Distinct(s) /\ ToSet(s) = S
        /\ \A n \in 1..N : s[n] # e
    BY DEF Represents, Distinct, ToSet
  <1>2. /\ t \in Seq(Keys) /\ Len(t) = N + 1
        /\ \A n \in 1..(N + 1) : t[n] = IF n = 1 THEN e ELSE s[n - 1]
        /\ ToSet(t) = S \cup {e} /\ Distinct(t)
    BY <1>1, ConsAdds
  <1>3. Row(a, N) /\ Chained(a, N, l)
    BY <1>1, RowRepresents
  <1>4. \A n \in 0..(N + 2) : b[n] = IF n = 0 THEN NULL ELSE IF n = 1 THEN e ELSE a[n - 1]
    <2>1. ASSUME NEW n \in 0..(N + 2)
          PROVE  b[n] = IF n = 0 THEN NULL ELSE IF n = 1 THEN e ELSE a[n - 1]
      <3>1. /\ b[n] = IF n \in 1..(N + 1) THEN t[n] ELSE NULL
            /\ n # 0 => a[n - 1] = IF n - 1 \in 1..N THEN s[n - 1] ELSE NULL
        BY <1>1, <1>2 DEF RowOf
      <3> HIDE DEF a, b
      <3>2. n \in 1..(N + 1) => t[n] = IF n = 1 THEN e ELSE s[n - 1]
        BY <1>2
      <3>3. QED
        BY <1>1, <3>1, <3>2
    <2>2. QED
      BY <2>1
  <1>5. \A n \in 1..N : a[n] # e
    BY <1>1 DEF RowOf
  <1>6. Chained(b, N + 1, PushFront(l, e))
    <2> HIDE DEF a, b, N, t
    <2>1. QED
      BY <1>3, <1>4, <1>5, PushFrontChains
  <1>7. Represents(t, PushFront(l, e), S \cup {e})
    <2> HIDE DEF t
    <2>1. QED
      BY <1>2, <1>6, RowRepresents
  <1>8. PushFront(l, e) \in List
    BY DEF PushFront, List, Node
  <1>9. QED
    BY <1>7, <1>8

LEMMA SwapMovesUp ==
    ASSUME NEW l \in List, NEW s \in Seq(Keys), NEW S, Represents(s, l, S),
           NEW i \in DOMAIN s, i > 1
    PROVE  /\ SwapWithPrev(l, s[i]) \in List
           /\ Represents(MoveUp(s, i, i - 1), SwapWithPrev(l, s[i]), S)
  <1> DEFINE t == MoveUp(s, i, i - 1)
             N == Len(s)
             a == RowOf(s)
             b == RowOf(t)
  <1>1. /\ N \in Nat /\ i \in 2..N /\ DOMAIN s = 1..N /\ i - 1 \in 1..i
        /\ Distinct(s) /\ ToSet(s) = S
    BY DEF Represents, Distinct
  <1>2. /\ t \in Seq(Keys) /\ Len(t) = N
        /\ ToSet(t) = S /\ Distinct(t)
    BY <1>1, MoveUpPermutes
  <1>3. Row(a, N) /\ Chained(a, N, l)
    BY <1>1, RowRepresents
  <1>n. \A n \in 1..N : t[n] = IF n = i - 1 THEN s[i]
                               ELSE IF n = i THEN s[i - 1] ELSE s[n]
    BY <1>1 DEF MoveUp
  <1>4. \A n \in 0..(N + 1) : b[n] = IF n = i - 1 THEN a[i]
                                     ELSE IF n = i THEN a[i - 1] ELSE a[n]
    <2>1. ASSUME NEW n \in 0..(N + 1)
          PROVE  b[n] = IF n = i - 1 THEN a[i] ELSE IF n = i THEN a[i - 1] ELSE a[n]
      <3>1. /\ b[n] = IF n \in 1..N THEN t[n] ELSE NULL
            /\ a[n] = IF n \in 1..N THEN s[n] ELSE NULL
            /\ a[i] = s[i] /\ a[i - 1] = s[i - 1]
        BY <1>1, <1>2 DEF RowOf
      <3> HIDE DEF a, b, t
      <3>2. QED
        BY <1>1, <1>n, <3>1
    <2>2. QED
      BY <2>1
  <1>5. a[i] = s[i]
    BY <1>1 DEF RowOf
  <1>6. SwapWithPrev(l, s[i]) \in List /\ Chained(b, N, SwapWithPrev(l, s[i]))
    <2> HIDE DEF a, b, N, t
    <2>1. QED
      BY <1>1, <1>3, <1>4, <1>5, SwapChains
  <1>7. Represents(t, SwapWithPrev(l, s[i]), S)
    <2> HIDE DEF t
    <2>1. QED
      BY <1>2, <1>6, RowRepresents
  <1>8. QED
    BY <1>6, <1>7

LEMMA EmptyListOK ==
    /\ EmptyList \in List
    /\ Represents(<< >>, EmptyList, {})
  BY DEF EmptyList, List, Node, Represents, ToSet

\* The pointers represent one sequence only.
LEMMA RepresentsOne ==
    ASSUME NEW l, NEW S, NEW s \in Seq(Keys), NEW t \in Seq(Keys),
           Len(s) = Len(t), Represents(s, l, S), Represents(t, l, S)
    PROVE  s = t
  <1> DEFINE D == {n \in Nat : n \in 1..Len(s) /\ s[n] # t[n]}
  <1>0. /\ Len(s) \in Nat /\ DOMAIN s = 1..Len(s) /\ DOMAIN t = 1..Len(s)
        /\ Len(s) # 0 => s # << >> /\ t # << >>
    OBVIOUS
  <1>1. SUFFICES ASSUME D # {} PROVE FALSE
    <2>1. D = {} => \A n \in 1..Len(s) : s[n] = t[n]
      BY <1>0
    <2>2. (\A n \in 1..Len(s) : s[n] = t[n]) => s = t
      BY <1>0
    <2>3. QED
      BY <2>1, <2>2
  <1>2. PICK n \in D : \A m \in D : ~(<<m, n>> \in OpToRel(<, Nat))
    <2>1. D \subseteq Nat
      OBVIOUS
    <2> HIDE DEF D
    <2>2. QED
      BY <1>1, <2>1, WFMin, NatLessThanWellFounded
  <1>3. \A m \in D : ~(m < n)
    BY <1>2 DEF OpToRel
  <1>4. CASE n = 1
    <2>1. s # << >> /\ t # << >>
      BY <1>0, <1>4
    <2>2. QED
      BY <1>4, <2>1 DEF Represents
  <1>5. CASE n > 1
    <2>1. n - 1 \in 1..Len(s) /\ n - 1 \in Nat /\ n - 1 < n /\ n - 1 # Len(s) /\ (n - 1) + 1 = n
      BY <1>5
    <2>2. s[n - 1] = t[n - 1]
      BY <1>3, <2>1
    <2>3. \A m \in 1..Len(s) : /\ l.next[s[m]] = IF m = Len(s) THEN NULL ELSE s[m + 1]
                               /\ l.next[t[m]] = IF m = Len(s) THEN NULL ELSE t[m + 1]
      BY <1>0, ZenonT(30) DEF Represents
    <2>4. l.next[s[n - 1]] = s[n] /\ l.next[t[n - 1]] = t[n]
      BY <2>1, <2>3
    <2>5. QED
      BY <2>2, <2>4
  <1>6. QED
    BY <1>4, <1>5

-----------------------------------------------------------------------------
(* The operations of CacheOps on the pointers.                             *)

\* The map m, the pointers l and the counter n are the abstract cache c.
Shows(c, m, l, n) ==
    /\ CacheTypeOK(c)
    /\ WellFormed(c)
    /\ c.entries = m
    /\ l \in List
    /\ Represents(c.order, l, DOMAIN m)
    /\ Len(c.order) = n

OrderOf(m, l, n) == CHOOSE s \in [1..n -> DOMAIN m] : Represents(s, l, DOMAIN m)

\* They are no other cache.
LEMMA ShowsOne ==
    ASSUME NEW c, NEW m, NEW l, NEW n, Shows(c, m, l, n)
    PROVE  /\ OrderOf(m, l, n) = c.order
           /\ c = [entries |-> m, order |-> OrderOf(m, l, n)]
  <1> DEFINE s == c.order
             t == OrderOf(m, l, n)
  <1>1. /\ s \in Seq(Keys) /\ Len(s) = n /\ n \in Nat
        /\ ToSet(s) = DOMAIN m /\ DOMAIN m \subseteq Keys
        /\ Represents(s, l, DOMAIN m)
        /\ c = [entries |-> m, order |-> s]
    BY DEF Shows, CacheTypeOK, WellFormed, Cached
  <1>2. s \in [1..n -> DOMAIN m]
    BY <1>1 DEF ToSet
  <1>3. t \in [1..n -> DOMAIN m] /\ Represents(t, l, DOMAIN m)
    BY <1>1, <1>2 DEF OrderOf
  <1>4. t \in Seq(Keys) /\ Len(t) = n
    BY <1>1, <1>3
  <1>5. s = t
    BY <1>1, <1>3, <1>4, RepresentsOne
  <1>6. QED
    BY <1>1, <1>5

LEMMA EmptyShown == Shows(EmptyCache, << >>, EmptyList, 0)
  <1>1. EmptyCache.entries = << >> /\ EmptyCache.order = << >> /\ DOMAIN << >> = {}
    BY DEF EmptyCache
  <1>2. QED
    BY <1>1, EmptyCacheOK, EmptyListOK DEF Shows

LEMMA UnlinkShown ==
    ASSUME NEW c, NEW m, NEW l, NEW n, Shows(c, m, l, n), NEW k \in DOMAIN m
    PROVE  Shows(Unlink(c, k), Restrict(m, DOMAIN m \ {k}), Detach(l, k), n - 1)
  <1>1. /\ CacheTypeOK(c) /\ WellFormed(c) /\ c.entries = m /\ Cached(c) = DOMAIN m
        /\ l \in List /\ c.order \in Seq(Keys) /\ Represents(c.order, l, DOMAIN m)
        /\ k \in ToSet(c.order)
    BY DEF Shows, CacheTypeOK, WellFormed, Cached
  <1> DEFINE i == Position(c.order, k)
  <1>2. i \in DOMAIN c.order /\ c.order[i] = k
    BY <1>1, PositionFinds
  <1> HIDE DEF i
  <1>3. /\ Detach(l, k) \in List
        /\ Represents(RemoveAt(c.order, i), Detach(l, k), DOMAIN m \ {k})
    BY <1>1, <1>2, DetachRemoves
  <1>4. /\ Unlink(c, k).entries = Restrict(m, DOMAIN m \ {k})
        /\ Unlink(c, k).order = RemoveAt(c.order, i)
        /\ DOMAIN Restrict(m, DOMAIN m \ {k}) = DOMAIN m \ {k}
    BY <1>1 DEF Unlink, Restrict, i
  <1>5. /\ CacheTypeOK(Unlink(c, k)) /\ WellFormed(Unlink(c, k))
        /\ Len(Unlink(c, k).order) = n - 1
    BY <1>1, UnlinkRemoves DEF Shows
  <1>6. QED
    BY <1>3, <1>4, <1>5 DEF Shows

LEMMA InsertShown ==
    ASSUME NEW c, NEW m, NEW l, NEW n, Shows(c, m, l, n), n < MaxEntries,
           NEW k \in Keys, k \notin DOMAIN m, NEW v \in Values
    PROVE  Shows(Insert(c, k, v),
                 [x \in DOMAIN m \cup {k} |-> IF x = k THEN NewEntry(v) ELSE m[x]],
                 PushFront(l, k), n + 1)
  <1>1. /\ CacheTypeOK(c) /\ WellFormed(c) /\ c.entries = m /\ Cached(c) = DOMAIN m
        /\ l \in List /\ c.order \in Seq(Keys) /\ Represents(c.order, l, DOMAIN m)
        /\ Len(c.order) = n /\ n \in Nat
    BY DEF Shows, CacheTypeOK, WellFormed, Cached
  <1>2. ~Full(c) /\ Len(c.order) <= MaxEntries
    BY <1>1, MaxEntriesAssumption DEF Full
  <1>3. /\ PushFront(l, k) \in List
        /\ Represents(Cons(k, c.order), PushFront(l, k), DOMAIN m \cup {k})
    BY <1>1, PushFrontAdds
  <1>4. /\ Insert(c, k, v).entries =
               [x \in DOMAIN m \cup {k} |-> IF x = k THEN NewEntry(v) ELSE m[x]]
        /\ Insert(c, k, v).order = Cons(k, c.order)
    BY <1>1, <1>2 DEF Insert, MakeRoom
  <1>5. /\ CacheTypeOK(Insert(c, k, v)) /\ WellFormed(Insert(c, k, v))
        /\ Len(Insert(c, k, v).order) = n + 1
    BY <1>1, <1>2, InsertAdds
  <1>6. DOMAIN Insert(c, k, v).entries = DOMAIN m \cup {k}
    BY <1>4
  <1>7. QED
    BY <1>3, <1>4, <1>5, <1>6 DEF Shows

\* An entry rewritten in place.
LEMMA RewriteShown ==
    ASSUME NEW c, NEW m, NEW l, NEW n, Shows(c, m, l, n),
           NEW k \in DOMAIN m, NEW e \in Entry
    PROVE  Shows([entries |-> [m EXCEPT ![k] = e], order |-> c.order],
                 [m EXCEPT ![k] = e], l, n)
  BY DEF Shows, CacheTypeOK, WellFormed, Cached

\* An entry rewritten and moved to the front.
LEMMA FrontShown ==
    ASSUME NEW c, NEW m, NEW l, NEW n, Shows(c, m, l, n),
           NEW k \in DOMAIN m, NEW e \in Entry, ~ByFrequency(e.access_count)
    PROVE  Shows(Replace(c, k, e), [m EXCEPT ![k] = e], PushFront(Detach(l, k), k), n)
  <1> DEFINE s == c.order
             i == Position(s, k)
             r == RemoveAt(s, i)
             new == [m EXCEPT ![k] = e]
  <1>1. /\ CacheTypeOK(c) /\ WellFormed(c) /\ c.entries = m /\ Cached(c) = DOMAIN m
        /\ l \in List /\ s \in Seq(Keys) /\ Represents(s, l, DOMAIN m)
        /\ k \in ToSet(s) /\ Len(s) = n /\ n \in Nat /\ Distinct(s) /\ k \in Keys
        /\ ToSet(s) = DOMAIN m
    BY DEF Shows, CacheTypeOK, WellFormed, Cached
  <1>2. i \in DOMAIN s /\ s[i] = k /\ DOMAIN s = 1..n /\ 1 \in 1..i
    <2>1. i \in DOMAIN s /\ s[i] = k
      BY <1>1, PositionFinds
    <2>2. QED
      BY <1>1, <2>1
  <1> HIDE DEF i
  <1>3. /\ Detach(l, k) \in List
        /\ Represents(r, Detach(l, k), DOMAIN m \ {k})
    BY <1>1, <1>2, DetachRemoves
  <1>4. /\ r \in Seq(Keys) /\ Len(r) = n - 1 /\ ToSet(r) = DOMAIN m \ {k} /\ Distinct(r)
        /\ \A x \in 1..(n - 1) : r[x] = IF x < i THEN s[x] ELSE s[x + 1]
    <2> HIDE DEF s
    <2>1. /\ r \in Seq(Keys) /\ Len(r) = Len(s) - 1
          /\ \A x \in 1..(Len(s) - 1) : r[x] = IF x < i THEN s[x] ELSE s[x + 1]
          /\ ToSet(r) = ToSet(s) \ {s[i]} /\ Distinct(r)
      BY <1>1, <1>2, RemoveAtRemoves, ZenonT(30)
    <2>2. QED
      BY <1>1, <1>2, <2>1
  <1> HIDE DEF r
  <1>5. /\ PushFront(Detach(l, k), k) \in List
        /\ Represents(Cons(k, r), PushFront(Detach(l, k), k), DOMAIN m)
    <2>1. (DOMAIN m \ {k}) \cup {k} = DOMAIN m /\ k \notin DOMAIN m \ {k}
      OBVIOUS
    <2>2. QED
      BY <1>1, <1>3, <1>4, <2>1, PushFrontAdds
  <1>6. Promote(s, k, Counts(new)) = Cons(k, r)
    <2> DEFINE t == MoveUp(s, i, 1)
    <2>1. Counts(new)[k] = e.access_count
      BY DEF Counts
    <2>2. Promote(s, k, Counts(new)) = t
      BY <2>1 DEF Promote, i
    <2>3. t \in Seq(Keys) /\ Len(t) = n
      BY <1>1, <1>2, MoveUpPermutes
    <2>4. \A x \in 1..n : t[x] = IF x > i THEN s[x] ELSE IF x = 1 THEN s[i] ELSE s[x - 1]
      BY <1>2 DEF MoveUp
    <2>5. /\ Cons(k, r) \in Seq(Keys) /\ Len(Cons(k, r)) = n
          /\ \A x \in 1..n : Cons(k, r)[x] = IF x = 1 THEN k ELSE r[x - 1]
      <3>1. k \notin ToSet(r) /\ (n - 1) + 1 = n
        BY <1>1, <1>4
      <3>2. QED
        BY <1>1, <1>4, <3>1, ConsAdds
    <2> HIDE DEF t
    <2>6. ASSUME NEW x \in 1..n PROVE t[x] = Cons(k, r)[x]
      <3>1. CASE x = 1
        BY <1>1, <1>2, <2>4, <2>5, <3>1
      <3>2. CASE x # 1
        <4>1. x - 1 \in 1..(n - 1) /\ (x - 1) + 1 = x /\ (x - 1 < i <=> ~(x > i))
          BY <1>1, <1>2, <3>2
        <4>2. r[x - 1] = IF x > i THEN s[x] ELSE s[x - 1]
          BY <1>4, <4>1
        <4>3. QED
          BY <2>4, <2>5, <3>2, <4>2
      <3>3. QED
        BY <3>1, <3>2
    <2>7. t = Cons(k, r)
      BY <2>3, <2>5, <2>6, SeqEqual
    <2>8. QED
      BY <2>2, <2>7
  <1>7. /\ Replace(c, k, e).entries = new
        /\ Replace(c, k, e).order = Cons(k, r)
        /\ DOMAIN new = DOMAIN m
    BY <1>1, <1>6 DEF Replace
  <1>8. /\ CacheTypeOK(Replace(c, k, e)) /\ WellFormed(Replace(c, k, e))
        /\ Len(Replace(c, k, e).order) = n
    BY <1>1, ReplaceKeeps
  <1> HIDE DEF new
  <1>9. Shows(Replace(c, k, e), new, PushFront(Detach(l, k), k), n)
    BY <1>5, <1>7, <1>8 DEF Shows
  <1>10. QED
    BY <1>9 DEF new

-----------------------------------------------------------------------------
(* The bubbling loop.                                                      *)

StopsAt(j, s, i, count) ==
    /\ \A m \in j..(i - 1) : count[s[m]] < count[s[i]]
    /\ j > 1 => count[s[j - 1]] >= count[s[i]]

\* There is one position at which the loop may stop.
LEMMA TargetIs ==
    ASSUME NEW s, NEW i \in Nat \ {0},
           NEW count, \A m \in 1..i : count[s[m]] \in Nat,
           NEW j \in 1..i, StopsAt(j, s, i, count)
    PROVE  BubbleTarget(s, i, count) = j
  <1> DEFINE t == BubbleTarget(s, i, count)
  <1>1. t \in 1..i /\ StopsAt(t, s, i, count)
    BY DEF BubbleTarget, StopsAt
  <1> HIDE DEF t
  <1>2. ASSUME NEW a \in 1..i, NEW b \in 1..i, a < b,
               StopsAt(a, s, i, count), StopsAt(b, s, i, count)
        PROVE  FALSE
    <2>1. b - 1 \in a..(i - 1) /\ b > 1 /\ b - 1 \in 1..i
      BY <1>2
    <2>2. count[s[b - 1]] < count[s[i]] /\ count[s[b - 1]] >= count[s[i]]
      BY <1>2, <2>1 DEF StopsAt
    <2>3. count[s[b - 1]] \in Nat /\ count[s[i]] \in Nat
      BY <2>1
    <2>4. QED
      BY <2>2, <2>3
  <1>3. QED
    BY <1>1, <1>2 DEF t

LEMMA TargetStops ==
    ASSUME NEW s, NEW i \in Nat \ {0},
           NEW count, \A m \in 1..i : count[s[m]] \in Nat
    PROVE  StopsAt(BubbleTarget(s, i, count), s, i, count)
  BY BubbleTargetInRange DEF StopsAt

\* A swap brings the entry nearer to the same position.
LEMMA PromoteAfterSwap ==
    ASSUME NEW s \in Seq(Keys), Distinct(s), NEW k, NEW i \in DOMAIN s, i > 1, s[i] = k,
           NEW count, \A x \in ToSet(s) : count[x] \in Nat,
           ByFrequency(count[k]), count[s[i - 1]] < count[k]
    PROVE  Promote(MoveUp(s, i, i - 1), k, count) = Promote(s, k, count)
  <1> DEFINE t == MoveUp(s, i, i - 1)
             N == Len(s)
             j == BubbleTarget(s, i, count)
  <1>1. /\ DOMAIN s = 1..N /\ N \in Nat /\ i \in 2..N /\ i - 1 \in 1..i
        /\ i \in Nat \ {0} /\ i - 1 \in Nat \ {0}
        /\ \A m \in 1..N : count[s[m]] \in Nat
    BY DEF ToSet
  <1>2. /\ t \in Seq(Keys) /\ Len(t) = N /\ DOMAIN t = 1..N /\ Distinct(t)
        /\ ToSet(t) = ToSet(s)
    <2>1. t \in Seq(Keys) /\ Len(t) = Len(s) /\ Distinct(t) /\ ToSet(t) = ToSet(s)
      BY <1>1, MoveUpPermutes
    <2> HIDE DEF t
    <2>2. QED
      BY <2>1
  <1>3. \A n \in 1..N : t[n] = IF n = i - 1 THEN s[i] ELSE IF n = i THEN s[i - 1] ELSE s[n]
    BY <1>1 DEF MoveUp
  <1>4. j \in 1..i /\ StopsAt(j, s, i, count)
    BY <1>1, BubbleTargetInRange, TargetStops
  <1> HIDE DEF t, j, N
  <1>5. j \in 1..(i - 1)
    <2>1. CASE j = i
      <3>1. count[s[i - 1]] >= count[s[i]]
        BY <1>1, <1>4, <2>1 DEF StopsAt
      <3>2. count[s[i - 1]] \in Nat /\ count[s[i]] \in Nat
        BY <1>1
      <3>3. QED
        BY <3>1, <3>2
    <2>2. QED
      BY <1>1, <1>4, <2>1
  <1>6. StopsAt(j, t, i - 1, count)
    <2>1. t[i - 1] = s[i]
      BY <1>1, <1>3
    <2>2. ASSUME NEW m \in j..(i - 1 - 1) PROVE count[t[m]] < count[t[i - 1]]
      <3>1. m \in 1..N /\ m # i - 1 /\ m # i /\ m \in j..(i - 1)
        BY <1>1, <1>5
      <3>2. t[m] = s[m]
        BY <1>3, <3>1
      <3>3. count[s[m]] < count[s[i]]
        BY <1>4, <3>1 DEF StopsAt
      <3>4. QED
        BY <2>1, <3>2, <3>3
    <2>3. ASSUME j > 1 PROVE count[t[j - 1]] >= count[t[i - 1]]
      <3>1. j - 1 \in 1..N /\ j - 1 # i - 1 /\ j - 1 # i
        BY <1>1, <1>5, <2>3
      <3>2. t[j - 1] = s[j - 1]
        BY <1>3, <3>1
      <3>3. QED
        BY <1>4, <2>1, <2>3, <3>2 DEF StopsAt
    <2>4. QED
      BY <2>2, <2>3 DEF StopsAt
  <1>7. BubbleTarget(t, i - 1, count) = j
    <2>1. \A m \in 1..(i - 1) : count[t[m]] \in Nat
      <3>1. \A m \in 1..N : t[m] \in ToSet(t)
        BY <1>2 DEF ToSet
      <3>2. \A m \in 1..(i - 1) : m \in 1..N
        BY <1>1
      <3>3. QED
        BY <1>2, <3>1, <3>2
    <2>2. QED
      BY <1>1, <1>5, <1>6, <2>1, TargetIs
  <1>8. Position(s, k) = i
    BY DEF Position, Distinct
  <1>9. Position(t, k) = i - 1
    <2>1. t[i - 1] = k /\ i - 1 \in DOMAIN t
      BY <1>1, <1>2, <1>3
    <2>2. QED
      BY <1>2, <2>1 DEF Position, Distinct
  <1>10. /\ Promote(s, k, count) = MoveUp(s, i, j)
         /\ Promote(t, k, count) = MoveUp(t, i - 1, j)
    BY <1>7, <1>8, <1>9 DEF Promote, j
  <1>11. /\ MoveUp(s, i, j) \in Seq(Keys) /\ Len(MoveUp(s, i, j)) = N
         /\ MoveUp(t, i - 1, j) \in Seq(Keys) /\ Len(MoveUp(t, i - 1, j)) = N
    <2>1. /\ MoveUp(s, i, j) \in Seq(Keys) /\ Len(MoveUp(s, i, j)) = N
      BY <1>4, MoveUpPermutes DEF N
    <2>2. i - 1 \in DOMAIN t
      BY <1>1, <1>2
    <2>3. QED
      BY <1>2, <1>5, <2>1, <2>2, MoveUpPermutes
  <1>12. ASSUME NEW n \in 1..N PROVE MoveUp(s, i, j)[n] = MoveUp(t, i - 1, j)[n]
    <2>1. /\ MoveUp(s, i, j)[n] = IF n < j \/ n > i THEN s[n]
                                  ELSE IF n = j THEN s[i] ELSE s[n - 1]
          /\ MoveUp(t, i - 1, j)[n] = IF n < j \/ n > i - 1 THEN t[n]
                                      ELSE IF n = j THEN t[i - 1] ELSE t[n - 1]
      BY <1>1, <1>2 DEF MoveUp
    <2>2. CASE n < j \/ n > i
      <3>1. n # i - 1 /\ n # i /\ (n < j \/ n > i - 1)
        BY <1>1, <1>5, <2>2
      <3>2. QED
        BY <1>3, <2>1, <2>2, <3>1
    <2>3. CASE n = j
      <3>1. ~(n < j) /\ ~(n > i - 1) /\ ~(n > i) /\ t[i - 1] = s[i]
        BY <1>1, <1>3, <1>5, <2>3
      <3>2. QED
        BY <2>1, <2>3, <3>1
    <2>4. CASE n = i
      <3>1. ~(n < j) /\ n > i - 1 /\ ~(n > i) /\ n # j /\ t[n] = s[n - 1]
        BY <1>1, <1>3, <1>5, <2>4
      <3>2. QED
        BY <2>1, <3>1
    <2>5. CASE j < n /\ n < i
      <3>1. /\ ~(n < j) /\ ~(n > i - 1) /\ ~(n > i) /\ n # j
            /\ n - 1 \in 1..N /\ n - 1 # i - 1 /\ n - 1 # i
        BY <1>1, <1>5, <2>5
      <3>2. t[n - 1] = s[n - 1]
        BY <1>3, <3>1
      <3>3. QED
        BY <2>1, <3>1, <3>2
    <2>6. QED
      BY <1>1, <1>5, <2>2, <2>3, <2>4, <2>5
  <1>13. MoveUp(s, i, j) = MoveUp(t, i - 1, j)
    BY <1>11, <1>12, SeqEqual
  <1>14. QED
    BY <1>10, <1>13 DEF t

\* The loop stops where the entry already is.
LEMMA PromoteAtRest ==
    ASSUME NEW s \in Seq(Keys), Distinct(s), NEW k, NEW i \in DOMAIN s, s[i] = k,
           NEW count, \A x \in ToSet(s) : count[x] \in Nat,
           ByFrequency(count[k]), i > 1 => count[s[i - 1]] >= count[k]
    PROVE  Promote(s, k, count) = s
  <1>1. /\ DOMAIN s = 1..Len(s) /\ Len(s) \in Nat /\ i \in 1..Len(s)
        /\ i \in Nat \ {0} /\ i \in 1..i
        /\ \A m \in 1..i : count[s[m]] \in Nat
    BY DEF ToSet
  <1>2. Position(s, k) = i
    BY DEF Position, Distinct
  <1>3. StopsAt(i, s, i, count)
    BY <1>1 DEF StopsAt
  <1>4. BubbleTarget(s, i, count) = i
    BY <1>1, <1>3, TargetIs
  <1>5. Promote(s, k, count) = MoveUp(s, i, i)
    BY <1>2, <1>4 DEF Promote
  <1>6. MoveUp(s, i, i) \in Seq(Keys) /\ Len(MoveUp(s, i, i)) = Len(s)
    BY <1>1, MoveUpPermutes
  <1>7. \A n \in 1..Len(s) : MoveUp(s, i, i)[n] = s[n]
    BY <1>1 DEF MoveUp
  <1>8. QED
    BY <1>5, <1>6, <1>7, SeqEqual

-----------------------------------------------------------------------------
(* The operators that CacheEngine uses are those of this module.           *)

LEMMA SameOperators ==
    /\ Engine!EmptyCache = EmptyCache
    /\ \A c : Engine!Cached(c) = Cached(c) /\ Engine!Full(c) = Full(c)
              /\ Engine!Victim(c) = Victim(c)
    /\ \A c, k : Engine!Read(c, k) = Read(c, k) /\ Engine!Unlink(c, k) = Unlink(c, k)
    /\ \A c, k, v : Engine!Overwrite(c, k, v) = Overwrite(c, k, v)
                    /\ Engine!Insert(c, k, v) = Insert(c, k, v)
    /\ \A v : Engine!IsNumber(v) = IsNumber(v)
  <1>1. \A c : Engine!Cached(c) = Cached(c) /\ Engine!Full(c) = Full(c)
               /\ Engine!Victim(c) = Victim(c)
    BY DEF Engine!Cached, Cached, Engine!Full, Full, Engine!Victim, Victim
  <1>2. \A c, k : Engine!Unlink(c, k) = Unlink(c, k)
    BY <1>1 DEF Engine!Unlink, Unlink, Engine!Position, Position, Engine!Restrict, Restrict,
       Engine!RemoveAt, RemoveAt
  <1>3. \A c, k, e : Engine!Replace(c, k, e) = Replace(c, k, e)
    BY DEF Engine!Replace, Replace, Engine!Promote, Promote, Engine!Position, Position,
       Engine!Counts, Counts, Engine!MoveUp, MoveUp, Engine!BubbleTarget, BubbleTarget,
       Engine!ByFrequency, ByFrequency
  <1>4. \A c, k, v : Engine!Insert(c, k, v) = Insert(c, k, v)
    <2>1. \A c : Engine!MakeRoom(c) = MakeRoom(c)
      BY <1>1, <1>2 DEF Engine!MakeRoom, MakeRoom
    <2>2. \A k, t : Engine!Cons(k, t) = Cons(k, t)
      BY DEF Engine!Cons, Cons
    <2>3. QED
      BY <2>1, <2>2 DEF Engine!Insert, Insert, Engine!NewEntry, NewEntry,
         Engine!Cached, Cached
  <1>5. QED
    BY <1>1, <1>2, <1>3, <1>4 DEF Engine!EmptyCache, EmptyCache, Engine!Read, Read,
       Engine!Overwrite, Overwrite, Engine!IsNumber, IsNumber, Engine!Numbers, Numbers

-----------------------------------------------------------------------------
(* The inductive invariant.                                                *)

\* The key a put makes room for has no entry yet; the loop of
\* reorderByFrequency moves an entry that is there, and by its frequency.
CallOK ==
    /\ call.op = "evicting" => call.key \notin DOMAIN map
    /\ call.op = "bubbling" => /\ call.key \in DOMAIN map
                               /\ ByFrequency(map[call.key].access_count)

IInv ==
    /\ Shows(Now, map, list, stats["current_size"])
    /\ stats \in [Counters -> Nat]
    /\ stats["current_size"] <= MaxEntries
    /\ memory_bytes = BytesUsed(Now, KeyLen, ValueLen)
    /\ call \in Calls
    /\ CallOK

LEMMA LengthsOK == Lengths(KeyLen, ValueLen)
  BY LenAssumption DEF Lengths

LEMMA NowIs ==
    ASSUME NEW c, Shows(c, map', list', stats'["current_size"])
    PROVE  Now' = c
  <1>1. c = [entries |-> map', order |-> OrderOf(map', list', stats'["current_size"])]
    BY ShowsOne
  <1>2. QED
    BY <1>1 DEF Now, ListOrder, OrderOf

LEMMA BytesOfEntries ==
    ASSUME NEW c, NEW d, c.entries = d.entries
    PROVE  BytesUsed(c, KeyLen, ValueLen) = BytesUsed(d, KeyLen, ValueLen)
  BY DEF BytesUsed, Sizes, Cached

\* What the invariant says of the abstract cache.
LEMMA NowOK ==
    ASSUME IInv
    PROVE  /\ CacheTypeOK(Now) /\ WellFormed(Now)
           /\ Now.entries = map /\ Cached(Now) = DOMAIN map /\ DOMAIN map \subseteq Keys
           /\ Len(Now.order) = stats["current_size"] /\ stats["current_size"] \in Nat
           /\ Full(Now) <=> stats["current_size"] = MaxEntries
           /\ Len(Now.order) <= MaxEntries
           /\ \A k \in DOMAIN map : map[k] \in Entry
           /\ memory_bytes \in Nat
  <1>1. /\ CacheTypeOK(Now) /\ WellFormed(Now)
        /\ Now.entries = map /\ Cached(Now) = DOMAIN map
        /\ Len(Now.order) = stats["current_size"] /\ stats["current_size"] \in Nat
        /\ stats["current_size"] <= MaxEntries
    BY DEF IInv, Shows, Cached, Counters
  <1>2. memory_bytes \in Nat
    BY <1>1, LengthsOK, SizesAreNat, SumIsNat DEF IInv, BytesUsed, SumFunction
  <1>3. QED
    BY <1>1, <1>2, MaxEntriesAssumption DEF CacheTypeOK, Full

LEMMA InitInv == Init => IInv
  <1> SUFFICES ASSUME Init PROVE IInv
    OBVIOUS
  <1>1. /\ map = << >> /\ list = EmptyList /\ stats["current_size"] = 0
        /\ stats \in [Counters -> Nat] /\ memory_bytes = 0 /\ call = Returned
    BY DEF Init, Counters
  <1>2. Shows(EmptyCache, map, list, stats["current_size"])
    BY <1>1, EmptyShown
  <1>3. EmptyCache = [entries |-> map, order |-> OrderOf(map, list, stats["current_size"])]
    BY <1>2, ShowsOne
  <1>4. Now = EmptyCache
    BY <1>3 DEF Now, ListOrder, OrderOf
  <1>5. QED
    BY <1>1, <1>2, <1>4, BytesOfEmpty, MaxEntriesAssumption
    DEF IInv, Calls, CallOK, Returned

\* Between calls the engine is as it is.
LEMMA AtReturn ==
    /\ Idle => CacheAtReturn = Now
    /\ call.op # "evicting" => StatsAtReturn = stats /\ MemoryAtReturn = memory_bytes
    /\ Idle' => CacheAtReturn' = Now'
    /\ call'.op # "evicting" => StatsAtReturn' = stats' /\ MemoryAtReturn' = memory_bytes'
  BY DEF Idle, Returned, CacheAtReturn, StatsAtReturn, MemoryAtReturn

LEMMA EngineBetweenCalls ==
    ASSUME IInv, Idle
    PROVE  /\ CacheAtReturn = Now /\ StatsAtReturn = stats /\ MemoryAtReturn = memory_bytes
           /\ Engine!CanPut <=> CanPut
           /\ \A k : Engine!CanAccess(k) <=> CanAccess(k)
           /\ \A F : Engine!Bump(F) = Bump(F)
           /\ \A k, v : Engine!Resized(k, v) = Resized(k, v)
           /\ \A k : Engine!Size(Now, k) = Size(k)
  <1>1. CacheAtReturn = Now /\ StatsAtReturn = stats /\ MemoryAtReturn = memory_bytes
    BY AtReturn DEF Idle, Returned
  <1>2. Now.entries = map
    BY NowOK
  <1>3. Engine!Counters = Counters
    BY DEF Engine!Counters, Counters
  <1>4. \A F : Engine!Bump(F) = Bump(F)
    BY <1>1, <1>3 DEF Engine!Bump, Bump
  <1>5. Engine!CanPut <=> CanPut
    BY <1>1 DEF Engine!CanPut, CanPut
  <1>6. \A k : Engine!CanAccess(k) <=> CanAccess(k)
    BY <1>1, <1>2 DEF Engine!CanAccess, CanAccess, Engine!Cached
  <1>7. \A k, v : Engine!Resized(k, v) = Resized(k, v)
    BY <1>1, <1>2 DEF Engine!Resized, Resized
  <1>8. \A k : Engine!Size(Now, k) = Size(k)
    BY <1>2 DEF Engine!Size, Size
  <1>9. QED
    BY <1>1, <1>4, <1>5, <1>6, <1>7, <1>8

-----------------------------------------------------------------------------
(* The calls that find their key.                                          *)

\* promoteEntry, with its loop still to run if it has one.
LEMMA PromoteStep ==
    ASSUME IInv, Idle, NEW k \in DOMAIN map, NEW e \in Entry, PromoteEntry(k, e),
           stats'["current_size"] = stats["current_size"]
    PROVE  /\ Shows(Now', map', list', stats'["current_size"])
           /\ Now'.entries = [map EXCEPT ![k] = e]
           /\ call' \in Calls /\ CallOK' /\ call'.op # "evicting"
           /\ CacheAtReturn' = Replace(Now, k, e)
  <1> DEFINE new == [map EXCEPT ![k] = e]
             n == stats["current_size"]
  <1>1. /\ Shows(Now, map, list, n) /\ Now.entries = map /\ k \in Keys
        /\ map' = new /\ stats'["current_size"] = n
        /\ DOMAIN new = DOMAIN map /\ new[k] = e
    BY NowOK DEF IInv, PromoteEntry
  <1>2. CASE ByFrequency(e.access_count)
    <2> DEFINE c == [entries |-> new, order |-> Now.order]
    <2>1. call' = [op |-> "bubbling", key |-> k] /\ list' = list
      BY <1>2 DEF PromoteEntry
    <2>2. Shows(c, map', list', stats'["current_size"])
      BY <1>1, <2>1, RewriteShown
    <2>3. Now' = c
      BY <2>2, NowIs
    <2>4. CacheAtReturn' = [Now' EXCEPT !.order = Promote(@, k, Counts(map'))]
      BY <2>1 DEF CacheAtReturn
    <2>5. CacheAtReturn' = Replace(Now, k, e)
      BY <1>1, <2>3, <2>4 DEF Replace
    <2>6. call' \in Calls /\ CallOK' /\ call'.op # "evicting"
      BY <1>1, <1>2, <2>1 DEF Calls, CallOK
    <2>7. QED
      BY <2>2, <2>3, <2>5, <2>6
  <1>3. CASE ~ByFrequency(e.access_count)
    <2>1. list' = PushFront(Detach(list, k), k) /\ call' = call
      BY <1>3 DEF PromoteEntry
    <2>2. Shows(Replace(Now, k, e), map', list', stats'["current_size"])
      BY <1>1, <1>3, <2>1, FrontShown
    <2>3. Now' = Replace(Now, k, e)
      BY <2>2, NowIs
    <2>4. Idle' /\ call' \in Calls /\ CallOK' /\ call'.op # "evicting"
      BY <2>1 DEF Idle, Returned, Calls, CallOK
    <2>5. Replace(Now, k, e).entries = new
      BY <1>1 DEF Replace
    <2>6. QED
      BY <2>2, <2>3, <2>4, <2>5, AtReturn
  <1>4. QED
    BY <1>2, <1>3

LEMMA RewriteStep ==
    ASSUME IInv, Idle, NEW k \in DOMAIN map, NEW v \in Values,
           PromoteEntry(k, Rewritten(k, v)), memory_bytes' = Resized(k, v),
           stats' \in [Counters -> Nat], stats'["current_size"] = stats["current_size"]
    PROVE  /\ IInv'
           /\ CacheAtReturn' = Overwrite(Now, k, v)
           /\ StatsAtReturn' = stats' /\ MemoryAtReturn' = memory_bytes'
  <1>1. /\ CacheTypeOK(Now) /\ WellFormed(Now) /\ Now.entries = map
        /\ Cached(Now) = DOMAIN map /\ map[k] \in Entry
    BY NowOK
  <1>2. Rewritten(k, v) \in Entry
    BY <1>1 DEF Rewritten, Entry
  <1>3. Overwrite(Now, k, v) = Replace(Now, k, Rewritten(k, v))
    BY <1>1 DEF Overwrite, Rewritten
  <1>4. /\ Shows(Now', map', list', stats'["current_size"])
        /\ Now'.entries = [map EXCEPT ![k] = Rewritten(k, v)]
        /\ call' \in Calls /\ CallOK' /\ call'.op # "evicting"
        /\ CacheAtReturn' = Overwrite(Now, k, v)
    BY <1>2, <1>3, PromoteStep
  <1>5. Overwrite(Now, k, v).entries = [map EXCEPT ![k] = Rewritten(k, v)]
    BY <1>1, <1>3 DEF Replace
  <1>6. memory_bytes' = BytesUsed(Now', KeyLen, ValueLen)
    <2>1. BytesUsed(Now', KeyLen, ValueLen) = BytesUsed(Overwrite(Now, k, v), KeyLen, ValueLen)
      BY <1>4, <1>5, BytesOfEntries
    <2>2. BytesUsed(Overwrite(Now, k, v), KeyLen, ValueLen)
             = BytesUsed(Now, KeyLen, ValueLen) - ValueLen[map[k].value] + ValueLen[v]
      BY <1>1, LengthsOK, BytesOfOverwrite
    <2>3. QED
      BY <2>1, <2>2 DEF IInv, Resized
  <1>7. IInv'
    BY <1>4, <1>6 DEF IInv
  <1>8. QED
    BY <1>4, <1>7, AtReturn

\* What Bump does to each counter.
LEMMA BumpCounts ==
    ASSUME IInv, NEW F
    PROVE  /\ Bump(F) \in [Counters -> Nat]
           /\ \A c \in Counters : Bump(F)[c] = IF c \in F THEN stats[c] + 1 ELSE stats[c]
           /\ "current_size" \in Counters
  BY DEF IInv, Bump, Counters

LEMMA PutExistingStep ==
    ASSUME IInv, NEW k \in Keys, NEW v \in Values, PutExisting(k, v)
    PROVE  IInv' /\ Engine!PutExisting(k, v)
  <1>1. /\ Idle /\ k \in DOMAIN map /\ CanAccess(k) /\ CanPut
        /\ stats' = Bump({"puts"}) /\ memory_bytes' = Resized(k, v)
        /\ PromoteEntry(k, Rewritten(k, v))
    BY DEF PutExisting
  <1>2. stats' \in [Counters -> Nat] /\ stats'["current_size"] = stats["current_size"]
    BY <1>1, BumpCounts
  <1>3. /\ IInv' /\ CacheAtReturn' = Overwrite(Now, k, v)
        /\ StatsAtReturn' = stats' /\ MemoryAtReturn' = memory_bytes'
    BY <1>1, <1>2, RewriteStep
  <1>4. Engine!PutExisting(k, v)
    BY <1>1, <1>3, EngineBetweenCalls, SameOperators, NowOK DEF Engine!PutExisting
  <1>5. QED
    BY <1>3, <1>4

LEMMA CasPutStep ==
    ASSUME IInv, NEW k \in Keys, NEW v \in Values, NEW n \in 1..MaxAccess, CasPut(k, v, n)
    PROVE  IInv' /\ Engine!CasPutCall(k, v, n)
  <1>1. /\ Idle /\ k \in DOMAIN map /\ CanAccess(k) /\ CanPut /\ n = map[k].version
        /\ stats' = Bump({"puts", "cas_hits"}) /\ memory_bytes' = Resized(k, v)
        /\ PromoteEntry(k, Rewritten(k, v))
    BY DEF CasPut
  <1>2. stats' \in [Counters -> Nat] /\ stats'["current_size"] = stats["current_size"]
    BY <1>1, BumpCounts
  <1>3. /\ IInv' /\ CacheAtReturn' = Overwrite(Now, k, v)
        /\ StatsAtReturn' = stats' /\ MemoryAtReturn' = memory_bytes'
    BY <1>1, <1>2, RewriteStep
  <1>4. Engine!CasPutCall(k, v, n)
    BY <1>1, <1>3, EngineBetweenCalls, SameOperators, NowOK DEF Engine!CasPutCall
  <1>5. QED
    BY <1>3, <1>4

LEMMA IncrStep ==
    ASSUME IInv, NEW k \in Keys, NEW d \in Deltas, Incr(k, d)
    PROVE  IInv' /\ Engine!IncrCall(k, d)
  <1> DEFINE sum == map[k].value + d
  <1>1. /\ Idle /\ k \in DOMAIN map /\ CanAccess(k)
        /\ IsNumber(map[k].value) /\ IsNumber(sum)
        /\ stats' = stats /\ memory_bytes' = Resized(k, sum)
        /\ PromoteEntry(k, Rewritten(k, sum))
    BY DEF Incr
  <1> HIDE DEF sum
  <1>2. sum \in Values /\ stats' \in [Counters -> Nat]
    BY <1>1, NumbersAssumption DEF IsNumber, IInv
  <1>3. /\ IInv' /\ CacheAtReturn' = Overwrite(Now, k, sum)
        /\ StatsAtReturn' = stats' /\ MemoryAtReturn' = memory_bytes'
    BY <1>1, <1>2, RewriteStep
  <1>4. Engine!IncrCall(k, d)
    BY <1>1, <1>3, EngineBetweenCalls, SameOperators, NowOK DEF Engine!IncrCall, sum
  <1>5. QED
    BY <1>3, <1>4

LEMMA GetStep ==
    ASSUME IInv, NEW k \in Keys, Get(k)
    PROVE  IInv' /\ Engine!GetCall(k)
  <1> DEFINE e == [map[k] EXCEPT !.access_count = @ + 1]
  <1>1. /\ Idle /\ k \in DOMAIN map /\ CanAccess(k) /\ PromoteEntry(k, e)
        /\ stats' = stats /\ memory_bytes' = memory_bytes
    BY DEF Get
  <1>2. /\ CacheTypeOK(Now) /\ WellFormed(Now) /\ Now.entries = map
        /\ Cached(Now) = DOMAIN map /\ map[k] \in Entry
    BY <1>1, NowOK
  <1>3. e \in Entry /\ Read(Now, k) = Replace(Now, k, e)
    BY <1>2 DEF Entry, Read
  <1>4. Read(Now, k).entries = [map EXCEPT ![k] = e]
    BY <1>2, <1>3 DEF Replace
  <1> HIDE DEF e
  <1>5. /\ Shows(Now', map', list', stats'["current_size"])
        /\ Now'.entries = [map EXCEPT ![k] = e]
        /\ call' \in Calls /\ CallOK' /\ call'.op # "evicting"
        /\ CacheAtReturn' = Read(Now, k)
    BY <1>1, <1>3, PromoteStep
  <1>6. memory_bytes' = BytesUsed(Now', KeyLen, ValueLen)
    BY <1>1, <1>2, <1>4, <1>5, BytesOfEntries, BytesOfRead, LengthsOK DEF IInv
  <1>7. IInv'
    BY <1>1, <1>5, <1>6 DEF IInv
  <1>8. Engine!GetCall(k)
    BY <1>1, <1>5, EngineBetweenCalls, SameOperators, NowOK, AtReturn DEF Engine!GetCall
  <1>9. QED
    BY <1>7, <1>8

-----------------------------------------------------------------------------
(* The calls that empty the cache or remove an entry.                      *)

LEMMA EmptiedStep ==
    ASSUME IInv, Idle, map' = << >>, list' = EmptyList, memory_bytes' = 0,
           stats' \in [Counters -> Nat], stats'["current_size"] = 0, call' = call
    PROVE  /\ IInv'
           /\ CacheAtReturn' = EmptyCache
           /\ StatsAtReturn' = stats' /\ MemoryAtReturn' = memory_bytes'
  <1>1. Shows(EmptyCache, map', list', stats'["current_size"])
    BY EmptyShown
  <1>2. Now' = EmptyCache
    BY <1>1, NowIs
  <1>3. Idle' /\ call'.op = "none" /\ call' \in Calls
    BY DEF Idle, Returned, Calls
  <1>4. IInv'
    BY <1>1, <1>2, <1>3, BytesOfEmpty, MaxEntriesAssumption DEF IInv, CallOK
  <1>5. QED
    BY <1>2, <1>3, <1>4, AtReturn

LEMMA TrapStep ==
    ASSUME IInv, NEW k \in Keys, NEW d \in Deltas, Trap(k, d)
    PROVE  IInv' /\ Engine!IncrTrap(k, d)
  <1>1. /\ Idle /\ k \in DOMAIN map
        /\ IsNumber(map[k].value) /\ ~IsNumber(map[k].value + d)
        /\ map' = << >> /\ list' = EmptyList /\ memory_bytes' = 0
        /\ stats' = [c \in Counters |-> 0] /\ call' = call
    BY DEF Trap
  <1>2. stats' \in [Counters -> Nat] /\ stats'["current_size"] = 0
    BY <1>1 DEF Counters
  <1>3. /\ IInv' /\ CacheAtReturn' = EmptyCache
        /\ StatsAtReturn' = stats' /\ MemoryAtReturn' = memory_bytes'
    BY <1>1, <1>2, EmptiedStep
  <1>4. Engine!IncrTrap(k, d)
    BY <1>1, <1>3, EngineBetweenCalls, SameOperators, NowOK
    DEF Engine!IncrTrap, Engine!Counters, Counters
  <1>5. QED
    BY <1>3, <1>4

LEMMA ClearStep ==
    ASSUME IInv, Clear
    PROVE  IInv' /\ Engine!ClearCall
  <1>1. /\ Idle /\ map' = << >> /\ list' = EmptyList /\ memory_bytes' = 0
        /\ stats' = [stats EXCEPT !["current_size"] = 0] /\ call' = call
    BY DEF Clear
  <1>2. stats' \in [Counters -> Nat] /\ stats'["current_size"] = 0
    BY <1>1 DEF IInv, Counters
  <1>3. /\ IInv' /\ CacheAtReturn' = EmptyCache
        /\ StatsAtReturn' = stats' /\ MemoryAtReturn' = memory_bytes'
    BY <1>1, <1>2, EmptiedStep
  <1>4. Engine!ClearCall
    BY <1>1, <1>3, EngineBetweenCalls, SameOperators DEF Engine!ClearCall
  <1>5. QED
    BY <1>3, <1>4

\* An entry taken out of the map and of the list.
LEMMA RemovedStep ==
    ASSUME IInv, NEW k \in DOMAIN map,
           map' = Restrict(map, DOMAIN map \ {k}), list' = Detach(list, k),
           memory_bytes' = memory_bytes - Size(k),
           NEW F, "current_size" \notin F,
           stats' = [Bump(F) EXCEPT !["current_size"] = @ - 1],
           call' = call, call.op # "bubbling"
    PROVE  /\ IInv'
           /\ Now' = Unlink(Now, k)
           /\ stats'["current_size"] = stats["current_size"] - 1
  <1> DEFINE bumped == Bump(F)
             n == stats["current_size"]
  <1>1. /\ CacheTypeOK(Now) /\ WellFormed(Now) /\ Now.entries = map
        /\ Cached(Now) = DOMAIN map /\ Len(Now.order) = n /\ n \in Nat
    BY NowOK
  <1>2. /\ bumped \in [Counters -> Nat] /\ bumped["current_size"] = n
        /\ "current_size" \in Counters
    BY BumpCounts
  <1>3. Len(Unlink(Now, k).order) = n - 1 /\ n - 1 \in Nat
    <2>1. CacheTypeOK(Unlink(Now, k)) /\ Len(Unlink(Now, k).order) = n - 1
      BY <1>1, UnlinkRemoves
    <2>2. Len(Unlink(Now, k).order) \in Nat
      BY <2>1 DEF CacheTypeOK
    <2>3. QED
      BY <2>1, <2>2
  <1> HIDE DEF bumped
  <1>4. stats' \in [Counters -> Nat] /\ stats'["current_size"] = n - 1
    BY <1>2, <1>3 DEF bumped
  <1>5. Shows(Unlink(Now, k), map', list', stats'["current_size"])
    <2>1. Shows(Now, map, list, n)
      BY DEF IInv
    <2>2. Shows(Unlink(Now, k), Restrict(map, DOMAIN map \ {k}), Detach(list, k), n - 1)
      BY <2>1, UnlinkShown
    <2>3. QED
      BY <1>4, <2>2
  <1>6. Now' = Unlink(Now, k)
    BY <1>5, NowIs
  <1>7. memory_bytes' = BytesUsed(Now', KeyLen, ValueLen)
    <2>1. BytesUsed(Unlink(Now, k), KeyLen, ValueLen)
             = BytesUsed(Now, KeyLen, ValueLen) - (KeyLen[k] + ValueLen[map[k].value])
      BY <1>1, BytesOfUnlink, LengthsOK
    <2>2. QED
      BY <1>6, <2>1 DEF IInv, Size
  <1>8. n - 1 <= MaxEntries
    BY <1>1, MaxEntriesAssumption DEF IInv
  <1>9. CallOK'
    <2>1. DOMAIN map' \subseteq DOMAIN map
      BY DEF Restrict
    <2>2. QED
      BY <2>1 DEF CallOK, IInv
  <1>10. IInv'
    BY <1>4, <1>5, <1>6, <1>7, <1>8, <1>9 DEF IInv
  <1>11. QED
    BY <1>4, <1>6, <1>10

LEMMA DeleteKeyStep ==
    ASSUME IInv, NEW k \in Keys, DeleteKey(k)
    PROVE  IInv' /\ Engine!DeleteCall(k)
  <1>1. /\ Idle /\ k \in DOMAIN map /\ call' = call
        /\ map' = Restrict(map, DOMAIN map \ {k}) /\ list' = Detach(list, k)
        /\ stats' = [Bump({"deletes"}) EXCEPT !["current_size"] = @ - 1]
        /\ memory_bytes' = memory_bytes - Size(k)
    BY DEF DeleteKey
  <1>2. Idle' /\ call.op = "none" /\ call'.op = "none"
    BY <1>1 DEF Idle, Returned
  <1>3. IInv' /\ Now' = Unlink(Now, k)
    BY <1>1, <1>2, RemovedStep
  <1>4. Engine!Delete(Now, k) = Unlink(Now, k)
    BY <1>1, NowOK, SameOperators DEF Engine!Delete
  <1>5. Engine!DeleteCall(k)
    BY <1>1, <1>2, <1>3, <1>4, EngineBetweenCalls, SameOperators, NowOK, AtReturn
    DEF Engine!DeleteCall
  <1>6. QED
    BY <1>3, <1>5

-----------------------------------------------------------------------------
(* The put of a new entry: the call, the eviction, the insertion.          *)

\* What the call in progress will have done when it returns.
LEMMA EvictingView ==
    ASSUME IInv, call.op = "evicting"
    PROVE  /\ call.key \in Keys \ DOMAIN map /\ call.value \in Values
           /\ CacheAtReturn = Insert(Now, call.key, call.value)
           /\ Full(Now) => StatsAtReturn = Bump({"evictions"})
           /\ ~Full(Now) => StatsAtReturn = Bump({"current_size"})
           /\ MemoryAtReturn = memory_bytes - (IF Full(Now) THEN Size(Victim(Now)) ELSE 0)
                                 + KeyLen[call.key] + ValueLen[call.value]
  BY DEF IInv, CallOK, Calls, Returned, CacheAtReturn, StatsAtReturn, MemoryAtReturn

LEMMA EvictingViewNext ==
    ASSUME IInv', call'.op = "evicting"
    PROVE  /\ CacheAtReturn' = Insert(Now', call'.key, call'.value)
           /\ Full(Now') => StatsAtReturn' = Bump({"evictions"})'
           /\ ~Full(Now') => StatsAtReturn' = Bump({"current_size"})'
           /\ MemoryAtReturn' =
                  memory_bytes' - (IF Full(Now')
                                   THEN KeyLen[Victim(Now')] + ValueLen[map'[Victim(Now')].value]
                                   ELSE 0)
                                + KeyLen[call'.key] + ValueLen[call'.value]
  BY DEF CacheAtReturn, StatsAtReturn, MemoryAtReturn, Full, Victim, Size

LEMMA PutNewStep ==
    ASSUME IInv, NEW k \in Keys, NEW v \in Values, PutNew(k, v)
    PROVE  IInv' /\ (Engine!PutNew(k, v) \/ Engine!PutEvicting(k, v))
  <1>1. /\ Idle /\ k \notin DOMAIN map /\ CanPut /\ stats' = Bump({"puts"})
        /\ call' = [op |-> "evicting", key |-> k, value |-> v]
        /\ map' = map /\ list' = list /\ memory_bytes' = memory_bytes
    BY DEF PutNew
  <1>2. /\ stats' \in [Counters -> Nat] /\ stats'["current_size"] = stats["current_size"]
        /\ \A c \in Counters : stats'[c] = IF c = "puts" THEN stats[c] + 1 ELSE stats[c]
    BY <1>1, BumpCounts
  <1>3. Now' = Now
    BY <1>1, <1>2 DEF Now, ListOrder
  <1>4. IInv'
    BY <1>1, <1>2, <1>3 DEF IInv, CallOK, Calls
  <1>5. /\ CacheAtReturn' = Insert(Now, k, v)
        /\ Full(Now) => StatsAtReturn' = Bump({"evictions"})'
        /\ ~Full(Now) => StatsAtReturn' = Bump({"current_size"})'
        /\ MemoryAtReturn' = memory_bytes - (IF Full(Now) THEN Size(Victim(Now)) ELSE 0)
                               + KeyLen[k] + ValueLen[v]
    BY <1>1, <1>3, <1>4, EvictingViewNext DEF Size
  <1>6. CASE Full(Now)
    <2>1. Bump({"evictions"})' = Bump({"puts", "evictions"})
      BY <1>2 DEF Bump, IInv
    <2>2. Engine!PutEvicting(k, v)
      BY <1>1, <1>5, <1>6, <2>1, EngineBetweenCalls, SameOperators, NowOK
      DEF Engine!PutEvicting
    <2>3. QED
      BY <1>4, <2>2
  <1>7. CASE ~Full(Now)
    <2>1. Bump({"current_size"})' = Bump({"puts", "current_size"})
      BY <1>2 DEF Bump, IInv
    <2>2. MemoryAtReturn' = memory_bytes + KeyLen[k] + ValueLen[v]
      BY <1>5, <1>7, NowOK
    <2>3. Engine!PutNew(k, v)
      BY <1>1, <1>5, <1>7, <2>1, <2>2, EngineBetweenCalls, SameOperators, NowOK
      DEF Engine!PutNew
    <2>4. QED
      BY <1>4, <2>3
  <1>8. QED
    BY <1>6, <1>7

LEMMA EvictOneStep ==
    ASSUME IInv, EvictOne
    PROVE  IInv' /\ UNCHANGED Engine!vars
  <1> DEFINE victim == list.tail
             n == stats["current_size"]
  <1>1. /\ call.op = "evicting" /\ n >= MaxEntries /\ call' = call
        /\ list' = Detach(list, victim)
        /\ map' = Restrict(map, DOMAIN map \ {victim})
        /\ memory_bytes' = memory_bytes - Size(victim)
        /\ stats' = [Bump({"evictions"}) EXCEPT !["current_size"] = @ - 1]
    BY DEF EvictOne
  <1>2. /\ CacheTypeOK(Now) /\ WellFormed(Now) /\ Now.entries = map
        /\ Cached(Now) = DOMAIN map /\ Len(Now.order) = n /\ n \in Nat
        /\ n <= MaxEntries /\ Now.order \in Seq(Keys)
    BY NowOK DEF CacheTypeOK
  <1>3. Full(Now) /\ n = MaxEntries
    BY <1>1, <1>2, MaxEntriesAssumption DEF Full
  <1>4. victim = Victim(Now) /\ victim \in DOMAIN map
    <2>1. Now.order # << >>
      BY <1>2, <1>3, MaxEntriesAssumption
    <2>2. list.tail = Now.order[Len(Now.order)]
      BY <2>1 DEF IInv, Shows, Represents
    <2>3. QED
      BY <1>2, <1>3, <2>2, VictimIsCached DEF Victim
  <1> HIDE DEF victim
  <1>5. /\ IInv' /\ Now' = Unlink(Now, victim) /\ stats'["current_size"] = n - 1
    BY <1>1, <1>4, RemovedStep
  <1>6. ~Full(Now')
    <2>1. Len(Unlink(Now, victim).order) = n - 1
      BY <1>2, <1>4, UnlinkRemoves
    <2>2. QED
      BY <1>2, <1>3, <1>5, <2>1 DEF Full
  <1>7. MakeRoom(Now) = Now' /\ MakeRoom(Now') = Now'
    BY <1>3, <1>4, <1>5, <1>6 DEF MakeRoom
  <1>8. CacheAtReturn' = CacheAtReturn
    <2>1. Insert(Now', call.key, call.value) = Insert(Now, call.key, call.value)
      BY <1>7 DEF Insert
    <2>2. QED
      BY <1>1, <1>5, <2>1, EvictingView, EvictingViewNext
  <1>9. StatsAtReturn' = StatsAtReturn
    <2> DEFINE bumped == Bump({"evictions"})
    <2>1. /\ bumped \in [Counters -> Nat]
          /\ bumped["current_size"] = n
          /\ \A c \in Counters : stats'[c] = IF c = "current_size" THEN n - 1 ELSE bumped[c]
      BY <1>1, BumpCounts
    <2>2. StatsAtReturn = bumped /\ StatsAtReturn' = Bump({"current_size"})'
      BY <1>1, <1>3, <1>5, <1>6, EvictingView, EvictingViewNext
    <2> HIDE DEF bumped
    <2>3. \A c \in Counters : stats'[c] + (IF c \in {"current_size"} THEN 1 ELSE 0) = bumped[c]
      BY <1>2, <2>1
    <2>4. bumped = [c \in Counters |-> bumped[c]]
      BY <2>1
    <2>5. QED
      BY <2>2, <2>3, <2>4 DEF Bump
  <1>10. MemoryAtReturn' = MemoryAtReturn
    <2>1. /\ MemoryAtReturn = memory_bytes - Size(victim) + KeyLen[call.key] + ValueLen[call.value]
          /\ MemoryAtReturn' = memory_bytes' - 0 + KeyLen[call.key] + ValueLen[call.value]
      BY <1>1, <1>3, <1>4, <1>5, <1>6, EvictingView, EvictingViewNext
    <2>2. memory_bytes \in Nat /\ Size(victim) \in Nat
      <3>1. victim \in Keys /\ map[victim].value \in Values
        BY <1>4, NowOK DEF Entry
      <3>2. QED
        BY <3>1, NowOK, LenAssumption DEF Size
    <2>3. KeyLen[call.key] \in Nat /\ ValueLen[call.value] \in Nat
      BY <1>1, EvictingView, LenAssumption
    <2>4. QED
      BY <1>1, <2>1, <2>2, <2>3
  <1>11. QED
    BY <1>5, <1>8, <1>9, <1>10 DEF Engine!vars

LEMMA InsertEntryStep ==
    ASSUME IInv, InsertEntry
    PROVE  IInv' /\ UNCHANGED Engine!vars
  <1> DEFINE k == call.key
             v == call.value
             n == stats["current_size"]
  <1>1. /\ call.op = "evicting" /\ n < MaxEntries
        /\ map' = [x \in DOMAIN map \cup {k} |-> IF x = k THEN NewEntry(v) ELSE map[x]]
        /\ list' = PushFront(list, k)
        /\ stats' = Bump({"current_size"})
        /\ memory_bytes' = memory_bytes + KeyLen[k] + ValueLen[v]
        /\ call' = Returned
    BY DEF InsertEntry
  <1>2. /\ k \in Keys /\ k \notin DOMAIN map /\ v \in Values
        /\ CacheAtReturn = Insert(Now, k, v)
    BY <1>1, EvictingView
  <1>3. /\ CacheTypeOK(Now) /\ WellFormed(Now)
        /\ Cached(Now) = DOMAIN map /\ n \in Nat /\ Len(Now.order) <= MaxEntries
        /\ ~Full(Now) /\ memory_bytes \in Nat
    BY <1>1, NowOK, MaxEntriesAssumption
  <1>4. StatsAtReturn = stats' /\ MemoryAtReturn = memory_bytes'
    BY <1>1, <1>3, EvictingView
  <1>5. stats' \in [Counters -> Nat] /\ stats'["current_size"] = n + 1
    BY <1>1, BumpCounts
  <1>6. Shows(Insert(Now, k, v), map', list', stats'["current_size"])
    <2>1. Shows(Now, map, list, n)
      BY DEF IInv
    <2> HIDE DEF k, v, n
    <2>2. Shows(Insert(Now, k, v),
                [x \in DOMAIN map \cup {k} |-> IF x = k THEN NewEntry(v) ELSE map[x]],
                PushFront(list, k), n + 1)
      BY <1>1, <1>2, <2>1, InsertShown
    <2>3. QED
      BY <1>1, <1>5, <2>2
  <1>7. Now' = Insert(Now, k, v)
    BY <1>6, NowIs
  <1>8. memory_bytes' = BytesUsed(Now', KeyLen, ValueLen)
    <2>1. BytesUsed(Insert(Now, k, v), KeyLen, ValueLen)
             = BytesUsed(Now, KeyLen, ValueLen) + KeyLen[k] + ValueLen[v]
      BY <1>2, <1>3, BytesOfInsert, LengthsOK
    <2>2. QED
      BY <1>1, <1>7, <2>1 DEF IInv
  <1>9. Idle' /\ call'.op = "none" /\ call' \in Calls /\ CallOK'
    BY <1>1 DEF Idle, Returned, Calls, CallOK
  <1>10. n + 1 <= MaxEntries
    BY <1>1, <1>3, MaxEntriesAssumption
  <1>11. IInv'
    BY <1>5, <1>6, <1>7, <1>8, <1>9, <1>10 DEF IInv
  <1>12. QED
    BY <1>2, <1>4, <1>7, <1>9, <1>11, AtReturn DEF Engine!vars

-----------------------------------------------------------------------------
(* The loop of reorderByFrequency.                                         *)

\* The entry being moved, and the one before it.
LEMMA BubblingView ==
    ASSUME IInv, call.op = "bubbling",
           NEW s, s = Now.order, NEW i, i = Position(s, call.key)
    PROVE  /\ s \in Seq(Keys) /\ Distinct(s) /\ ToSet(s) = DOMAIN map
           /\ i \in DOMAIN s /\ s[i] = call.key
           /\ \A x \in ToSet(s) : Counts(map)[x] \in Nat
           /\ ByFrequency(Counts(map)[call.key])
           /\ MustSwap(call.key) <=>
                  i > 1 /\ Counts(map)[s[i - 1]] < Counts(map)[call.key]
           /\ CacheAtReturn = [Now EXCEPT !.order = Promote(@, call.key, Counts(map))]
  <1> DEFINE k == call.key
  <1>1. /\ s \in Seq(Keys) /\ Distinct(s) /\ ToSet(s) = DOMAIN map
        /\ Represents(s, list, DOMAIN map)
        /\ k \in DOMAIN map /\ ByFrequency(map[k].access_count)
    BY DEF IInv, Shows, CacheTypeOK, WellFormed, Cached, CallOK
  <1>2. i \in DOMAIN s /\ s[i] = k /\ DOMAIN s = 1..Len(s) /\ Len(s) \in Nat
    BY <1>1, PositionFinds
  <1>3. \A x \in DOMAIN map : Counts(map)[x] = map[x].access_count /\ Counts(map)[x] \in Nat
    BY NowOK DEF Counts, Entry
  <1>4. list.prev[k] = IF i = 1 THEN NULL ELSE s[i - 1]
    BY <1>1, <1>2 DEF Represents
  <1>5. i > 1 => s[i - 1] \in DOMAIN map /\ s[i - 1] # NULL
    <2>1. i > 1 => i - 1 \in DOMAIN s
      BY <1>2
    <2>2. QED
      BY <1>1, <2>1, NowOK, NullAssumption DEF ToSet
  <1>6. MustSwap(k) <=> i > 1 /\ Counts(map)[s[i - 1]] < Counts(map)[k]
    <2>1. CASE i = 1
      BY <1>4, <2>1 DEF MustSwap
    <2>2. CASE i > 1
      <3>1. list.prev[k] = s[i - 1] /\ s[i - 1] # NULL
        BY <1>4, <1>5, <2>2
      <3>2. /\ Counts(map)[s[i - 1]] = map[s[i - 1]].access_count
            /\ Counts(map)[k] = map[k].access_count
            /\ map[s[i - 1]].access_count \in Nat /\ map[k].access_count \in Nat
        BY <1>1, <1>3, <1>5, <2>2
      <3>3. MustSwap(k) <=> map[k].access_count > map[s[i - 1]].access_count
        BY <3>1 DEF MustSwap
      <3>4. QED
        BY <2>2, <3>2, <3>3
    <2>3. QED
      BY <1>2, <2>1, <2>2
  <1>7. CacheAtReturn = [Now EXCEPT !.order = Promote(@, k, Counts(map))]
    BY DEF CacheAtReturn
  <1>8. QED
    BY <1>1, <1>2, <1>3, <1>6, <1>7

LEMMA SwapUpStep ==
    ASSUME IInv, SwapUp
    PROVE  IInv' /\ UNCHANGED Engine!vars
  <1> DEFINE k == call.key
             s == Now.order
             i == Position(s, k)
             n == stats["current_size"]
             t == MoveUp(s, i, i - 1)
             c == [entries |-> map, order |-> t]
  <1>1. /\ call.op = "bubbling" /\ MustSwap(k)
        /\ list' = SwapWithPrev(list, k)
        /\ map' = map /\ stats' = stats /\ memory_bytes' = memory_bytes /\ call' = call
    BY DEF SwapUp
  <1>2. /\ s \in Seq(Keys) /\ Distinct(s) /\ ToSet(s) = DOMAIN map
        /\ i \in DOMAIN s /\ s[i] = k
        /\ \A x \in ToSet(s) : Counts(map)[x] \in Nat
        /\ ByFrequency(Counts(map)[k])
        /\ i > 1 /\ Counts(map)[s[i - 1]] < Counts(map)[k]
        /\ CacheAtReturn = [Now EXCEPT !.order = Promote(@, k, Counts(map))]
    BY <1>1, BubblingView
  <1> HIDE DEF i
  <1>3. /\ t \in Seq(Keys) /\ Len(t) = Len(s) /\ ToSet(t) = ToSet(s) /\ Distinct(t)
    <2>1. i - 1 \in 1..i
      BY <1>2
    <2> HIDE DEF s
    <2>2. QED
      BY <1>2, <2>1, MoveUpPermutes
  <1>4. /\ SwapWithPrev(list, k) \in List
        /\ Represents(t, SwapWithPrev(list, k), DOMAIN map)
    <2>1. list \in List /\ Represents(s, list, DOMAIN map)
      BY DEF IInv, Shows
    <2> HIDE DEF s
    <2>2. QED
      BY <1>2, <2>1, SwapMovesUp
  <1>5. Promote(t, k, Counts(map)) = Promote(s, k, Counts(map))
    <2> HIDE DEF s
    <2>1. QED
      BY <1>2, PromoteAfterSwap
  <1> HIDE DEF t
  <1>6. Shows(c, map', list', stats'["current_size"])
    BY <1>1, <1>2, <1>3, <1>4 DEF IInv, Shows, CacheTypeOK, WellFormed, Cached
  <1>7. Now' = c
    BY <1>6, NowIs
  <1>8. IInv'
    <2>1. BytesUsed(c, KeyLen, ValueLen) = BytesUsed(Now, KeyLen, ValueLen)
      BY NowOK, BytesOfEntries
    <2>2. QED
      BY <1>1, <1>6, <1>7, <2>1 DEF IInv, CallOK
  <1>9. CacheAtReturn' = CacheAtReturn
    <2>1. CacheAtReturn' = [Now' EXCEPT !.order = Promote(@, k, Counts(map))]
      BY <1>1 DEF CacheAtReturn
    <2>2. Now = [entries |-> map, order |-> s]
      BY DEF Now
    <2>3. QED
      BY <1>2, <1>5, <1>7, <2>1, <2>2
  <1>10. QED
    BY <1>1, <1>8, <1>9, AtReturn DEF Engine!vars

LEMMA StopBubblingStep ==
    ASSUME IInv, StopBubbling
    PROVE  IInv' /\ UNCHANGED Engine!vars
  <1> DEFINE k == call.key
             s == Now.order
             i == Position(s, k)
  <1>1. /\ call.op = "bubbling" /\ ~MustSwap(k) /\ call' = Returned
        /\ map' = map /\ list' = list /\ stats' = stats /\ memory_bytes' = memory_bytes
    BY DEF StopBubbling
  <1>2. /\ s \in Seq(Keys) /\ Distinct(s) /\ i \in DOMAIN s /\ s[i] = k
        /\ ToSet(s) = DOMAIN map
        /\ \A x \in ToSet(s) : Counts(map)[x] \in Nat
        /\ ByFrequency(Counts(map)[k])
        /\ ~(i > 1 /\ Counts(map)[s[i - 1]] < Counts(map)[k])
        /\ CacheAtReturn = [Now EXCEPT !.order = Promote(@, k, Counts(map))]
    BY <1>1, BubblingView
  <1> HIDE DEF i
  <1>3. i > 1 => Counts(map)[s[i - 1]] >= Counts(map)[k]
    <2>1. ASSUME i > 1 PROVE Counts(map)[s[i - 1]] \in Nat /\ Counts(map)[k] \in Nat
      <3>1. i - 1 \in DOMAIN s
        BY <1>2, <2>1
      <3>2. s[i - 1] \in ToSet(s) /\ k \in ToSet(s)
        BY <1>2, <3>1 DEF ToSet
      <3>3. QED
        BY <1>2, <3>2
    <2>2. QED
      BY <1>2, <2>1
  <1>4. Promote(s, k, Counts(map)) = s
    <2> HIDE DEF s
    <2>1. QED
      BY <1>2, <1>3, PromoteAtRest
  <1>5. Now' = Now
    BY <1>1 DEF Now, ListOrder
  <1>6. Idle' /\ call'.op = "none" /\ call' \in Calls /\ CallOK'
    BY <1>1 DEF Idle, Returned, Calls, CallOK
  <1>7. IInv'
    BY <1>1, <1>5, <1>6 DEF IInv
  <1>8. CacheAtReturn' = CacheAtReturn
    <2>1. Now = [entries |-> map, order |-> s]
      BY DEF Now
    <2>2. QED
      BY <1>2, <1>4, <1>5, <1>6, <2>1, AtReturn
  <1>9. QED
    BY <1>1, <1>6, <1>7, <1>8, AtReturn DEF Engine!vars

-----------------------------------------------------------------------------
(* The theorems.                                                           *)

\* Every step keeps the invariant, and is a call of the engine or nothing.
LEMMA NextStep == IInv /\ [Next]_vars => IInv' /\ [Engine!Next]_(Engine!vars)
  <1> SUFFICES ASSUME IInv, [Next]_vars PROVE IInv' /\ [Engine!Next]_(Engine!vars)
    OBVIOUS
  <1>1. ASSUME NEW k \in Keys, NEW v \in Values, PutExisting(k, v) \/ PutNew(k, v)
        PROVE  IInv' /\ Engine!Next
    BY <1>1, PutExistingStep, PutNewStep DEF Engine!Next
  <1>2. ASSUME NEW k \in Keys, Get(k) \/ DeleteKey(k)
        PROVE  IInv' /\ Engine!Next
    BY <1>2, GetStep, DeleteKeyStep DEF Engine!Next
  <1>3. ASSUME NEW k \in Keys, NEW v \in Values, NEW n \in 1..MaxAccess, CasPut(k, v, n)
        PROVE  IInv' /\ Engine!Next
    BY <1>3, CasPutStep DEF Engine!Next
  <1>4. ASSUME NEW k \in Keys, NEW d \in Deltas, Incr(k, d) \/ Trap(k, d)
        PROVE  IInv' /\ Engine!Next
    BY <1>4, IncrStep, TrapStep DEF Engine!Next
  <1>5. ASSUME Clear PROVE IInv' /\ Engine!Next
    BY <1>5, ClearStep DEF Engine!Next
  <1>6. ASSUME LoopStep PROVE IInv' /\ UNCHANGED Engine!vars
    BY <1>6, EvictOneStep, InsertEntryStep, SwapUpStep, StopBubblingStep DEF LoopStep
  <1>7. ASSUME UNCHANGED vars PROVE IInv' /\ UNCHANGED Engine!vars
    <2>1. Now' = Now
      BY <1>7 DEF vars, Now, ListOrder
    <2>2. IInv'
      BY <1>7, <2>1 DEF vars, IInv, CallOK
    <2>3. UNCHANGED Engine!vars
      BY <1>7, <2>1 DEF vars, Engine!vars, CacheAtReturn, StatsAtReturn, MemoryAtReturn,
         Bump, Size
    <2>4. QED
      BY <2>2, <2>3
  <1>8. QED
    BY <1>1, <1>2, <1>3, <1>4, <1>5, <1>6, <1>7 DEF Next

LEMMA InvInductive == Spec => []IInv
  BY InitInv, NextStep, PTL DEF Spec

\* WellLinked, after every iteration of every loop of cache.zig: the pointers
\* are a proper list of exactly the entries of the map (detach, pushFront,
\* swapWithPrev, evictOne), for any number of keys and any policy.
THEOREM ListStaysLinked == Spec => []WellLinked
  <1>1. IInv => WellLinked
    <2> SUFFICES ASSUME IInv PROVE WellLinked
      OBVIOUS
    <2>1. TypeOK
      <3>1. DOMAIN map \subseteq Keys /\ map \in [DOMAIN map -> Entry] /\ list \in List
        BY DEF IInv, Shows, CacheTypeOK, Cached
      <3>2. memory_bytes \in Nat
        BY NowOK
      <3>3. QED
        BY <3>1, <3>2 DEF TypeOK, IInv
    <2>2. Now.order \in [1..stats["current_size"] -> DOMAIN map]
      <3>1. /\ Now.order \in Seq(Keys) /\ Len(Now.order) = stats["current_size"]
            /\ ToSet(Now.order) = DOMAIN map
        BY NowOK DEF CacheTypeOK, WellFormed
      <3>2. QED
        BY <3>1 DEF ToSet
    <2>3. Represents(Now.order, list, DOMAIN map)
      BY DEF IInv, Shows
    <2>4. QED
      BY <2>1, <2>2, <2>3 DEF WellLinked
  <1>2. QED
    BY InvInductive, <1>1, PTL

\* ImplementsEngine: the engine with its pointers and loops does what the
\* atomic calls of CacheEngine do, whose theorems hold of it (cache.zig put,
\* casPut, get, incr, delete, clear, promoteEntry, evictOne).
THEOREM LinkedImplementsEngine == Spec => ImplementsEngine
  <1>1. Init => Engine!Init
    <2> SUFFICES ASSUME Init PROVE Engine!Init
      OBVIOUS
    <2>1. IInv /\ Idle
      BY InitInv DEF Init, Idle
    <2>2. map = << >> /\ stats = [c \in Counters |-> 0] /\ memory_bytes = 0
      BY DEF Init
    <2>3. Shows(EmptyCache, map, list, stats["current_size"])
      BY EmptyShown DEF Init, Counters
    <2>4. Now = EmptyCache
      BY <2>3, ShowsOne DEF Now, ListOrder, OrderOf
    <2>5. QED
      BY <2>1, <2>2, <2>4, EngineBetweenCalls, SameOperators
      DEF Engine!Init, Engine!Counters, Counters
  <1>2. QED
    BY InvInductive, NextStep, <1>1, PTL DEF Spec, ImplementsEngine, Engine!Spec
=============================================================================
