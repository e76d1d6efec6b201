-------------------------- MODULE CacheOps_proofs --------------------------
(***************************************************************************)
(* Lemmas about the operators of CacheOps, for every set of keys, every    *)
(* cache size and every policy.                                            *)
(***************************************************************************)
EXTENDS CacheOps, Folds_proofs

-----------------------------------------------------------------------------
(* The eviction list.                                                      *)

\* Position finds the key, and nothing else is at that index.
LEMMA PositionFinds ==
    ASSUME NEW s, NEW k \in ToSet(s)
    PROVE  Position(s, k) \in DOMAIN s /\ s[Position(s, k)] = k
  <1>1. \E i \in DOMAIN s : s[i] = k
    BY DEF ToSet
  <1>2. QED
    BY <1>1 DEF Position

\* Moving an element up permutes the list.
LEMMA MoveUpPermutes ==
    ASSUME NEW S, NEW s \in Seq(S), Distinct(s),
           NEW i \in DOMAIN s, NEW j \in 1..i
    PROVE  /\ MoveUp(s, i, j) \in Seq(S)
           /\ Len(MoveUp(s, i, j)) = Len(s)
           /\ ToSet(MoveUp(s, i, j)) = ToSet(s)
           /\ Distinct(MoveUp(s, i, j))
  <1> DEFINE t == MoveUp(s, i, j)
  <1>1. /\ DOMAIN s = 1..Len(s)
        /\ Len(s) \in Nat
        /\ \A n \in 1..Len(s) : s[n] \in S
    OBVIOUS
  <1>2. /\ t = [n \in 1..Len(s) |-> IF n < j \/ n > i THEN s[n]
                                    ELSE IF n = j THEN s[i] ELSE s[n - 1]]
        /\ DOMAIN t = 1..Len(s)
    BY <1>1 DEF MoveUp
  <1>3. \A n \in 1..Len(s) : t[n] \in S
    BY <1>1, <1>2
  <1>4. t \in Seq(S) /\ Len(t) = Len(s)
    BY <1>1, <1>2, <1>3
  <1>5. ASSUME NEW n \in 1..Len(s) PROVE \E m \in 1..Len(s) : t[n] = s[m]
    <2>1. CASE n < j \/ n > i
      BY <1>1, <1>2, <2>1
    <2>2. CASE n = j
      BY <1>1, <1>2, <2>2
    <2>3. CASE j < n /\ n <= i
      <3>1. n - 1 \in 1..Len(s) /\ t[n] = s[n - 1]
        BY <1>1, <1>2, <2>3
      <3>2. QED
        BY <3>1
    <2>4. QED
      BY <1>1, <2>1, <2>2, <2>3
  <1>6. ASSUME NEW n \in 1..Len(s) PROVE \E m \in 1..Len(s) : s[n] = t[m]
    <2>1. CASE n < j \/ n > i
      BY <1>1, <1>2, <2>1
    <2>2. CASE n = i
      BY <1>1, <1>2, <2>2
    <2>3. CASE j <= n /\ n < i
      <3>1. n + 1 \in 1..Len(s) /\ t[n + 1] = s[n]
        BY <1>1, <1>2, <2>3
      <3>2. QED
        BY <3>1
    <2>4. QED
      BY <1>1, <2>1, <2>2, <2>3
  <1>7. ToSet(t) = ToSet(s)
    <2> HIDE DEF t
    <2>1. ASSUME NEW x \in ToSet(t) PROVE x \in ToSet(s)
      <3>1. PICK n \in 1..Len(s) : x = t[n]
        BY <1>2 DEF ToSet
      <3>2. PICK m \in 1..Len(s) : t[n] = s[m]
        BY <1>5
      <3>3. QED
        BY <1>1, <3>1, <3>2 DEF ToSet
    <2>2. ASSUME NEW x \in ToSet(s) PROVE x \in ToSet(t)
      <3>1. PICK n \in 1..Len(s) : x = s[n]
        BY <1>1 DEF ToSet
      <3>2. PICK m \in 1..Len(s) : s[n] = t[m]
        BY <1>6
      <3>3. QED
        BY <1>2, <3>1, <3>2 DEF ToSet
    <2>3. QED
      BY <2>1, <2>2
  <1>8. Distinct(t)
    BY <1>1, <1>2 DEF Distinct
  <1>9. QED
    BY <1>4, <1>7, <1>8

\* Removing the element at i removes exactly that element.
LEMMA RemoveAtRemoves ==
    ASSUME NEW S, NEW s \in Seq(S), Distinct(s), NEW i \in DOMAIN s
    PROVE  /\ RemoveAt(s, i) \in Seq(S)
           /\ Len(RemoveAt(s, i)) = Len(s) - 1
           /\ \A n \in 1..(Len(s) - 1) :
                 RemoveAt(s, i)[n] = IF n < i THEN s[n] ELSE s[n + 1]
           /\ ToSet(RemoveAt(s, i)) = ToSet(s) \ {s[i]}
           /\ Distinct(RemoveAt(s, i))
  <1> DEFINE a == SubSeq(s, 1, i - 1)
             b == SubSeq(s, i + 1, Len(s))
             t == RemoveAt(s, i)
  <1>1. /\ DOMAIN s = 1..Len(s)
        /\ Len(s) \in Nat
        /\ \A n \in 1..Len(s) : s[n] \in S
    OBVIOUS
  <1>2. /\ a \in Seq(S)
        /\ Len(a) = i - 1
        /\ \A n \in 1..(i - 1) : a[n] = s[n]
    BY <1>1, SubSeqProperties
  <1>3. /\ b \in Seq(S)
        /\ Len(b) = Len(s) - i
        /\ \A n \in 1..(Len(s) - i) : b[n] = s[i + n]
    BY <1>1, SubSeqProperties
  <1>4. /\ t = a \o b
        /\ \A m \in 1..(Len(a) + Len(b)) :
              (a \o b)[m] = IF m <= Len(a) THEN a[m] ELSE b[m - Len(a)]
    BY <1>2, <1>3, ConcatProperties DEF RemoveAt
  <1>5. /\ t \in Seq(S)
        /\ Len(t) = Len(s) - 1
    <2> HIDE DEF a, b, t
    <2>1. a \o b \in Seq(S) /\ Len(a \o b) = Len(a) + Len(b)
      BY <1>2, <1>3, ConcatProperties
    <2>2. Len(a) + Len(b) = Len(s) - 1
      BY <1>1, <1>2, <1>3
    <2>3. QED
      BY <1>4, <2>1, <2>2
  <1>6. ASSUME NEW n \in 1..(Len(s) - 1)
        PROVE  t[n] = IF n < i THEN s[n] ELSE s[n + 1]
    <2>1. CASE n < i
      BY <1>1, <1>2, <1>3, <1>4, <2>1
    <2>2. CASE n >= i
      <3>1. t[n] = b[n - (i - 1)]
        <4> HIDE DEF a, b, t
        <4>1. n \in 1..(Len(a) + Len(b)) /\ ~(n <= Len(a))
          BY <1>1, <1>2, <1>3, <2>2
        <4>2. QED
          BY <1>2, <1>4, <4>1
      <3>2. n - (i - 1) \in 1..(Len(s) - i) /\ i + (n - (i - 1)) = n + 1
        BY <1>1, <2>2
      <3>3. b[n - (i - 1)] = s[n + 1]
        <4> HIDE DEF b
        <4>1. QED
          BY <1>3, <3>2
      <3>4. ~(n < i)
        BY <1>1, <2>2
      <3> HIDE DEF a, b, t
      <3>5. QED
        BY <3>1, <3>3, <3>4
    <2>3. QED
      BY <1>1, <2>1, <2>2
  <1>7. DOMAIN t = 1..(Len(s) - 1)
    BY <1>5
  <1>8. ToSet(t) \subseteq ToSet(s) \ {s[i]}
    BY <1>1, <1>6, <1>7 DEF ToSet, Distinct
  <1>9. ASSUME NEW n \in 1..Len(s), n # i PROVE s[n] \in ToSet(t)
    <2>1. CASE n < i
      BY <1>1, <1>6, <1>7, <2>1 DEF ToSet
    <2>2. CASE n > i
      <3>1. n - 1 \in 1..(Len(s) - 1) /\ t[n - 1] = s[n]
        BY <1>1, <1>6, <2>2
      <3>2. QED
        BY <1>7, <3>1 DEF ToSet
    <2>3. QED
      BY <1>1, <1>9, <2>1, <2>2
  <1>10. ToSet(t) = ToSet(s) \ {s[i]}
    BY <1>1, <1>8, <1>9 DEF ToSet
  <1>11. Distinct(t)
    <2> SUFFICES ASSUME NEW m \in 1..(Len(s) - 1), NEW n \in 1..(Len(s) - 1),
                        t[m] = t[n]
                 PROVE  m = n
      BY <1>7 DEF Distinct
    <2> DEFINE Old(x) == IF x < i THEN x ELSE x + 1
    <2>1. t[m] = s[Old(m)] /\ t[n] = s[Old(n)]
      BY <1>6
    <2>2. Old(m) \in DOMAIN s /\ Old(n) \in DOMAIN s
      BY <1>1
    <2>3. Old(m) = Old(n)
      <3> HIDE DEF Old, t
      <3>1. QED
        BY <2>1, <2>2 DEF Distinct
    <2>4. QED
      BY <1>1, <2>3
  <1>12. QED
    BY <1>5, <1>6, <1>10, <1>11

\* A new element at the head.
LEMMA ConsAdds ==
    ASSUME NEW S, NEW s \in Seq(S), Distinct(s), NEW k \in S, k \notin ToSet(s)
    PROVE  /\ Cons(k, s) \in Seq(S)
           /\ Len(Cons(k, s)) = Len(s) + 1
           /\ \A n \in 1..(Len(s) + 1) :
                 Cons(k, s)[n] = IF n = 1 THEN k ELSE s[n - 1]
           /\ ToSet(Cons(k, s)) = ToSet(s) \cup {k}
           /\ Distinct(Cons(k, s))
  <1> DEFINE t == Cons(k, s)
  <1>1. /\ DOMAIN s = 1..Len(s)
        /\ Len(s) \in Nat
        /\ \A n \in 1..Len(s) : s[n] \in ToSet(s)
    BY DEF ToSet
  <1>2. /\ t \in Seq(S)
        /\ Len(t) = Len(s) + 1
        /\ \A n \in 1..(Len(s) + 1) : t[n] = IF n = 1 THEN k ELSE s[n - 1]
    BY DEF Cons
  <1>3. DOMAIN t = 1..(Len(s) + 1)
    BY <1>2
  <1>4. ToSet(t) \subseteq ToSet(s) \cup {k}
    BY <1>1, <1>2, <1>3, SMTT(30) DEF ToSet
  <1>5. ASSUME NEW n \in 1..Len(s) PROVE s[n] \in ToSet(t)
    <2>1. n + 1 \in 1..(Len(s) + 1) /\ t[n + 1] = s[n]
      BY <1>1, <1>2
    <2>2. QED
      BY <1>3, <2>1 DEF ToSet
  <1>6. k \in ToSet(t)
    BY <1>1, <1>2, <1>3 DEF ToSet
  <1>7. ToSet(t) = ToSet(s) \cup {k}
    BY <1>1, <1>4, <1>5, <1>6 DEF ToSet
  <1>8. Distinct(t)
    <2> SUFFICES ASSUME NEW m \in 1..(Len(s) + 1), NEW n \in 1..(Len(s) + 1),
                        t[m] = t[n]
                 PROVE  m = n
      BY <1>3 DEF Distinct
    <2> HIDE DEF t
    <2>1. CASE m = 1
      BY <1>1, <1>2, <2>1
    <2>2. CASE n = 1
      BY <1>1, <1>2, <2>2
    <2>3. CASE m # 1 /\ n # 1
      <3>1. m - 1 \in 1..Len(s) /\ n - 1 \in 1..Len(s) /\ s[m - 1] = s[n - 1]
        BY <1>1, <1>2, <2>3
      <3>2. QED
        BY <1>1, <3>1 DEF Distinct
    <2>4. QED
      BY <2>1, <2>2, <2>3
  <1>9. QED
    BY <1>2, <1>7, <1>8

\* The bubbling of an entry stops at a position at or above its own, below
\* an entry that was accessed at least as often.
LEMMA BubbleTargetInRange ==
    ASSUME NEW s, NEW i \in Nat \ {0},
           NEW count, \A m \in 1..i : count[s[m]] \in Nat
    PROVE  /\ BubbleTarget(s, i, count) \in 1..i
           /\ \A m \in BubbleTarget(s, i, count)..(i - 1) :
                 count[s[m]] < count[s[i]]
           /\ BubbleTarget(s, i, count) > 1 =>
                 count[s[BubbleTarget(s, i, count) - 1]] >= count[s[i]]
  <1> DEFINE Blocks(m) == count[s[m]] >= count[s[i]]
             T == {d \in Nat : d < i - 1 /\ Blocks(i - 1 - d)}
             R == OpToRel(<, Nat)
             Stop(j) == /\ \A m \in j..(i - 1) : count[s[m]] < count[s[i]]
                        /\ j > 1 => count[s[j - 1]] >= count[s[i]]
  <1>1. \E j \in 1..i : Stop(j)
    <2>1. CASE T = {}
      <3>1. ASSUME NEW m \in 1..(i - 1) PROVE count[s[m]] < count[s[i]]
        <4>1. i - 1 - m \in Nat /\ i - 1 - m < i - 1 /\ i - 1 - (i - 1 - m) = m
          OBVIOUS
        <4>2. ~Blocks(m)
          BY <2>1, <4>1
        <4>3. count[s[m]] \in Nat /\ count[s[i]] \in Nat
          OBVIOUS
        <4>4. QED
          BY <4>2, <4>3
      <3>2. Stop(1)
        BY <3>1
      <3>3. 1 \in 1..i
        OBVIOUS
      <3> HIDE DEF Stop
      <3>4. QED
        BY <3>2, <3>3
    <2>2. CASE T # {}
      <3>1. PICK d \in T : \A e \in T : ~(<<e, d>> \in R)
        <4>1. T \subseteq Nat
          OBVIOUS
        <4>2. QED
          BY <2>2, <4>1, WFMin, NatLessThanWellFounded
      <3>2. \A e \in T : ~(e < d)
        BY <3>1 DEF OpToRel
      <3>3. ASSUME NEW m \in (i - d)..(i - 1) PROVE count[s[m]] < count[s[i]]
        <4>1. /\ i - 1 - m \in Nat
              /\ i - 1 - m < d
              /\ i - 1 - m < i - 1
              /\ i - 1 - (i - 1 - m) = m
              /\ m \in 1..i
          OBVIOUS
        <4>2. ~Blocks(m)
          BY <3>2, <4>1
        <4>3. count[s[m]] \in Nat /\ count[s[i]] \in Nat
          BY <4>1
        <4>4. QED
          BY <4>2, <4>3
      <3>4. i - d - 1 = i - 1 - d /\ Blocks(i - 1 - d) /\ i - d \in 1..i
        OBVIOUS
      <3>5. Stop(i - d)
        BY <3>3, <3>4
      <3>6. QED
        BY <3>4, <3>5
    <2>3. QED
      BY <2>1, <2>2
  <1>2. BubbleTarget(s, i, count) = CHOOSE j \in 1..i : Stop(j)
    BY DEF BubbleTarget
  <1>3. QED
    BY <1>1, <1>2

\* Promotion permutes the list, whatever the policy.
LEMMA PromotePermutes ==
    ASSUME NEW S, NEW s \in Seq(S), Distinct(s), NEW k \in ToSet(s),
           NEW count, \A x \in ToSet(s) : count[x] \in Nat
    PROVE  /\ Promote(s, k, count) \in Seq(S)
           /\ Len(Promote(s, k, count)) = Len(s)
           /\ ToSet(Promote(s, k, count)) = ToSet(s)
           /\ Distinct(Promote(s, k, count))
  <1> DEFINE i == Position(s, k)
             j == IF ByFrequency(count[k]) THEN BubbleTarget(s, i, count) ELSE 1
  <1>1. i \in DOMAIN s
    BY PositionFinds
  <1>2. i \in Nat \ {0} /\ \A m \in 1..i : count[s[m]] \in Nat
    BY <1>1 DEF ToSet
  <1>3. j \in 1..i
    <2> HIDE DEF i
    <2>1. BubbleTarget(s, i, count) \in 1..i
      BY <1>2, BubbleTargetInRange
    <2>2. QED
      BY <1>2, <2>1
  <1>4. Promote(s, k, count) = MoveUp(s, i, j)
    BY DEF Promote
  <1>5. QED
    <2> HIDE DEF i, j
    <2>1. QED
      BY <1>1, <1>3, <1>4, MoveUpPermutes

-----------------------------------------------------------------------------

\* Rewriting and promoting an entry leaves the set of entries alone.
LEMMA ReplaceKeeps ==
    ASSUME NEW c, CacheTypeOK(c), WellFormed(c), NEW k \in Cached(c),
           NEW e \in Entry
    PROVE  /\ CacheTypeOK(Replace(c, k, e))
           /\ WellFormed(Replace(c, k, e))
           /\ Replace(c, k, e).entries[k] = e
           /\ \A x \in Cached(c) \ {k} :
                 Replace(c, k, e).entries[x] = c.entries[x]
           /\ Cached(Replace(c, k, e)) = Cached(c)
           /\ Len(Replace(c, k, e).order) = Len(c.order)
  <1> DEFINE entries == [c.entries EXCEPT ![k] = e]
             order == Promote(c.order, k, Counts(entries))
  <1>1. /\ entries \in [Cached(c) -> Entry]
        /\ DOMAIN entries = Cached(c)
        /\ entries[k] = e
        /\ \A x \in Cached(c) \ {k} : entries[x] = c.entries[x]
    BY DEF CacheTypeOK
  <1>2. Counts(entries) \in [Cached(c) -> Nat]
    BY <1>1 DEF Counts, Entry
  <1>3. /\ c.order \in Seq(Keys)
        /\ Distinct(c.order)
        /\ ToSet(c.order) = Cached(c)
    BY DEF CacheTypeOK, WellFormed
  <1>4. /\ order \in Seq(Keys)
        /\ Len(order) = Len(c.order)
        /\ ToSet(order) = Cached(c)
        /\ Distinct(order)
    <2>1. \A x \in ToSet(c.order) : Counts(entries)[x] \in Nat
      BY <1>2, <1>3
    <2> HIDE DEF entries
    <2>2. QED
      BY <1>3, <2>1, PromotePermutes
  <1>5. Replace(c, k, e) = [entries |-> entries, order |-> order]
    BY DEF Replace
  <1> HIDE DEF entries, order
  <1>6. Cached(Replace(c, k, e)) = Cached(c)
    BY <1>1, <1>5 DEF Cached
  <1>7. CacheTypeOK(Replace(c, k, e))
    BY <1>1, <1>4, <1>5, <1>6 DEF CacheTypeOK
  <1>8. WellFormed(Replace(c, k, e))
    BY <1>4, <1>5, <1>6 DEF WellFormed
  <1>9. QED
    BY <1>1, <1>4, <1>5, <1>6, <1>7, <1>8

\* Unlinking removes one entry from the map and from the list.
LEMMA UnlinkRemoves ==
    ASSUME NEW c, CacheTypeOK(c), WellFormed(c), NEW k \in Cached(c)
    PROVE  /\ CacheTypeOK(Unlink(c, k))
           /\ WellFormed(Unlink(c, k))
           /\ Cached(Unlink(c, k)) = Cached(c) \ {k}
           /\ \A x \in Cached(c) \ {k} : Unlink(c, k).entries[x] = c.entries[x]
           /\ Len(Unlink(c, k).order) = Len(c.order) - 1
  <1> DEFINE entries == Restrict(c.entries, Cached(c) \ {k})
             i == Position(c.order, k)
             order == RemoveAt(c.order, i)
  <1>1. /\ c.order \in Seq(Keys)
        /\ Distinct(c.order)
        /\ ToSet(c.order) = Cached(c)
        /\ c.entries \in [Cached(c) -> Entry]
        /\ Cached(c) \subseteq Keys
    BY DEF CacheTypeOK, WellFormed
  <1>2. i \in DOMAIN c.order /\ c.order[i] = k
    BY <1>1, PositionFinds
  <1>3. /\ order \in Seq(Keys)
        /\ Len(order) = Len(c.order) - 1
        /\ ToSet(order) = Cached(c) \ {k}
        /\ Distinct(order)
    <2> HIDE DEF i
    <2>1. QED
      BY <1>1, <1>2, RemoveAtRemoves
  <1>4. /\ entries \in [Cached(c) \ {k} -> Entry]
        /\ DOMAIN entries = Cached(c) \ {k}
        /\ \A x \in Cached(c) \ {k} : entries[x] = c.entries[x]
    BY <1>1 DEF Restrict
  <1>5. Unlink(c, k) = [entries |-> entries, order |-> order]
    BY DEF Unlink
  <1> HIDE DEF entries, order
  <1>6. Cached(Unlink(c, k)) = Cached(c) \ {k}
    BY <1>4, <1>5 DEF Cached
  <1>7. CacheTypeOK(Unlink(c, k))
    BY <1>1, <1>3, <1>4, <1>5, <1>6 DEF CacheTypeOK
  <1>8. WellFormed(Unlink(c, k))
    <2>1. Unlink(c, k).order = order
      BY <1>5
    <2>2. QED
      BY <1>3, <1>6, <2>1 DEF WellFormed
  <1>9. QED
    BY <1>3, <1>4, <1>5, <1>6, <1>7, <1>8

\* The list counts the keys.
LEMMA CachedCount ==
    ASSUME NEW c, CacheTypeOK(c), WellFormed(c)
    PROVE  IsFiniteSet(Cached(c)) /\ Cardinality(Cached(c)) = Len(c.order)
  <1> DEFINE n == Len(c.order)
             f == [i \in 1..n |-> c.order[i]]
  <1>1. c.order \in Seq(Keys) /\ n \in Nat /\ DOMAIN c.order = 1..n
    BY DEF CacheTypeOK
  <1>2. /\ Cached(c) = {c.order[i] : i \in 1..n}
        /\ \A i, j \in 1..n : c.order[i] = c.order[j] => i = j
    BY <1>1 DEF WellFormed, Distinct, ToSet
  <1>3. f \in Bijection(1..n, Cached(c))
    BY <1>2 DEF Bijection, Injection, Surjection, IsInjective
  <1>4. IsFiniteSet(1..n) /\ Cardinality(1..n) = n
    BY <1>1, FS_Interval
  <1> HIDE DEF f, n
  <1>5. ExistsBijection(1..n, Cached(c))
    BY <1>3 DEF ExistsBijection
  <1>6. QED
    BY <1>4, <1>5, FS_Bijection DEF n

\* A full cache has a victim: the key at the tail.
LEMMA VictimIsCached ==
    ASSUME NEW c, CacheTypeOK(c), WellFormed(c), Full(c)
    PROVE  Victim(c) \in Cached(c)
  <1>1. Len(c.order) \in DOMAIN c.order
    BY MaxEntriesAssumption DEF CacheTypeOK, Full
  <1>2. QED
    BY <1>1 DEF Victim, WellFormed, ToSet

\* A put of a new key adds it, in the place of the victim when there is one.
LEMMA InsertAdds ==
    ASSUME NEW c, CacheTypeOK(c), WellFormed(c), Len(c.order) <= MaxEntries,
           NEW k \in Keys \ Cached(c), NEW v \in Values
    PROVE  /\ CacheTypeOK(Insert(c, k, v))
           /\ WellFormed(Insert(c, k, v))
           /\ Cached(Insert(c, k, v)) =
                  (IF Full(c) THEN Cached(c) \ {Victim(c)} ELSE Cached(c)) \cup {k}
           /\ Insert(c, k, v).entries[k] = NewEntry(v)
           /\ \A x \in Cached(Insert(c, k, v)) \ {k} :
                 x \in Cached(c) /\ Insert(c, k, v).entries[x] = c.entries[x]
           /\ Len(Insert(c, k, v).order) =
                  (IF Full(c) THEN Len(c.order) ELSE Len(c.order) + 1)
           /\ Len(Insert(c, k, v).order) <= MaxEntries
  <1> DEFINE room == MakeRoom(c)
             entries == [x \in Cached(room) \cup {k} |->
                            IF x = k THEN NewEntry(v) ELSE room.entries[x]]
             order == Cons(k, room.order)
  <1>1. /\ CacheTypeOK(room)
        /\ WellFormed(room)
        /\ Cached(room) = (IF Full(c) THEN Cached(c) \ {Victim(c)} ELSE Cached(c))
        /\ \A x \in Cached(room) : x \in Cached(c) /\ room.entries[x] = c.entries[x]
        /\ Len(room.order) = (IF Full(c) THEN Len(c.order) - 1 ELSE Len(c.order))
    <2>1. CASE Full(c)
      <3>1. Victim(c) \in Cached(c)
        BY <2>1, VictimIsCached
      <3>2. room = Unlink(c, Victim(c))
        BY <2>1 DEF MakeRoom
      <3> HIDE DEF room
      <3>3. QED
        BY <2>1, <3>1, <3>2, UnlinkRemoves
    <2>2. CASE ~Full(c)
      BY <2>2 DEF MakeRoom
    <2>3. QED
      BY <2>1, <2>2
  <1>2. Len(c.order) \in Nat
    BY DEF CacheTypeOK
  <1>3. Len(room.order) < MaxEntries
    BY <1>1, <1>2, MaxEntriesAssumption DEF Full
  <1>4. k \notin Cached(room) /\ Cached(room) \subseteq Keys
    BY <1>1 DEF CacheTypeOK
  <1> HIDE DEF room
  <1>5. NewEntry(v) \in Entry
    BY DEF NewEntry, Entry
  <1>6. /\ entries \in [Cached(room) \cup {k} -> Entry]
        /\ DOMAIN entries = Cached(room) \cup {k}
        /\ entries[k] = NewEntry(v)
        /\ \A x \in Cached(room) : entries[x] = room.entries[x]
    <2>1. room.entries \in [Cached(room) -> Entry]
      BY <1>1 DEF CacheTypeOK
    <2>2. QED
      BY <1>4, <1>5, <2>1
  <1>7. /\ order \in Seq(Keys)
        /\ Len(order) = Len(room.order) + 1
        /\ ToSet(order) = Cached(room) \cup {k}
        /\ Distinct(order)
    <2>1. /\ room.order \in Seq(Keys)
          /\ Distinct(room.order)
          /\ ToSet(room.order) = Cached(room)
      BY <1>1 DEF CacheTypeOK, WellFormed
    <2>2. QED
      BY <1>4, <2>1, ConsAdds
  <1>8. Insert(c, k, v) = [entries |-> entries, order |-> order]
    BY DEF Insert, room
  <1> HIDE DEF entries, order
  <1>9. Cached(Insert(c, k, v)) = Cached(room) \cup {k}
    BY <1>6, <1>8 DEF Cached
  <1>10. CacheTypeOK(Insert(c, k, v))
    BY <1>4, <1>6, <1>7, <1>8, <1>9 DEF CacheTypeOK
  <1>11. WellFormed(Insert(c, k, v))
    <2>1. Insert(c, k, v).order = order
      BY <1>8
    <2>2. QED
      BY <1>7, <1>9, <2>1 DEF WellFormed
  <1>12. Len(room.order) \in Nat
    BY <1>1 DEF CacheTypeOK
  <1>13. QED
    BY <1>1, <1>2, <1>3, <1>4, <1>6, <1>7, <1>8, <1>9, <1>10, <1>11, <1>12,
       MaxEntriesAssumption

LEMMA EmptyCacheOK ==
    /\ CacheTypeOK(EmptyCache)
    /\ WellFormed(EmptyCache)
    /\ Len(EmptyCache.order) = 0
  <1>1. Cached(EmptyCache) = {}
    BY DEF Cached, EmptyCache
  <1>2. /\ EmptyCache = [entries |-> EmptyCache.entries, order |-> EmptyCache.order]
        /\ EmptyCache.entries \in [{} -> Entry]
        /\ EmptyCache.order = << >>
    BY DEF EmptyCache
  <1>3. << >> \in Seq(Keys) /\ Len(<< >>) = 0 /\ ToSet(<< >>) = {}
    BY DEF ToSet
  <1>4. QED
    BY <1>1, <1>2, <1>3 DEF CacheTypeOK, WellFormed, Distinct

\* What the calls that find their key have in common.
LEMMA OverwriteKeeps ==
    ASSUME NEW c, CacheTypeOK(c), WellFormed(c), NEW k \in Cached(c),
           NEW v \in Values
    PROVE  /\ CacheTypeOK(Overwrite(c, k, v))
           /\ WellFormed(Overwrite(c, k, v))
           /\ Cached(Overwrite(c, k, v)) = Cached(c)
           /\ Len(Overwrite(c, k, v).order) = Len(c.order)
           /\ \A x \in Cached(c) : x # k =>
                 Overwrite(c, k, v).entries[x] = c.entries[x]
           /\ Overwrite(c, k, v).entries[k].version = c.entries[k].version + 1
           /\ Overwrite(c, k, v).entries[k].value = v
  <1> DEFINE e == [value |-> v, version |-> c.entries[k].version + 1,
                   access_count |-> c.entries[k].access_count + 1]
  <1>1. c.entries[k] \in Entry /\ c.entries \in [Cached(c) -> Entry]
    BY DEF CacheTypeOK
  <1>2. e \in Entry
    BY <1>1 DEF Entry
  <1>3. Overwrite(c, k, v) = Replace(c, k, e)
    BY DEF Overwrite
  <1>4. e.version = c.entries[k].version + 1 /\ e.value = v
    OBVIOUS
  <1> HIDE DEF e
  <1>5. Overwrite(c, k, v).entries[k] = e
    BY <1>2, <1>3, ReplaceKeeps
  <1>6. QED
    BY <1>2, <1>3, <1>4, <1>5, ReplaceKeeps

LEMMA ReadKeeps ==
    ASSUME NEW c, CacheTypeOK(c), WellFormed(c), NEW k \in Cached(c)
    PROVE  /\ CacheTypeOK(Read(c, k))
           /\ WellFormed(Read(c, k))
           /\ Cached(Read(c, k)) = Cached(c)
           /\ Len(Read(c, k).order) = Len(c.order)
           /\ \A x \in Cached(c) :
                 /\ Read(c, k).entries[x].value = c.entries[x].value
                 /\ Read(c, k).entries[x].version = c.entries[x].version
                 /\ x # k => Read(c, k).entries[x] = c.entries[x]
  <1> DEFINE e == [c.entries[k] EXCEPT !.access_count = @ + 1]
  <1>1. c.entries[k] \in Entry /\ c.entries \in [Cached(c) -> Entry]
    BY DEF CacheTypeOK
  <1>2. /\ e \in Entry
        /\ e.value = c.entries[k].value
        /\ e.version = c.entries[k].version
    BY <1>1 DEF Entry
  <1>3. Read(c, k) = Replace(c, k, e)
    BY DEF Read
  <1> HIDE DEF e
  <1>4. ASSUME NEW x \in Cached(c)
        PROVE  /\ Read(c, k).entries[x].value = c.entries[x].value
               /\ Read(c, k).entries[x].version = c.entries[x].version
               /\ x # k => Read(c, k).entries[x] = c.entries[x]
    <2>1. CASE x = k
      BY <1>2, <1>3, <2>1, ReplaceKeeps
    <2>2. CASE x # k
      BY <1>2, <1>3, <2>2, ReplaceKeeps
    <2>3. QED
      BY <2>1, <2>2
  <1>5. QED
    BY <1>2, <1>3, <1>4, ReplaceKeeps

-----------------------------------------------------------------------------
(* The bytes that the keys and values of a cache take; kl and vl give the  *)
(* length of each.                                                         *)

Lengths(kl, vl) == kl \in [Keys -> Nat] /\ vl \in [Values -> Nat]

Sizes(c, kl, vl) == [k \in Cached(c) |-> kl[k] + vl[c.entries[k].value]]

BytesUsed(c, kl, vl) == SumFunction(Sizes(c, kl, vl))

\* The sizes of a cache are lengths of finitely many entries.
LEMMA SizesAreNat ==
    ASSUME NEW kl, NEW vl, Lengths(kl, vl), NEW c, CacheTypeOK(c), WellFormed(c)
    PROVE  /\ DOMAIN Sizes(c, kl, vl) = Cached(c)
           /\ IsFiniteSet(Cached(c))
           /\ \A k \in Cached(c) :
                 /\ Sizes(c, kl, vl)[k] = kl[k] + vl[c.entries[k].value]
                 /\ Sizes(c, kl, vl)[k] \in Nat
                 /\ kl[k] \in Nat /\ vl[c.entries[k].value] \in Nat
  <1>1. \A k \in Cached(c) : k \in Keys /\ c.entries[k].value \in Values
    BY DEF CacheTypeOK, Entry
  <1>2. QED
    BY <1>1, CachedCount DEF Lengths, Sizes

\* An entry that stays is resized, and one that comes or goes takes its size.
LEMMA BytesOfOverwrite ==
    ASSUME NEW kl, NEW vl, Lengths(kl, vl),
           NEW c, CacheTypeOK(c), WellFormed(c), NEW k \in Cached(c), NEW v \in Values
    PROVE  BytesUsed(Overwrite(c, k, v), kl, vl) = BytesUsed(c, kl, vl) - vl[c.entries[k].value] + vl[v]
  <1> DEFINE d == Overwrite(c, k, v)
  <1>1. /\ CacheTypeOK(d) /\ WellFormed(d) /\ Cached(d) = Cached(c)
        /\ d.entries[k].value = v
        /\ \A x \in Cached(c) \ {k} : d.entries[x] = c.entries[x]
    BY OverwriteKeeps
  <1> HIDE DEF d
  <1>2. /\ DOMAIN Sizes(d, kl, vl) = DOMAIN Sizes(c, kl, vl)
        /\ Sizes(d, kl, vl)[k] = kl[k] + vl[v] /\ Sizes(d, kl, vl)[k] \in Nat
        /\ \A x \in DOMAIN Sizes(c, kl, vl) \ {k} : Sizes(d, kl, vl)[x] = Sizes(c, kl, vl)[x]
    BY <1>1, SizesAreNat
  <1>3. SumFunction(Sizes(d, kl, vl)) = SumFunction(Sizes(c, kl, vl)) - Sizes(c, kl, vl)[k]
                                           + Sizes(d, kl, vl)[k]
    BY <1>2, SizesAreNat, SumChanges
  <1>4. /\ Sizes(c, kl, vl)[k] = kl[k] + vl[c.entries[k].value]
        /\ kl[k] \in Nat /\ vl[c.entries[k].value] \in Nat /\ vl[v] \in Nat
    BY SizesAreNat DEF Lengths
  <1>5. SumFunction(Sizes(c, kl, vl)) \in Nat
    BY SizesAreNat, SumIsNat DEF SumFunction
  <1>6. QED
    BY <1>2, <1>3, <1>4, <1>5 DEF BytesUsed, d

LEMMA BytesOfUnlink ==
    ASSUME NEW kl, NEW vl, Lengths(kl, vl),
           NEW c, CacheTypeOK(c), WellFormed(c), NEW k \in Cached(c)
    PROVE  BytesUsed(Unlink(c, k), kl, vl) = BytesUsed(c, kl, vl) - (kl[k] + vl[c.entries[k].value])
  <1> DEFINE d == Unlink(c, k)
  <1>1. /\ CacheTypeOK(d) /\ WellFormed(d) /\ Cached(d) = Cached(c) \ {k}
        /\ \A x \in Cached(d) : d.entries[x] = c.entries[x]
    BY UnlinkRemoves
  <1> HIDE DEF d
  <1>2. /\ DOMAIN Sizes(c, kl, vl) = DOMAIN Sizes(d, kl, vl) \cup {k} /\ k \notin DOMAIN Sizes(d, kl, vl)
        /\ Sizes(c, kl, vl)[k] \in Nat /\ Sizes(c, kl, vl)[k] = kl[k] + vl[c.entries[k].value]
        /\ \A x \in DOMAIN Sizes(d, kl, vl) : Sizes(c, kl, vl)[x] = Sizes(d, kl, vl)[x]
    <2>1. DOMAIN Sizes(d, kl, vl) = Cached(d) /\ DOMAIN Sizes(c, kl, vl) = Cached(c)
      BY DEF Sizes
    <2>2. Sizes(c, kl, vl)[k] \in Nat /\ Sizes(c, kl, vl)[k] = kl[k] + vl[c.entries[k].value]
      BY SizesAreNat
    <2>3. \A x \in Cached(d) : Sizes(c, kl, vl)[x] = Sizes(d, kl, vl)[x]
      BY <1>1 DEF Sizes
    <2>4. QED
      BY <1>1, <2>1, <2>2, <2>3
  <1>3. /\ SumFunction(Sizes(d, kl, vl)) \in Nat
        /\ SumFunction(Sizes(c, kl, vl)) = SumFunction(Sizes(d, kl, vl)) + Sizes(c, kl, vl)[k]
    <2>1. /\ IsFiniteSet(DOMAIN Sizes(d, kl, vl))
          /\ \A x \in DOMAIN Sizes(d, kl, vl) : Sizes(d, kl, vl)[x] \in Nat
      BY <1>1, SizesAreNat
    <2>2. QED
      BY <1>2, <2>1, SumGrows
  <1>4. QED
    BY <1>2, <1>3 DEF BytesUsed, d

LEMMA BytesOfInsert ==
    ASSUME NEW kl, NEW vl, Lengths(kl, vl),
           NEW c, CacheTypeOK(c), WellFormed(c), Len(c.order) <= MaxEntries,
           NEW k \in Keys \ Cached(c), NEW v \in Values
    PROVE  BytesUsed(Insert(c, k, v), kl, vl) =
               (IF Full(c)
                THEN BytesUsed(c, kl, vl) - (kl[Victim(c)] + vl[c.entries[Victim(c)].value])
                ELSE BytesUsed(c, kl, vl))
                  + kl[k] + vl[v]
  <1> DEFINE room == MakeRoom(c)
             d == Insert(c, k, v)
  <1>1. /\ CacheTypeOK(room) /\ WellFormed(room)
        /\ Cached(room) \subseteq Cached(c)
        /\ BytesUsed(room, kl, vl) =
               IF Full(c)
               THEN BytesUsed(c, kl, vl) - (kl[Victim(c)] + vl[c.entries[Victim(c)].value])
               ELSE BytesUsed(c, kl, vl)
    BY VictimIsCached, UnlinkRemoves, BytesOfUnlink DEF MakeRoom
  <1>2. CacheTypeOK(d) /\ WellFormed(d) /\ d.entries[k] = NewEntry(v)
    BY InsertAdds
  <1>v. NewEntry(v).value = v
    BY DEF NewEntry
  <1>3. /\ Cached(d) = Cached(room) \cup {k}
        /\ \A x \in Cached(room) : d.entries[x] = room.entries[x]
    BY <1>1 DEF Insert, Cached
  <1> HIDE DEF d, room
  <1>4. /\ DOMAIN Sizes(d, kl, vl) = DOMAIN Sizes(room, kl, vl) \cup {k} /\ k \notin DOMAIN Sizes(room, kl, vl)
        /\ Sizes(d, kl, vl)[k] = kl[k] + vl[v] /\ Sizes(d, kl, vl)[k] \in Nat
        /\ \A x \in DOMAIN Sizes(room, kl, vl) : Sizes(d, kl, vl)[x] = Sizes(room, kl, vl)[x]
    <2>1. DOMAIN Sizes(d, kl, vl) = Cached(d) /\ DOMAIN Sizes(room, kl, vl) = Cached(room)
      BY DEF Sizes
    <2>2. Sizes(d, kl, vl)[k] = kl[k] + vl[v] /\ Sizes(d, kl, vl)[k] \in Nat
      BY <1>2, <1>v, <1>3, SizesAreNat
    <2>3. \A x \in Cached(room) : Sizes(d, kl, vl)[x] = Sizes(room, kl, vl)[x]
      BY <1>3 DEF Sizes
    <2>4. QED
      BY <1>1, <1>3, <2>1, <2>2, <2>3
  <1>5. /\ SumFunction(Sizes(room, kl, vl)) \in Nat
        /\ SumFunction(Sizes(d, kl, vl)) = SumFunction(Sizes(room, kl, vl)) + Sizes(d, kl, vl)[k]
    <2>1. /\ IsFiniteSet(DOMAIN Sizes(room, kl, vl))
          /\ \A x \in DOMAIN Sizes(room, kl, vl) : Sizes(room, kl, vl)[x] \in Nat
      BY <1>1, SizesAreNat
    <2>2. QED
      BY <1>4, <2>1, SumGrows
  <1>6. kl[k] \in Nat /\ vl[v] \in Nat
    BY DEF Lengths
  <1>7. BytesUsed(d, kl, vl) = BytesUsed(room, kl, vl) + (kl[k] + vl[v]) /\ BytesUsed(room, kl, vl) \in Nat
    BY <1>4, <1>5 DEF BytesUsed
  <1>8. BytesUsed(d, kl, vl) = BytesUsed(room, kl, vl) + kl[k] + vl[v]
    BY <1>6, <1>7
  <1>9. QED
    BY <1>1, <1>8 DEF d

LEMMA BytesOfRead ==
    ASSUME NEW kl, NEW vl, Lengths(kl, vl),
           NEW c, CacheTypeOK(c), WellFormed(c), NEW k \in Cached(c)
    PROVE  BytesUsed(Read(c, k), kl, vl) = BytesUsed(c, kl, vl)
  <1> DEFINE d == Read(c, k)
  <1>1. /\ CacheTypeOK(d) /\ WellFormed(d) /\ Cached(d) = Cached(c)
        /\ \A x \in Cached(c) : d.entries[x].value = c.entries[x].value
    BY ReadKeeps
  <1> HIDE DEF d
  <1>2. Sizes(d, kl, vl) = Sizes(c, kl, vl)
    BY <1>1 DEF Sizes
  <1>3. QED
    BY <1>2 DEF BytesUsed, d

LEMMA BytesOfEmpty ==
    ASSUME NEW kl, NEW vl
    PROVE  BytesUsed(EmptyCache, kl, vl) = 0
  BY SumOfEmpty DEF BytesUsed, Sizes, Cached, EmptyCache
=============================================================================
