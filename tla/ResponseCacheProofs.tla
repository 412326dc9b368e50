------------------------- MODULE ResponseCacheProofs -------------------------
(***************************************************************************)
(* For every set of keys and every max_size: the list of the response      *)
(* cache names exactly the keys of its dict, each once, and dict and list  *)
(* together implement an LRU cache.  With a positive max_size the dict     *)
(* never holds more than max_size entries.                                 *)
(***************************************************************************)
EXTENDS ResponseCache, SequenceTheorems, FiniteSetTheorems, TLAPS

\* In a list without repetition, removing the first occurrence of e leaves the
\* others in their order.
LEMMA RemoveFirstShape ==
  ASSUME NEW S, NEW s \in Seq(S), NEW e, IsInjective(s), NEW i \in 1 .. Len(s), s[i] = e
  PROVE  /\ RemoveFirst(s, e) \in Seq(S) /\ Len(RemoveFirst(s, e)) = Len(s) - 1
         /\ \A j \in 1 .. Len(s) - 1 :
              RemoveFirst(s, e)[j] = IF j < i THEN s[j] ELSE s[j + 1]
<1> DEFINE r == RemoveFirst(s, e)
           left == SubSeq(s, 1, i - 1)
           right == SubSeq(s, i + 1, Len(s))
<1>1. {j \in 1 .. Len(s) : s[j] = e} = {i}
  BY DEF IsInjective
<1>2. Min({i}) = i
  BY DEF Min
<1>3. r = left \o right
  <2>1. SelectInSeq(s, LAMBDA v : v = e) = i
    BY <1>1, <1>2, Zenon DEF SelectInSeq
  <2> QED
    BY <2>1, Zenon DEF RemoveFirst, RemoveAt
<1>4. /\ left \in Seq(S) /\ Len(left) = i - 1
      /\ \A j \in 1 .. i - 1 : left[j] = s[j]
  <2>1. \A j \in 1 .. i - 1 : s[j] \in S
    OBVIOUS
  <2> QED
    BY <2>1, SubSeqProperties
<1>5. /\ right \in Seq(S) /\ Len(right) = Len(s) - i
      /\ \A j \in 1 .. Len(s) - i : right[j] = s[i + j]
  <2>1. \A j \in i + 1 .. Len(s) : s[j] \in S
    OBVIOUS
  <2> QED
    BY <2>1, SubSeqProperties
<1> HIDE DEF r, left, right
<1>6. /\ r \in Seq(S) /\ Len(r) = Len(s) - 1
      /\ \A j \in 1 .. Len(s) - 1 : r[j] = IF j < i THEN s[j] ELSE s[j + 1]
  <2>1. /\ r \in Seq(S) /\ Len(r) = Len(left) + Len(right)
        /\ \A j \in 1 .. Len(left) + Len(right) :
             r[j] = IF j <= Len(left) THEN left[j] ELSE right[j - Len(left)]
    BY <1>3, <1>4, <1>5, ConcatProperties, Zenon
  <2>2. Len(r) = Len(s) - 1
    BY <1>4, <1>5, <2>1
  <2>3. ASSUME NEW j \in 1 .. Len(s) - 1
        PROVE  r[j] = IF j < i THEN s[j] ELSE s[j + 1]
    <3>1. CASE j < i
      BY <3>1, <1>4, <2>1, <2>2
    <3>2. CASE j >= i
      <4> DEFINE m == j - (i - 1)
      <4>1. /\ m \in 1 .. Len(s) - i /\ i + m = j + 1 /\ ~ (j < i)
            /\ ~ (j <= i - 1) /\ j \in 1 .. (i - 1) + (Len(s) - i)
        BY <3>2
      <4>2. r[j] = IF j <= i - 1 THEN left[j] ELSE right[m]
        BY <1>4, <1>5, <2>1, <4>1
      <4> HIDE DEF m
      <4>3. right[m] = s[j + 1]
        BY <4>1, <1>5
      <4> QED
        BY <4>1, <4>2, <4>3
    <3> QED
      BY <3>1, <3>2
  <2> QED
    BY <2>1, <2>2, <2>3
<1> QED
  BY <1>6 DEF r

\* It leaves no repetition, and all else that was there.
LEMMA RemoveFirstDistinct ==
  ASSUME NEW S, NEW s \in Seq(S), NEW e, IsInjective(s)
  PROVE  /\ RemoveFirst(s, e) \in Seq(S)
         /\ IsInjective(RemoveFirst(s, e))
         /\ ToSet(RemoveFirst(s, e)) = ToSet(s) \ {e}
<1> DEFINE r == RemoveFirst(s, e)
<1>1. CASE ~ \E i \in 1 .. Len(s) : s[i] = e
  BY <1>1 DEF RemoveFirst, ToSet
<1>2. CASE \E i \in 1 .. Len(s) : s[i] = e
  <2>1. PICK i \in 1 .. Len(s) : s[i] = e
    BY <1>2
  <2>7. /\ r \in Seq(S) /\ Len(r) = Len(s) - 1
        /\ \A j \in 1 .. Len(s) - 1 : r[j] = IF j < i THEN s[j] ELSE s[j + 1]
    BY <2>1, RemoveFirstShape
  <2> HIDE DEF r
  <2>8. IsInjective(r)
    BY <2>1, <2>7 DEF IsInjective
  <2>9. ToSet(r) = ToSet(s) \ {e}
    <3>1. ToSet(r) \subseteq ToSet(s) \ {e}
      BY <2>1, <2>7 DEF IsInjective, ToSet
    <3>2. ASSUME NEW j \in 1 .. Len(s), s[j] # e PROVE s[j] \in ToSet(r)
      <4>1. CASE j < i
        BY <4>1, <2>7 DEF ToSet
      <4>2. CASE j > i
        <5>1. j - 1 \in 1 .. Len(r) /\ r[j - 1] = s[j]
          BY <4>2, <2>7
        <5> QED
          BY <5>1, <2>7 DEF ToSet
      <4> QED
        BY <4>1, <4>2, <3>2, <2>1
    <3>3. ToSet(s) \ {e} \subseteq ToSet(r)
      BY <3>2 DEF ToSet
    <3> QED
      BY <3>1, <3>3
  <2> QED
    BY <2>7, <2>8, <2>9 DEF r
<1> QED
  BY <1>1, <1>2

\* Touching a key leaves a list without repetition of the same keys and it.
LEMMA MovedToEndDistinct ==
  ASSUME NEW S, NEW s \in Seq(S), NEW e \in S, IsInjective(s)
  PROVE  /\ MovedToEnd(s, e) \in Seq(S)
         /\ IsInjective(MovedToEnd(s, e))
         /\ ToSet(MovedToEnd(s, e)) = ToSet(s) \cup {e}
<1> DEFINE r == RemoveFirst(s, e)
           a == Append(r, e)
<1>1. r \in Seq(S) /\ IsInjective(r) /\ ToSet(r) = ToSet(s) \ {e}
  BY RemoveFirstDistinct
<1> HIDE DEF r
<1>2. /\ a \in Seq(S) /\ Len(a) = Len(r) + 1
      /\ \A i \in 1 .. Len(r) : a[i] = r[i]
      /\ a[Len(r) + 1] = e
  BY <1>1, AppendProperties
<1> HIDE DEF a
<1>3. \A i \in 1 .. Len(r) : r[i] # e
  BY <1>1 DEF ToSet
<1>4. IsInjective(a)
  BY <1>1, <1>2, <1>3 DEF IsInjective
<1>5. ToSet(a) = ToSet(r) \cup {e}
  <2>1. ToSet(a) \subseteq ToSet(r) \cup {e}
    BY <1>1, <1>2 DEF ToSet
  <2>2. ToSet(r) \subseteq ToSet(a)
    BY <1>1, <1>2 DEF ToSet
  <2>3. e \in ToSet(a)
    BY <1>1, <1>2 DEF ToSet
  <2> QED
    BY <2>1, <2>2, <2>3
<1>6. a = MovedToEnd(s, e)
  BY DEF a, r, MovedToEnd
<1> QED
  BY <1>1, <1>2, <1>4, <1>5, <1>6

\* Popping the oldest key of a list without repetition removes that key.
LEMMA TailDistinct ==
  ASSUME NEW S, NEW s \in Seq(S), s # <<>>, IsInjective(s)
  PROVE  /\ Tail(s) \in Seq(S)
         /\ IsInjective(Tail(s))
         /\ ToSet(Tail(s)) = ToSet(s) \ {Head(s)}
         /\ Head(s) \in ToSet(s)
<1> DEFINE t == Tail(s)
<1>1. /\ t \in Seq(S) /\ Len(t) = Len(s) - 1
      /\ \A i \in 1 .. Len(s) - 1 : t[i] = s[i + 1]
  BY HeadTailProperties
<1>2. Len(s) > 0 /\ Head(s) = s[1]
  BY EmptySeq
<1> HIDE DEF t
<1>3. IsInjective(t)
  <2>1. ASSUME NEW i \in DOMAIN t, NEW j \in DOMAIN t, t[i] = t[j] PROVE i = j
    <3>1. s[i + 1] = s[j + 1] /\ i + 1 \in DOMAIN s /\ j + 1 \in DOMAIN s
      BY <1>1, <2>1
    <3> QED
      BY <3>1, <1>1 DEF IsInjective
  <2> QED
    BY <2>1, Zenon DEF IsInjective
<1>4. ToSet(t) = ToSet(s) \ {Head(s)}
  <2>1. ToSet(t) \subseteq ToSet(s) \ {Head(s)}
    BY <1>1, <1>2 DEF ToSet, IsInjective
  <2>2. ASSUME NEW j \in 1 .. Len(s), s[j] # s[1] PROVE s[j] \in ToSet(t)
    <3>1. j - 1 \in 1 .. Len(t) /\ t[j - 1] = s[j]
      BY <2>2, <1>1
    <3> QED
      BY <3>1, <1>1 DEF ToSet
  <2>3. ToSet(s) \ {Head(s)} \subseteq ToSet(t)
    BY <2>2, <1>2 DEF ToSet
  <2> QED
    BY <2>1, <2>3
<1>5. Head(s) \in ToSet(s)
  BY <1>2 DEF ToSet
<1> QED
  BY <1>1, <1>3, <1>4, <1>5 DEF t

-----------------------------------------------------------------------------
CacheInv == TypeOK /\ OrderMatchesCache

LEMMA InitCacheInv == Init => CacheInv
<1> SUFFICES ASSUME Init PROVE CacheInv
  OBVIOUS
<1>1. DOMAIN cache = {} /\ DOMAIN access_order = {}
  BY DEF Init
<1>2. access_order \in Seq(Keys)
  BY EmptySeq DEF Init
<1>3. cache \in [DOMAIN cache -> Entries]
  BY <1>1 DEF Init
<1> QED
  BY <1>1, <1>2, <1>3 DEF CacheInv, TypeOK, OrderMatchesCache, ToSet, IsInjective

\* _remove_entry keeps the dict and the list in step.
LEMMA RemoveEntryKeepsInv ==
  ASSUME CacheInv, NEW k \in Keys, RemoveEntry(k) PROVE CacheInv'
<1>1. /\ access_order' \in Seq(Keys) /\ IsInjective(access_order')
      /\ ToSet(access_order') = ToSet(access_order) \ {k}
  BY RemoveFirstDistinct DEF CacheInv, TypeOK, OrderMatchesCache, RemoveEntry
<1>2. DOMAIN cache' = DOMAIN cache \ {k} /\ \A j \in DOMAIN cache' : cache'[j] = cache[j]
  BY DEF RemoveEntry, Present
<1>3. cache' \in [DOMAIN cache' -> Entries]
  BY <1>2 DEF CacheInv, TypeOK, RemoveEntry, Present
<1> QED
  BY <1>1, <1>2, <1>3 DEF CacheInv, TypeOK, OrderMatchesCache

\* set: what it leaves in the dict and in the list.
LEMMA SetKeepsInv ==
  ASSUME CacheInv, NEW k \in Keys, NEW v \in Values, NEW t \in TTLs, Set(k, v, t)
  PROVE  CacheInv'
<1> DEFINE evict == /\ AtCapacity
                    /\ k \notin DOMAIN cache
                    /\ access_order # <<>>
           kept  == IF evict THEN DOMAIN cache \ {Head(access_order)}
                             ELSE DOMAIN cache
           order == IF evict THEN Tail(access_order) ELSE access_order
<1>1. /\ cache' = [j \in kept \cup {k} |->
                    IF j = k THEN [value |-> v, left |-> t] ELSE cache[j]]
      /\ access_order' = MovedToEnd(order, k)
  BY DEF Set
<1>2. order \in Seq(Keys) /\ IsInjective(order) /\ ToSet(order) = kept
  <2>1. CASE evict
    BY <2>1, TailDistinct DEF CacheInv, TypeOK, OrderMatchesCache
  <2>2. CASE ~ evict
    BY <2>2 DEF CacheInv, TypeOK, OrderMatchesCache
  <2> QED
    BY <2>1, <2>2
<1>3. kept \subseteq DOMAIN cache
  OBVIOUS
<1> HIDE DEF kept, order
<1>4. /\ access_order' \in Seq(Keys) /\ IsInjective(access_order')
      /\ ToSet(access_order') = kept \cup {k}
  BY <1>1, <1>2, MovedToEndDistinct
<1>5. DOMAIN cache' = kept \cup {k}
  BY <1>1
<1>6. cache' \in [kept \cup {k} -> Entries]
  <2>1. [value |-> v, left |-> t] \in Entries
    BY CacheAssumption DEF Entries
  <2>2. \A j \in kept : cache[j] \in Entries
    BY <1>3 DEF CacheInv, TypeOK
  <2> QED
    BY <1>1, <2>1, <2>2
<1> QED
  BY <1>3, <1>4, <1>5, <1>6 DEF CacheInv, TypeOK, OrderMatchesCache

LEMMA NextCacheInv == CacheInv /\ [Next]_vars => CacheInv'
<1> SUFFICES ASSUME CacheInv, [Next]_vars PROVE CacheInv'
  OBVIOUS
<1>1. ASSUME NEW k \in Keys, GetHit(k) PROVE CacheInv'
  <2>1. access_order' = MovedToEnd(access_order, k) /\ cache' = cache
    BY <1>1 DEF GetHit
  <2>2. /\ access_order' \in Seq(Keys) /\ IsInjective(access_order')
        /\ ToSet(access_order') = ToSet(access_order) \cup {k}
    BY <2>1, MovedToEndDistinct DEF CacheInv, TypeOK, OrderMatchesCache
  <2> QED
    BY <1>1, <2>1, <2>2 DEF CacheInv, TypeOK, OrderMatchesCache, GetHit
<1>2. ASSUME NEW k \in Keys, GetExpired(k) PROVE CacheInv'
  BY <1>2, RemoveEntryKeepsInv DEF GetExpired
<1>3. ASSUME NEW k \in Keys, Delete(k) PROVE CacheInv'
  BY <1>3, RemoveEntryKeepsInv DEF Delete
<1>4. ASSUME NEW k \in Keys, NEW v \in Values, NEW t \in TTLs, Set(k, v, t)
      PROVE CacheInv'
  BY <1>4, SetKeepsInv
<1>5. CASE Clear
  <2>1. DOMAIN cache' = {} /\ DOMAIN access_order' = {}
    BY <1>5 DEF Clear
  <2>2. access_order' \in Seq(Keys)
    BY <1>5, EmptySeq DEF Clear
  <2>3. cache' \in [DOMAIN cache' -> Entries]
    BY <1>5, <2>1 DEF Clear
  <2> QED
    BY <2>1, <2>2, <2>3 DEF CacheInv, TypeOK, OrderMatchesCache, ToSet, IsInjective
<1>6. CASE Tick
  <2>1. DOMAIN cache' = DOMAIN cache /\ access_order' = access_order
    BY <1>6 DEF Tick
  <2>2. ASSUME NEW k \in DOMAIN cache PROVE cache'[k] \in Entries
    <3>1. cache[k] \in Entries
      BY DEF CacheInv, TypeOK
    <3>2. cache'[k] = [cache[k] EXCEPT !.left = IF @ > 0 THEN @ - 1 ELSE 0]
      BY <1>6 DEF Tick
    <3> QED
      BY <3>1, <3>2 DEF Entries
  <2>3. cache' \in [DOMAIN cache' -> Entries]
    BY <1>6, <2>1, <2>2 DEF Tick
  <2> QED
    BY <2>1, <2>3 DEF CacheInv, TypeOK, OrderMatchesCache
<1>7. CASE UNCHANGED vars
  BY <1>7 DEF vars, CacheInv, TypeOK, OrderMatchesCache
<1> QED
  BY <1>1, <1>2, <1>3, <1>4, <1>5, <1>6, <1>7 DEF Next

\* The list of _evict_lru and the dict never get out of step, whatever the
\* keys, the values, the times to live and max_size are.
THEOREM OrderCorrect == Spec => [](TypeOK /\ OrderMatchesCache)
BY InitCacheInv, NextCacheInv, PTL DEF Spec, CacheInv

-----------------------------------------------------------------------------
\* A set of a new key into a full cache frees one slot first, because the list
\* is not empty when the dict is not.
LEMMA SetKeepsSize ==
  ASSUME CacheInv, SizeBound, MaxSize > 0,
         NEW k \in Keys, NEW v \in Values, NEW t \in TTLs, Set(k, v, t)
  PROVE  SizeBound'
<1>1. IsFiniteSet(DOMAIN cache)
  BY FS_Subset, CacheAssumption DEF CacheInv, TypeOK
<1>2. Cardinality(DOMAIN cache) \in Nat /\ MaxSize \in Nat
  BY <1>1, FS_CardinalityType, CacheAssumption
<1>3. CASE k \in DOMAIN cache
  <2>1. DOMAIN cache' = DOMAIN cache
    BY <1>3 DEF Set
  <2> QED
    BY <2>1 DEF SizeBound
<1>4. CASE k \notin DOMAIN cache /\ Cardinality(DOMAIN cache) < MaxSize
  <2>1. DOMAIN cache' = DOMAIN cache \cup {k}
    BY <1>2, <1>4 DEF Set, AtCapacity
  <2> QED
    <3>1. Cardinality(DOMAIN cache \cup {k}) = Cardinality(DOMAIN cache) + 1
      BY <1>1, <1>4, FS_AddElement
    <3> QED
      BY <1>2, <1>4, <2>1, <3>1 DEF SizeBound
<1>5. CASE k \notin DOMAIN cache /\ Cardinality(DOMAIN cache) >= MaxSize
  <2>1. DOMAIN cache # {}
    BY <1>2, <1>5, FS_EmptySet
  <2>2. access_order # <<>>
    BY <2>1 DEF CacheInv, OrderMatchesCache, ToSet
  <2> DEFINE h == Head(access_order)
  <2>3. h \in DOMAIN cache
    BY <2>2, TailDistinct DEF CacheInv, TypeOK, OrderMatchesCache
  <2>4. DOMAIN cache' = (DOMAIN cache \ {h}) \cup {k}
    BY <1>5, <2>2 DEF Set, AtCapacity
  <2> HIDE DEF h
  <2>5. /\ IsFiniteSet(DOMAIN cache \ {h})
        /\ Cardinality(DOMAIN cache \ {h}) = Cardinality(DOMAIN cache) - 1
    BY <1>1, <2>3, FS_RemoveElement
  <2>6. Cardinality(DOMAIN cache') = Cardinality(DOMAIN cache)
    <3>1. k \notin DOMAIN cache \ {h}
      BY <1>5
    <3>2. Cardinality((DOMAIN cache \ {h}) \cup {k})
            = Cardinality(DOMAIN cache \ {h}) + 1
      BY <2>5, <3>1, FS_AddElement
    <3> QED
      BY <1>2, <2>4, <2>5, <3>2
  <2> QED
    BY <2>6 DEF SizeBound
<1> QED
  BY <1>2, <1>3, <1>4, <1>5

\* A step that adds no key to the dict keeps the bound.
LEMMA ShrinkKeepsSize ==
  ASSUME CacheInv, SizeBound, DOMAIN cache' \subseteq DOMAIN cache
  PROVE  SizeBound'
<1>1. IsFiniteSet(DOMAIN cache)
  BY FS_Subset, CacheAssumption DEF CacheInv, TypeOK
<1>2. IsFiniteSet(DOMAIN cache') /\ Cardinality(DOMAIN cache') <= Cardinality(DOMAIN cache)
  BY <1>1, FS_Subset
<1>3. /\ Cardinality(DOMAIN cache') \in Nat
      /\ Cardinality(DOMAIN cache) \in Nat
      /\ MaxSize \in Nat
  BY <1>1, <1>2, FS_CardinalityType, CacheAssumption
<1> QED
  BY <1>2, <1>3 DEF SizeBound

\* "max_size: Maximum number of items to store" holds for every positive
\* max_size.  (With max_size = 0 a set into the empty dict stores an entry.)
THEOREM SizeBounded == ASSUME MaxSize > 0 PROVE Spec => []SizeBound
<1>1. Init => SizeBound
  <2> SUFFICES ASSUME Init PROVE SizeBound
    OBVIOUS
  <2>1. DOMAIN cache = {}
    BY DEF Init
  <2> QED
    BY <2>1, FS_EmptySet, CacheAssumption DEF SizeBound
<1>2. CacheInv /\ SizeBound /\ [Next]_vars => SizeBound'
  <2> SUFFICES ASSUME CacheInv, SizeBound, [Next]_vars PROVE SizeBound'
    OBVIOUS
  <2>1. ASSUME NEW k \in Keys, NEW v \in Values, NEW t \in TTLs, Set(k, v, t)
        PROVE SizeBound'
    BY <2>1, SetKeepsSize
  <2>2. ASSUME NEW k \in Keys, GetHit(k) \/ GetExpired(k) \/ Delete(k)
        PROVE SizeBound'
    <3>1. DOMAIN cache' \subseteq DOMAIN cache
      BY <2>2 DEF GetHit, GetExpired, Delete, RemoveEntry, Present
    <3> QED
      BY <3>1, ShrinkKeepsSize
  <2>3. CASE Clear \/ Tick \/ UNCHANGED vars
    <3>1. DOMAIN cache' \subseteq DOMAIN cache
      BY <2>3 DEF Clear, Tick, vars
    <3> QED
      BY <3>1, ShrinkKeepsSize
  <2> QED
    BY <2>1, <2>2, <2>3 DEF Next
<1> QED
  BY <1>1, <1>2, InitCacheInv, NextCacheInv, PTL DEF Spec

-----------------------------------------------------------------------------
(* The refinement: the list is the order of use that LRUCache speaks of.   *)

\* The pairs of keys of which the first is listed before the second.
Before(s) ==
  {<<s[p[1]], s[p[2]]>> : p \in {q \in (1 .. Len(s)) \X (1 .. Len(s)) : q[1] < q[2]}}

LEMMA BeforeIs ==
  ASSUME NEW S, NEW s \in Seq(S)
  PROVE  /\ Before(s) \subseteq S \X S
         /\ \A a, b : <<a, b>> \in Before(s) <=>
                        \E i, j \in 1 .. Len(s) : i < j /\ s[i] = a /\ s[j] = b
<1>1. \A i \in 1 .. Len(s) : s[i] \in S
  OBVIOUS
<1>2. Before(s) \subseteq S \X S
  BY <1>1 DEF Before
<1>3. ASSUME NEW a, NEW b, <<a, b>> \in Before(s)
      PROVE  \E i, j \in 1 .. Len(s) : i < j /\ s[i] = a /\ s[j] = b
  <2>1. PICK p \in {q \in (1 .. Len(s)) \X (1 .. Len(s)) : q[1] < q[2]} :
               <<a, b>> = <<s[p[1]], s[p[2]]>>
    BY <1>3 DEF Before
  <2>2. /\ p[1] \in 1 .. Len(s) /\ p[2] \in 1 .. Len(s) /\ p[1] < p[2]
        /\ s[p[1]] = a /\ s[p[2]] = b
    BY <2>1
  <2> QED
    BY <2>2
<1>4. ASSUME NEW i \in 1 .. Len(s), NEW j \in 1 .. Len(s), i < j
      PROVE  <<s[i], s[j]>> \in Before(s)
  <2> DEFINE p == <<i, j>>
  <2>1. p \in {q \in (1 .. Len(s)) \X (1 .. Len(s)) : q[1] < q[2]}
    BY <1>4
  <2>2. <<s[p[1]], s[p[2]]>> = <<s[i], s[j]>>
    OBVIOUS
  <2> QED
    BY <2>1, <2>2 DEF Before
<1> QED
  BY <1>2, <1>3, <1>4

\* Sets of pairs with the same members are the same.
LEMMA SamePairs ==
  ASSUME NEW S, NEW A, NEW B, A \subseteq S \X S, B \subseteq S \X S,
         \A a, b \in S : <<a, b>> \in A <=> <<a, b>> \in B
  PROVE  A = B
<1>1. \A p \in S \X S : p = <<p[1], p[2]>> /\ p[1] \in S /\ p[2] \in S
  OBVIOUS
<1> QED
  BY <1>1

\* Removing a key keeps the order of the others.
LEMMA RemoveFirstBefore ==
  ASSUME NEW S, NEW s \in Seq(S), NEW e, IsInjective(s)
  PROVE  Before(RemoveFirst(s, e)) = {p \in Before(s) : p[1] # e /\ p[2] # e}
<1> DEFINE r == RemoveFirst(s, e)
           B == {p \in Before(s) : p[1] # e /\ p[2] # e}
<1>1. r \in Seq(S)
  BY RemoveFirstDistinct
<1>2. Before(r) \subseteq S \X S /\ B \subseteq S \X S
  BY <1>1, BeforeIs
<1>3. CASE ~ \E i \in 1 .. Len(s) : s[i] = e
  <2>1. r = s
    BY <1>3 DEF RemoveFirst
  <2>2. \A a, b \in S : <<a, b>> \in Before(s) => a # e /\ b # e
    BY <1>3, BeforeIs
  <2>3. \A a, b \in S : <<a, b>> \in Before(r) <=> <<a, b>> \in B
    BY <2>1, <2>2
  <2> HIDE DEF r, B
  <2> QED
    BY <1>2, <2>3, SamePairs DEF r, B
<1>4. CASE \E i \in 1 .. Len(s) : s[i] = e
  <2>1. PICK i \in 1 .. Len(s) : s[i] = e
    BY <1>4
  <2>2. /\ Len(r) = Len(s) - 1
        /\ \A j \in 1 .. Len(s) - 1 : r[j] = IF j < i THEN s[j] ELSE s[j + 1]
    BY <2>1, RemoveFirstShape
  <2> HIDE DEF r
  <2>3. ASSUME NEW a \in S, NEW b \in S, <<a, b>> \in Before(r)
        PROVE  <<a, b>> \in B
    <3>1. PICK j \in 1 .. Len(r), k \in 1 .. Len(r) : j < k /\ r[j] = a /\ r[k] = b
      BY <1>1, <2>3, BeforeIs
    <3>2. PICK m \in 1 .. Len(s), n \in 1 .. Len(s) :
                 m < n /\ s[m] = a /\ s[n] = b /\ m # i /\ n # i
      <4>1. CASE k < i
        BY <4>1, <2>2, <3>1
      <4>2. CASE j < i /\ k >= i
        <5>1. s[j] = a /\ s[k + 1] = b /\ j \in 1 .. Len(s) /\ k + 1 \in 1 .. Len(s)
          BY <4>2, <2>2, <3>1
        <5> QED
          BY <4>2, <5>1
      <4>3. CASE j >= i
        <5>1. s[j + 1] = a /\ s[k + 1] = b /\ j + 1 \in 1 .. Len(s) /\ k + 1 \in 1 .. Len(s)
          BY <4>3, <2>2, <3>1
        <5> QED
          BY <4>3, <3>1, <5>1
      <4> QED
        BY <4>1, <4>2, <4>3, <3>1
    <3>3. <<a, b>> \in Before(s)
      BY <3>2, BeforeIs
    <3>4. a # e /\ b # e
      BY <2>1, <3>2 DEF IsInjective
    <3> QED
      BY <3>3, <3>4
  <2>4. ASSUME NEW a \in S, NEW b \in S, <<a, b>> \in B
        PROVE  <<a, b>> \in Before(r)
    <3>1. PICK m \in 1 .. Len(s), n \in 1 .. Len(s) : m < n /\ s[m] = a /\ s[n] = b
      BY <2>4, BeforeIs
    <3>2. m # i /\ n # i
      BY <2>1, <2>4, <3>1
    <3>3. \A x \in 1 .. Len(s) : x # i =>
            LET y == IF x < i THEN x ELSE x - 1 IN y \in 1 .. Len(r) /\ r[y] = s[x]
      BY <2>1, <2>2
    <3> DEFINE j == IF m < i THEN m ELSE m - 1
               k == IF n < i THEN n ELSE n - 1
    <3>4. j \in 1 .. Len(r) /\ r[j] = a /\ k \in 1 .. Len(r) /\ r[k] = b
      BY <3>1, <3>2, <3>3
    <3>5. j < k
      BY <3>1, <3>2
    <3> HIDE DEF j, k
    <3> QED
      BY <1>1, <3>4, <3>5, BeforeIs
  <2> HIDE DEF B
  <2>5. Before(r) = B
    BY <1>2, <2>3, <2>4, SamePairs
  <2> QED
    BY <2>5 DEF r, B
<1> QED
  BY <1>3, <1>4

\* Touching a key puts it after all others, in whose order nothing changes.
LEMMA MovedToEndBefore ==
  ASSUME NEW S, NEW s \in Seq(S), NEW e \in S, IsInjective(s)
  PROVE  Before(MovedToEnd(s, e)) =
           {p \in Before(s) : p[1] # e /\ p[2] # e} \cup ((ToSet(s) \ {e}) \X {e})
<1> DEFINE r == RemoveFirst(s, e)
           a == Append(r, e)
           B == Before(r) \cup (ToSet(r) \X {e})
<1>1. r \in Seq(S) /\ ToSet(r) = ToSet(s) \ {e}
  BY RemoveFirstDistinct
<1>2. Before(r) = {p \in Before(s) : p[1] # e /\ p[2] # e}
  BY RemoveFirstBefore
<1> HIDE DEF r
<1>3. /\ a \in Seq(S) /\ Len(a) = Len(r) + 1
      /\ \A i \in 1 .. Len(r) : a[i] = r[i]
      /\ a[Len(r) + 1] = e
  BY <1>1, AppendProperties
<1> HIDE DEF a
<1>4. ToSet(r) \subseteq S /\ Before(a) \subseteq S \X S /\ B \subseteq S \X S
  BY <1>1, <1>3, BeforeIs DEF ToSet
<1>5. ASSUME NEW x \in S, NEW y \in S, <<x, y>> \in Before(a)
      PROVE  <<x, y>> \in B
  <2>1. PICK i \in 1 .. Len(a), j \in 1 .. Len(a) : i < j /\ a[i] = x /\ a[j] = y
    BY <1>3, <1>5, BeforeIs
  <2>2. i \in 1 .. Len(r) /\ r[i] = x
    BY <1>1, <1>3, <2>1
  <2>3. CASE j \in 1 .. Len(r)
    BY <1>1, <1>3, <2>1, <2>2, <2>3, BeforeIs
  <2>4. CASE j = Len(r) + 1
    BY <1>1, <1>3, <2>1, <2>2, <2>4 DEF ToSet
  <2> QED
    BY <1>1, <1>3, <2>1, <2>3, <2>4
<1>6. ASSUME NEW x \in S, NEW y \in S, <<x, y>> \in B
      PROVE  <<x, y>> \in Before(a)
  <2>1. CASE <<x, y>> \in Before(r)
    <3>1. PICK i \in 1 .. Len(r), j \in 1 .. Len(r) : i < j /\ r[i] = x /\ r[j] = y
      BY <1>1, <2>1, BeforeIs
    <3>2. i \in 1 .. Len(a) /\ j \in 1 .. Len(a) /\ a[i] = x /\ a[j] = y
      BY <1>1, <1>3, <3>1
    <3> QED
      BY <1>3, <3>1, <3>2, BeforeIs
  <2>2. CASE x \in ToSet(r) /\ y = e
    <3>1. PICK i \in 1 .. Len(r) : r[i] = x
      BY <2>2 DEF ToSet
    <3> DEFINE j == Len(r) + 1
    <3>2. i \in 1 .. Len(a) /\ j \in 1 .. Len(a) /\ i < j /\ a[i] = x /\ a[j] = y
      BY <1>1, <1>3, <2>2, <3>1
    <3> HIDE DEF j
    <3> QED
      BY <1>3, <3>2, BeforeIs
  <2> QED
    BY <1>6, <2>1, <2>2
<1> HIDE DEF B
<1>7. Before(a) = B
  BY <1>4, <1>5, <1>6, SamePairs
<1> QED
  BY <1>1, <1>2, <1>7 DEF a, r, B, MovedToEnd

\* The head is the one key before all others, and popping it keeps their order.
LEMMA TailBefore ==
  ASSUME NEW S, NEW s \in Seq(S), s # <<>>, IsInjective(s)
  PROVE  /\ Before(Tail(s)) = {p \in Before(s) : p[1] # Head(s) /\ p[2] # Head(s)}
         /\ {k \in ToSet(s) : \A j \in ToSet(s) \ {k} : <<k, j>> \in Before(s)} = {Head(s)}
<1> DEFINE t == Tail(s)
           h == Head(s)
           B == {p \in Before(s) : p[1] # h /\ p[2] # h}
<1>1. /\ t \in Seq(S) /\ Len(t) = Len(s) - 1
      /\ \A i \in 1 .. Len(s) - 1 : t[i] = s[i + 1]
  BY HeadTailProperties
<1>2. Len(s) > 0 /\ h = s[1] /\ 1 \in 1 .. Len(s)
  BY EmptySeq
<1> HIDE DEF t, h
<1>3. Before(t) \subseteq S \X S /\ B \subseteq S \X S
  BY <1>1, BeforeIs
<1>4. ASSUME NEW a \in S, NEW b \in S, <<a, b>> \in Before(t)
      PROVE  <<a, b>> \in B
  <2>1. PICK i \in 1 .. Len(t), j \in 1 .. Len(t) : i < j /\ t[i] = a /\ t[j] = b
    BY <1>1, <1>4, BeforeIs
  <2> DEFINE m == i + 1
             n == j + 1
  <2>2. m \in 1 .. Len(s) /\ n \in 1 .. Len(s) /\ m < n /\ m # 1 /\ n # 1
    BY <1>1, <2>1
  <2>3. s[m] = a /\ s[n] = b
    BY <1>1, <2>1
  <2> HIDE DEF m, n
  <2>4. a # h /\ b # h
    BY <1>2, <2>2, <2>3 DEF IsInjective
  <2> QED
    BY <2>2, <2>3, <2>4, BeforeIs
<1>5. ASSUME NEW a \in S, NEW b \in S, <<a, b>> \in B
      PROVE  <<a, b>> \in Before(t)
  <2>1. PICK m \in 1 .. Len(s), n \in 1 .. Len(s) : m < n /\ s[m] = a /\ s[n] = b
    BY <1>5, BeforeIs
  <2>2. m # 1
    BY <1>2, <1>5, <2>1
  <2> DEFINE i == m - 1
             j == n - 1
  <2>3. i \in 1 .. Len(t) /\ j \in 1 .. Len(t) /\ i < j /\ t[i] = a /\ t[j] = b
    BY <1>1, <2>1, <2>2
  <2> HIDE DEF i, j
  <2> QED
    BY <1>1, <2>3, BeforeIs
<1>6. Before(t) = B
  <2> HIDE DEF B
  <2> QED
    BY <1>3, <1>4, <1>5, SamePairs
<1>7. ASSUME NEW j \in ToSet(s) \ {h}
      PROVE  <<h, j>> \in Before(s) /\ <<j, h>> \notin Before(s)
  <2>1. PICK i \in 1 .. Len(s) : s[i] = j
    BY <1>7 DEF ToSet
  <2>2. <<h, j>> \in Before(s)
    BY <1>2, <1>7, <2>1, BeforeIs
  <2>3. <<j, h>> \notin Before(s)
    <3>1. \A n \in 1 .. Len(s) : s[n] = h => n = 1
      BY <1>2 DEF IsInjective
    <3> QED
      BY <3>1, BeforeIs
  <2> QED
    BY <2>2, <2>3
<1>8. h \in ToSet(s)
  BY <1>2 DEF ToSet
<1>9. {k \in ToSet(s) : \A j \in ToSet(s) \ {k} : <<k, j>> \in Before(s)} = {h}
  BY <1>7, <1>8
<1> QED
  BY <1>6, <1>9 DEF t, h

\* The refinement mapping of the module, in terms of the list.
LEMMA OlderIsBefore ==
  /\ {<<access_order[p[1]], access_order[p[2]]>> :
        p \in {q \in Positions \X Positions : q[1] < q[2]}} = Before(access_order)
  /\ {<<access_order[p[1]], access_order[p[2]]>> :
        p \in {q \in Positions \X Positions : q[1] < q[2]}}' = Before(access_order')
BY DEF Positions, Before

\* Touching k in the list is touching it in the order, for the keys K kept.
LEMMA TouchedIsMoved ==
  ASSUME NEW s \in Seq(Keys), IsInjective(s), NEW k \in Keys, NEW older,
         Before(s) = {p \in older : {p[1], p[2]} \subseteq ToSet(s)}
  PROVE  Before(MovedToEnd(s, k)) =
           {p \in older : {p[1], p[2]} \subseteq ToSet(s) \ {k}} \cup ((ToSet(s) \ {k}) \X {k})
BY MovedToEndBefore

LEMMA ReadRefined ==
  ASSUME CacheInv, NEW k \in Keys, GetHit(k)
  PROVE  LRU!Read(k)
<1>1. /\ k \in DOMAIN cache /\ cache[k].left > 0 /\ cache' = cache
      /\ access_order' = MovedToEnd(access_order, k)
  BY DEF GetHit, IsValid
<1>2. /\ access_order \in Seq(Keys) /\ IsInjective(access_order)
      /\ ToSet(access_order) = DOMAIN cache
  BY DEF CacheInv, TypeOK, OrderMatchesCache
<1>3. \A p \in Before(access_order) : {p[1], p[2]} \subseteq ToSet(access_order)
  BY <1>2, BeforeIs DEF Before, ToSet
<1>4. Before(access_order') =
        {p \in Before(access_order) : {p[1], p[2]} \subseteq DOMAIN cache \ {k}}
          \cup ((DOMAIN cache \ {k}) \X {k})
  BY <1>1, <1>2, <1>3, TouchedIsMoved
<1> QED
  BY <1>1, <1>4, OlderIsBefore DEF LRU!Read, LRU!Touched, LRU!Stored

LEMMA DropRefined ==
  ASSUME CacheInv, NEW k \in Keys, k \in DOMAIN cache, RemoveEntry(k)
  PROVE  LRU!Drop(k)
<1>1. cache' = [j \in DOMAIN cache \ {k} |-> cache[j]]
  BY DEF RemoveEntry, Present
<1>2. Before(access_order') = {p \in Before(access_order) : p[1] # k /\ p[2] # k}
  BY RemoveFirstBefore DEF RemoveEntry, CacheInv, TypeOK, OrderMatchesCache
<1> QED
  BY <1>1, <1>2, OlderIsBefore DEF LRU!Drop, LRU!Without, LRU!Stored

LEMMA WriteRefined ==
  ASSUME CacheInv, NEW k \in Keys, NEW v \in Values, NEW t \in TTLs, Set(k, v, t)
  PROVE  LRU!Write(k, v, t)
<1> DEFINE full  == k \notin DOMAIN cache /\ Cardinality(DOMAIN cache) >= MaxSize
           evict == /\ AtCapacity
                    /\ k \notin DOMAIN cache
                    /\ access_order # <<>>
           left  == IF evict THEN DOMAIN cache \ {Head(access_order)} ELSE DOMAIN cache
           order == IF evict THEN Tail(access_order) ELSE access_order
           oldest == {j \in DOMAIN cache : \A i \in DOMAIN cache \ {j} :
                                              <<j, i>> \in Before(access_order)}
           evicted == IF full THEN oldest ELSE {}
           kept == (DOMAIN cache \ evicted) \cup {k}
<1>1. /\ cache' = [j \in left \cup {k} |->
                    IF j = k THEN [value |-> v, left |-> t] ELSE cache[j]]
      /\ access_order' = MovedToEnd(order, k)
  BY DEF Set
<1>2. /\ access_order \in Seq(Keys) /\ IsInjective(access_order)
      /\ ToSet(access_order) = DOMAIN cache
  BY DEF CacheInv, TypeOK, OrderMatchesCache
<1>3. left \cup {k} = kept /\ left \ {k} = kept \ {k}
  <2>1. CASE evict
    BY <2>1, <1>2, TailBefore DEF AtCapacity
  <2>2. CASE access_order = <<>>
    BY <2>2, <1>2 DEF ToSet
  <2>3. CASE ~ full
    BY <2>3 DEF AtCapacity
  <2> QED
    BY <2>1, <2>2, <2>3 DEF AtCapacity
<1>4. \A p \in Before(access_order) : {p[1], p[2]} \subseteq ToSet(access_order)
  BY <1>2, BeforeIs DEF Before, ToSet
<1>5. /\ order \in Seq(Keys) /\ IsInjective(order) /\ ToSet(order) = left
      /\ Before(order) = {p \in Before(access_order) : {p[1], p[2]} \subseteq ToSet(order)}
  <2>1. CASE evict
    <3> DEFINE h == Head(access_order)
    <3>1. /\ order \in Seq(Keys) /\ IsInjective(order) /\ ToSet(order) = ToSet(access_order) \ {h}
          /\ Before(order) = {p \in Before(access_order) : p[1] # h /\ p[2] # h}
      BY <2>1, <1>2, TailDistinct, TailBefore
    <3> HIDE DEF order, h
    <3>2. Before(order) = {p \in Before(access_order) : {p[1], p[2]} \subseteq ToSet(order)}
      BY <1>4, <3>1
    <3> QED
      BY <2>1, <1>2, <3>1, <3>2 DEF h
  <2>2. CASE ~ evict
    BY <2>2, <1>2, <1>4
  <2> QED
    BY <2>1, <2>2
<1> HIDE DEF left, order, kept
<1>6. Before(access_order') =
        {p \in Before(access_order) : {p[1], p[2]} \subseteq kept \ {k}} \cup ((kept \ {k}) \X {k})
  BY <1>1, <1>3, <1>5, TouchedIsMoved
<1>7. cache' = [j \in kept |-> IF j = k THEN [value |-> v, left |-> t] ELSE cache[j]]
  BY <1>1, <1>3
<1>8. LRU!Oldest = oldest
  BY OlderIsBefore DEF LRU!Oldest, LRU!Stored
<1> DEFINE lkept == (LRU!Stored \ (IF k \notin LRU!Stored /\ LRU!Cardinality(LRU!Stored) >= MaxSize
                                   THEN LRU!Oldest ELSE {})) \cup {k}
<1>9. kept = lkept
  <2>1. LRU!Cardinality(DOMAIN cache) = Cardinality(DOMAIN cache)
    BY DEF LRU!Cardinality, Cardinality
  <2> QED
    BY <1>8, <2>1 DEF kept, LRU!Stored
<1> HIDE DEF lkept
<1>10. Before(access_order') = LRU!Touched(k, lkept)
  BY <1>6, <1>9, OlderIsBefore DEF LRU!Touched
<1>11. cache' = [j \in lkept |-> IF j = k THEN [value |-> v, left |-> t] ELSE cache[j]]
  BY <1>7, <1>9
<1>12. {<<access_order[p[1]], access_order[p[2]]>> :
          p \in {q \in Positions \X Positions : q[1] < q[2]}}' = LRU!Touched(k, lkept)
  BY <1>10, OlderIsBefore
<1> QED
  BY <1>11, <1>12 DEF LRU!Write, lkept

\* The dict and the list of ResponseCache together implement an LRU cache: what
\* _evict_lru pops is the entry whose last use is the longest ago, for every
\* max_size, whatever the keys, the times to live and the deletions.
THEOREM CacheIsLRU == Spec => ImplementsLRU
<1>1. Init => LRU!Init
  <2> SUFFICES ASSUME Init
               PROVE  LRU!Init
    OBVIOUS
  <2>1. cache = <<>> /\ access_order = <<>>
    BY DEF Init
  <2>2. Before(access_order) = {}
    BY <2>1 DEF Before
  <2> QED
    BY <2>1, <2>2, OlderIsBefore DEF LRU!Init
<1>2. CacheInv /\ [Next]_vars => [LRU!Next]_LRU!vars
  <2> SUFFICES ASSUME CacheInv, [Next]_vars
               PROVE  [LRU!Next]_LRU!vars
    OBVIOUS
  <2>1. ASSUME NEW k \in Keys, GetHit(k)
        PROVE  LRU!Next
    BY <2>1, ReadRefined DEF LRU!Next
  <2>2. ASSUME NEW k \in Keys, GetExpired(k) \/ Delete(k)
        PROVE  LRU!Next
    BY <2>2, DropRefined DEF LRU!Next, GetExpired, Delete
  <2>3. ASSUME NEW k \in Keys, NEW v \in Values, NEW t \in TTLs, Set(k, v, t)
        PROVE  LRU!Next
    BY <2>3, WriteRefined DEF LRU!Next
  <2>4. CASE Clear
    <3>1. cache' = <<>> /\ access_order' = <<>>
      BY <2>4 DEF Clear
    <3>2. Before(access_order') = {}
      BY <3>1 DEF Before
    <3> QED
      BY <3>1, <3>2, OlderIsBefore DEF LRU!Clear, LRU!Next
  <2>5. CASE Tick
    <3>1. /\ cache' = [k \in DOMAIN cache |->
                        [cache[k] EXCEPT !.left = IF @ > 0 THEN @ - 1 ELSE 0]]
          /\ access_order' = access_order
      BY <2>5 DEF Tick
    <3> QED
      BY <3>1, OlderIsBefore DEF LRU!Tick, LRU!Stored, LRU!Next
  <2>6. CASE UNCHANGED vars
    BY <2>6, OlderIsBefore DEF vars, LRU!vars
  <2> QED
    BY <2>1, <2>2, <2>3, <2>4, <2>5, <2>6 DEF Next
<1> QED
  BY <1>1, <1>2, InitCacheInv, NextCacheInv, PTL DEF Spec, ImplementsLRU, LRU!Spec
=============================================================================
