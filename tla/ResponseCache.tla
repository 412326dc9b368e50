--------------------------- MODULE ResponseCache ---------------------------
(***************************************************************************)
(* ResponseCache (api_gateway_service/app/core/cache.py): the gateway's    *)
(* in-memory response cache.  A dict holds the entries and a list keeps    *)
(* the keys from the least to the most recently used; the two are updated  *)
(* by separate statements.  Every method runs under an asyncio.Lock and    *)
(* never awaits while it holds it, so a method is one step.                *)
(*                                                                         *)
(* Time: an entry keeps the ticks left until its expiry; it is valid while *)
(* some are left (time.time() < self.expiry).                              *)
(***************************************************************************)
EXTENDS Integers, FiniteSets, Sequences, SequencesExt

CONSTANTS
  Keys,      \* cache keys
  Values,    \* responses
  TTLs,      \* values of ttl_seconds that callers use, in ticks
  MaxSize    \* max_size

ASSUME CacheAssumption ==
  IsFiniteSet(Keys) /\ TTLs \subseteq Nat /\ MaxSize \in Nat

VARIABLES
  cache,          \* self.cache, a function on the keys present
  access_order    \* self.access_order, oldest use first

vars == <<cache, access_order>>

Entries == [value : Values, left : Nat]

TypeOK ==
  /\ DOMAIN cache \subseteq Keys
  /\ cache \in [DOMAIN cache -> Entries]
  /\ access_order \in Seq(Keys)

Init ==
  /\ cache = <<>>
  /\ access_order = <<>>

IsValid(k) == cache[k].left > 0

\* The order after "if key in access_order: remove; append".  (Mutant: a key
\* that is listed stays where it is.)
MovedToEnd_Unmoved(order, k) ==
  IF k \in ToSet(order) THEN order ELSE Append(order, k)
MovedToEnd(order, k) == Append(RemoveFirst(order, k), k)

Present(K) == [k \in K |-> cache[k]]

\* get: a valid entry is returned and becomes the most recently used.
GetHit(k) ==
  /\ k \in DOMAIN cache
  /\ IsValid(k)
  /\ access_order' = MovedToEnd(access_order, k)
  /\ UNCHANGED cache

\* _remove_entry  (Mutant: the key stays in the list.)
RemoveEntry_DictOnly(k) ==
  cache' = Present(DOMAIN cache \ {k}) /\ UNCHANGED access_order
RemoveEntry(k) ==
  /\ cache' = Present(DOMAIN cache \ {k})
  /\ access_order' = RemoveFirst(access_order, k)

\* get: an expired entry is removed and the call is a miss.  (A miss on an
\* absent key changes nothing.)
GetExpired(k) ==
  /\ k \in DOMAIN cache
  /\ ~ IsValid(k)
  /\ RemoveEntry(k)

AtCapacity_Late == Cardinality(DOMAIN cache) > MaxSize      \* mutant
AtCapacity == Cardinality(DOMAIN cache) >= MaxSize

\* set: at capacity, and for a new key only, _evict_lru pops the head of the
\* list and deletes that key from the dict; then the entry is stored.
Set(k, v, t) ==
  LET evict == /\ AtCapacity
               /\ k \notin DOMAIN cache
               /\ access_order # <<>>
      kept  == IF evict THEN DOMAIN cache \ {Head(access_order)} ELSE DOMAIN cache
      order == IF evict THEN Tail(access_order) ELSE access_order
  IN /\ cache' = [j \in kept \cup {k} |->
                    IF j = k THEN [value |-> v, left |-> t] ELSE cache[j]]
     /\ access_order' = MovedToEnd(order, k)

\* delete: TRUE when the key was there.
Delete(k) ==
  /\ k \in DOMAIN cache
  /\ RemoveEntry(k)

Clear ==
  /\ cache' = <<>>
  /\ access_order' = <<>>

\* Time passes; an expired entry stays expired.
Tick ==
  /\ cache' = [k \in DOMAIN cache |->
                 [cache[k] EXCEPT !.left = IF @ > 0 THEN @ - 1 ELSE 0]]
  /\ UNCHANGED access_order

Next ==
  \/ \E k \in Keys : GetHit(k) \/ GetExpired(k) \/ Delete(k)
  \/ \E k \in Keys, v \in Values, t \in TTLs : Set(k, v, t)
  \/ Clear
  \/ Tick

Spec == Init /\ [][Next]_vars

-----------------------------------------------------------------------------
(* Properties *)

\* The list holds every key of the dict once and nothing else, although the
\* two are updated separately: otherwise _evict_lru pops a key that is not in
\* the dict and evicts nothing, and the cache grows past its limit for good.
OrderMatchesCache ==
  /\ ToSet(access_order) = DOMAIN cache
  /\ IsInjective(access_order)

\* "max_size: Maximum number of items to store" (line 69).
SizeBound == Cardinality(DOMAIN cache) <= MaxSize

\* The dict and the list together are an LRU cache: a key is older than
\* another when it is before it in the list.
Positions == 1 .. Len(access_order)
LRU == INSTANCE LRUCache WITH
         store <- cache,
         older <- {<<access_order[p[1]], access_order[p[2]]>> :
                     p \in {q \in Positions \X Positions : q[1] < q[2]}}
ImplementsLRU == LRU!Spec
=============================================================================
