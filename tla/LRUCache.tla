------------------------------ MODULE LRUCache ------------------------------
(***************************************************************************)
(* What ResponseCache promises: a store of at most MaxSize entries with a  *)
(* time to live, in which a write into a full store evicts exactly the     *)
(* entry whose last use is the longest ago.  Recency is a relation, not a  *)
(* list: <<j, k>> \in older when j was last used before k.                 *)
(***************************************************************************)
EXTENDS Naturals, FiniteSets

CONSTANTS Keys, Values, TTLs, MaxSize

VARIABLES store, older

vars == <<store, older>>

Stored == DOMAIN store

Init == store = <<>> /\ older = {}

Without(k) == {p \in older : p[1] # k /\ p[2] # k}

\* k becomes the most recently used of the keys in K.
Touched(k, K) ==
  {p \in older : {p[1], p[2]} \subseteq K \ {k}} \cup ((K \ {k}) \X {k})

Oldest == {k \in Stored : \A j \in Stored \ {k} : <<k, j>> \in older}

Read(k) ==
  /\ k \in Stored /\ store[k].left > 0
  /\ older' = Touched(k, Stored)
  /\ UNCHANGED store

Drop(k) ==
  /\ k \in Stored
  /\ store' = [j \in Stored \ {k} |-> store[j]]
  /\ older' = Without(k)

Write(k, v, t) ==
  LET evicted == IF k \notin Stored /\ Cardinality(Stored) >= MaxSize
                 THEN Oldest ELSE {}
      kept    == (Stored \ evicted) \cup {k}
  IN /\ store' = [j \in kept |-> IF j = k THEN [value |-> v, left |-> t]
                                 ELSE store[j]]
     /\ older' = Touched(k, kept)

Clear == store' = <<>> /\ older' = {}

Tick ==
  /\ store' = [k \in Stored |->
                 [store[k] EXCEPT !.left = IF @ > 0 THEN @ - 1 ELSE 0]]
  /\ UNCHANGED older

Next ==
  \/ \E k \in Keys : Read(k) \/ Drop(k)
  \/ \E k \in Keys, v \in Values, t \in TTLs : Write(k, v, t)
  \/ Clear
  \/ Tick

Spec == Init /\ [][Next]_vars
=============================================================================
