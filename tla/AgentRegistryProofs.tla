------------------------- MODULE AgentRegistryProofs -------------------------
(***************************************************************************)
(* Proofs about the agent registry, for any agents, any number of          *)
(* concurrent requests and any number of faults: the dict has exactly the  *)
(* rows of the database, agent_deleted is told only of deleted agents, and *)
(* wrong discovery pages are removed.                                      *)
(*                                                                         *)
(* The first two need what a request that waits has seen: CallsInv says    *)
(* what the database holds for the agent that a request is about, by where *)
(* the request is.                                                         *)
(***************************************************************************)
EXTENDS AgentRegistry, TLAPS

\* What holds of one request, by where it is.
CallInv(c) ==
  /\ call[c].pc \in {"update", "refresh", "delete", "reply"} =>
       call[c].id \in Agents /\ db[call[c].id] # "none"
  /\ call[c].pc \in {"deleted", "absent", "publish"} =>
       call[c].id \in Agents /\ db[call[c].id] = "deleted"
  /\ call[c].pc \in {"keys", "del"} =>
       call[c].id = "none" \/ db[call[c].id] = "deleted"
  /\ call[c].pc = "reply" => call[c].row \in States
  /\ call[c].pc \in {"update", "scan", "setex"} => call[c].value \in States

CallsInv == \A c \in Calls : CallInv(c)

\* A client has only ids that were committed.
KnownInv == \A a \in known : db[a] # "none"

Inv == TypeOK /\ CallsInv /\ KnownInv /\ DictFollowsRows /\ DeletionTold

-----------------------------------------------------------------------------
\* A fresh uuid is no other request's, and its request is at "reply".
LEMMA InsertKeeps ==
  ASSUME Inv, NEW c \in Calls, NEW a \in Agents, NEW s \in States,
         Insert(c, a, s), faults' \in 0 .. MaxFaults
  PROVE  Inv'
<1>1. (TypeOK /\ CallsInv /\ KnownInv)'
  BY RegistryAssumption DEF Inv, TypeOK, CallsInv, CallInv, KnownInv, Waits, States,
    At, GoTo, Idle, Insert
<1>2. (DictFollowsRows /\ DeletionTold)'
  BY RegistryAssumption DEF Inv, TypeOK, CallsInv, CallInv, DictFollowsRows,
    DeletionTold, Rows, At, States, GoTo, Idle, Insert
<1> QED BY <1>1, <1>2 DEF Inv

\* The row was found.
LEMMA UpdateReadKeeps ==
  ASSUME Inv, NEW c \in Calls, NEW a \in Agents, NEW s \in States,
         UpdateRead(c, a, s), faults' \in 0 .. MaxFaults
  PROVE  Inv'
<1>1. (TypeOK /\ CallsInv /\ KnownInv)'
  BY RegistryAssumption DEF Inv, TypeOK, CallsInv, CallInv, KnownInv, Waits, States,
    Rows, At, GoTo, Idle, UpdateRead
<1>2. (DictFollowsRows /\ DeletionTold)'
  BY RegistryAssumption DEF Inv, TypeOK, CallsInv, CallInv, DictFollowsRows,
    DeletionTold, Rows, At, States, GoTo, Idle, UpdateRead
<1> QED BY <1>1, <1>2 DEF Inv

\* Only rows that are there are written, so deleted agents stay deleted.
LEMMA UpdateCommitKeeps ==
  ASSUME Inv, NEW c \in Calls, UpdateCommit(c), faults' \in 0 .. MaxFaults
  PROVE  Inv'
<1>1. (TypeOK /\ CallsInv /\ KnownInv)'
  <2>1. CASE call[c].id \in Rows
    <3>1. /\ db' = [db EXCEPT ![call[c].id] = db'[call[c].id]]
          /\ db'[call[c].id] \in States
          /\ call' = [call EXCEPT ![c] = [Idle EXCEPT !.pc = "refresh",
                                                   !.id = call[c].id]]
          /\ UNCHANGED lock
      BY <2>1, RegistryAssumption DEF Inv, TypeOK, CallsInv, CallInv, States, Rows,
        At, End, Idle, UpdateCommit
    <3>2. TypeOK'
      BY <2>1, <3>1, RegistryAssumption DEF Inv, TypeOK, CallsInv, CallInv, Waits,
        States, Rows, Idle, UpdateCommit
    <3>3. CallsInv' /\ KnownInv'
      BY <2>1, <3>1, RegistryAssumption DEF Inv, TypeOK, CallsInv, CallInv,
        KnownInv, States, Rows, At, Idle, UpdateCommit
    <3> QED BY <3>2, <3>3
  <2>2. CASE call[c].id \notin Rows
    BY <2>2, RegistryAssumption DEF Inv, TypeOK, CallsInv, CallInv, KnownInv, Waits,
      States, Rows, At, End, Idle, UpdateCommit
  <2> QED BY <2>1, <2>2
<1>2. (DictFollowsRows /\ DeletionTold)'
  BY RegistryAssumption DEF Inv, TypeOK, CallsInv, CallInv, DictFollowsRows,
    DeletionTold, Rows, At, States, GoTo, End, Idle, UpdateCommit
<1> QED BY <1>1, <1>2 DEF Inv

\* The row is still there, so it has a state for the dict.
LEMMA RefreshKeeps ==
  ASSUME Inv, NEW c \in Calls, Refresh(c), faults' \in 0 .. MaxFaults
  PROVE  Inv'
<1>1. (TypeOK /\ CallsInv /\ KnownInv)'
  BY RegistryAssumption DEF Inv, TypeOK, CallsInv, CallInv, KnownInv, Waits, States,
    Rows, At, GoTo, End, Idle, Refresh
<1>2. (DictFollowsRows /\ DeletionTold)'
  BY RegistryAssumption DEF Inv, TypeOK, CallsInv, CallInv, DictFollowsRows,
    DeletionTold, Rows, At, States, GoTo, End, Idle, Refresh
<1> QED BY <1>1, <1>2 DEF Inv

\* An entry is added or replaced by one with a state.
LEMMA StoreKeeps ==
  ASSUME Inv, NEW c \in Calls, Store(c), faults' \in 0 .. MaxFaults
  PROVE  Inv'
<1>1. (TypeOK /\ CallsInv /\ KnownInv)'
  BY RegistryAssumption DEF Inv, TypeOK, CallsInv, CallInv, KnownInv, Waits, States,
    At, GoTo, Idle, Store, Stored
<1>2. (DictFollowsRows /\ DeletionTold)'
  BY RegistryAssumption DEF Inv, TypeOK, CallsInv, CallInv, DictFollowsRows,
    DeletionTold, Rows, At, States, GoTo, Idle, Store, Stored
<1> QED BY <1>1, <1>2 DEF Inv

\* An id that a client has was committed: if it is no row, it is deleted.
LEMMA DeleteReadKeeps ==
  ASSUME Inv, NEW c \in Calls, NEW a \in Agents,
         DeleteRead(c, a), faults' \in 0 .. MaxFaults
  PROVE  Inv'
<1>1. (TypeOK /\ CallsInv /\ KnownInv)'
  <2>1. TypeOK' /\ KnownInv'
    BY RegistryAssumption DEF Inv, TypeOK, CallsInv, CallInv, KnownInv, Waits,
      States, Rows, At, Idle, DeleteRead
  <2>2. CallsInv'
    BY RegistryAssumption DEF Inv, TypeOK, CallsInv, CallInv, KnownInv, Waits,
      States, Rows, At, Idle, DeleteRead
  <2> QED BY <2>1, <2>2
<1>2. (DictFollowsRows /\ DeletionTold)'
  BY RegistryAssumption DEF Inv, TypeOK, CallsInv, CallInv, DictFollowsRows,
    DeletionTold, Rows, At, States, GoTo, Idle, DeleteRead
<1> QED BY <1>1, <1>2 DEF Inv

\* The row is no more, whatever else holds it.
LEMMA DeleteCommitKeeps ==
  ASSUME Inv, NEW c \in Calls, DeleteCommit(c), faults' \in 0 .. MaxFaults
  PROVE  Inv'
<1>1. (TypeOK /\ CallsInv /\ KnownInv)'
  BY RegistryAssumption DEF Inv, TypeOK, CallsInv, CallInv, KnownInv, Waits, States,
    At, GoTo, DeleteCommit
<1>2. (DictFollowsRows /\ DeletionTold)'
  BY RegistryAssumption DEF Inv, TypeOK, CallsInv, CallInv, DictFollowsRows,
    DeletionTold, Rows, At, States, GoTo, DeleteCommit
<1> QED BY <1>1, <1>2 DEF Inv

\* The entry removed is one of a deleted agent.
LEMMA DropKeeps ==
  ASSUME Inv, NEW c \in Calls, Drop(c), faults' \in 0 .. MaxFaults
  PROVE  Inv'
<1>1. (TypeOK /\ CallsInv /\ KnownInv)'
  BY RegistryAssumption DEF Inv, TypeOK, CallsInv, CallInv, KnownInv, Waits, States,
    At, GoTo, Drop
<1>2. (DictFollowsRows /\ DeletionTold)'
  BY RegistryAssumption DEF Inv, TypeOK, CallsInv, CallInv, DictFollowsRows,
    DeletionTold, Rows, At, States, GoTo, Drop
<1> QED BY <1>1, <1>2 DEF Inv

\* The entry removed is one of a deleted agent, on the other path too.
LEMMA DropAbsentKeeps ==
  ASSUME Inv, NEW c \in Calls, DropAbsent(c), faults' \in 0 .. MaxFaults
  PROVE  Inv'
<1>1. (TypeOK /\ CallsInv /\ KnownInv)'
  BY RegistryAssumption DEF Inv, TypeOK, CallsInv, CallInv, KnownInv, Waits, States,
    At, GoTo, End, Idle, DropAbsent
<1>2. (DictFollowsRows /\ DeletionTold)'
  BY RegistryAssumption DEF Inv, TypeOK, CallsInv, CallInv, DictFollowsRows,
    DeletionTold, Rows, At, States, GoTo, End, Idle, DropAbsent
<1> QED BY <1>1, <1>2 DEF Inv

\* A request that goes on to the event is about a deleted agent.
LEMMA InvalidateKeysKeeps ==
  ASSUME Inv, NEW c \in Calls, InvalidateKeys(c), faults' \in 0 .. MaxFaults
  PROVE  Inv'
<1>1. (TypeOK /\ CallsInv /\ KnownInv)'
  BY RegistryAssumption DEF Inv, TypeOK, CallsInv, CallInv, KnownInv, Waits, States,
    At, GoTo, End, Announce, Idle, InvalidateKeys
<1>2. (DictFollowsRows /\ DeletionTold)'
  BY RegistryAssumption DEF Inv, TypeOK, CallsInv, CallInv, DictFollowsRows,
    DeletionTold, Rows, At, States, GoTo, End, Announce, Idle, InvalidateKeys
<1> QED BY <1>1, <1>2 DEF Inv

\* A request that goes on to the event is about a deleted agent.
LEMMA InvalidateDeleteKeeps ==
  ASSUME Inv, NEW c \in Calls, InvalidateDelete(c), faults' \in 0 .. MaxFaults
  PROVE  Inv'
<1>1. (TypeOK /\ CallsInv /\ KnownInv)'
  BY RegistryAssumption DEF Inv, TypeOK, CallsInv, CallInv, KnownInv, Waits, States,
    At, GoTo, End, Announce, Idle, InvalidateDelete
<1>2. (DictFollowsRows /\ DeletionTold)'
  BY RegistryAssumption DEF Inv, TypeOK, CallsInv, CallInv, DictFollowsRows,
    DeletionTold, Rows, At, States, GoTo, End, Announce, Idle, InvalidateDelete
<1> QED BY <1>1, <1>2 DEF Inv

\* The agent told of is deleted.
LEMMA PublishKeeps ==
  ASSUME Inv, NEW c \in Calls, Publish(c), faults' \in 0 .. MaxFaults
  PROVE  Inv'
<1>1. (TypeOK /\ CallsInv /\ KnownInv)'
  BY RegistryAssumption DEF Inv, TypeOK, CallsInv, CallInv, KnownInv, Waits, States,
    At, GoTo, End, Idle, Publish
<1>2. (DictFollowsRows /\ DeletionTold)'
  BY RegistryAssumption DEF Inv, TypeOK, CallsInv, CallInv, DictFollowsRows,
    DeletionTold, Rows, At, States, GoTo, End, Idle, Publish
<1> QED BY <1>1, <1>2 DEF Inv

\* A discovery touches neither rows nor dict.
LEMMA CacheMissKeeps ==
  ASSUME Inv, NEW c \in Calls,
         NEW q \in States, CacheMiss(c, q), faults' \in 0 .. MaxFaults
  PROVE  Inv'
<1>1. (TypeOK /\ CallsInv /\ KnownInv)'
  BY RegistryAssumption DEF Inv, TypeOK, CallsInv, CallInv, KnownInv, Waits, States,
    At, GoTo, Idle, CacheMiss
<1>2. (DictFollowsRows /\ DeletionTold)'
  BY RegistryAssumption DEF Inv, TypeOK, CallsInv, CallInv, DictFollowsRows,
    DeletionTold, Rows, At, States, GoTo, Idle, CacheMiss
<1> QED BY <1>1, <1>2 DEF Inv

\* A discovery touches neither rows nor dict.
LEMMA ScanKeeps ==
  ASSUME Inv, NEW c \in Calls, Scan(c), faults' \in 0 .. MaxFaults
  PROVE  Inv'
<1>1. (TypeOK /\ CallsInv /\ KnownInv)'
  BY RegistryAssumption DEF Inv, TypeOK, CallsInv, CallInv, KnownInv, Waits, States,
    At, GoTo, End, Idle, Matching, Scan
<1>2. (DictFollowsRows /\ DeletionTold)'
  BY RegistryAssumption DEF Inv, TypeOK, CallsInv, CallInv, DictFollowsRows,
    DeletionTold, Rows, At, States, GoTo, End, Idle, Matching, Scan
<1> QED BY <1>1, <1>2 DEF Inv

\* A discovery touches neither rows nor dict.
LEMMA CachePageKeeps ==
  ASSUME Inv, NEW c \in Calls, CachePage(c), faults' \in 0 .. MaxFaults
  PROVE  Inv'
<1>1. (TypeOK /\ CallsInv /\ KnownInv)'
  BY RegistryAssumption DEF Inv, TypeOK, CallsInv, CallInv, KnownInv, Waits, States,
    At, GoTo, End, Idle, Matching, CachePage
<1>2. (DictFollowsRows /\ DeletionTold)'
  BY RegistryAssumption DEF Inv, TypeOK, CallsInv, CallInv, DictFollowsRows,
    DeletionTold, Rows, At, States, GoTo, End, Idle, Matching, CachePage
<1> QED BY <1>1, <1>2 DEF Inv

\* A row left out of the dict is recorded as such.
LEMMA DbFailsKeeps ==
  ASSUME Inv, NEW c \in Calls, DbFails(c), faults' \in 0 .. MaxFaults
  PROVE  Inv'
<1>1. (TypeOK /\ CallsInv /\ KnownInv)'
  BY RegistryAssumption DEF Inv, TypeOK, CallsInv, CallInv, KnownInv, Waits, States,
    Rows, At, GoTo, End, Idle, DbFails
<1>2. (DictFollowsRows /\ DeletionTold)'
  BY RegistryAssumption DEF Inv, TypeOK, CallsInv, CallInv, DictFollowsRows,
    DeletionTold, Rows, At, States, GoTo, End, Idle, DbFails
<1> QED BY <1>1, <1>2 DEF Inv

\* The request goes on as if Redis had answered.
LEMMA RedisFailsKeeps ==
  ASSUME Inv, NEW c \in Calls, RedisFails(c), faults' \in 0 .. MaxFaults
  PROVE  Inv'
<1>1. (TypeOK /\ CallsInv /\ KnownInv)'
  BY RegistryAssumption DEF Inv, TypeOK, CallsInv, CallInv, KnownInv, Waits, States,
    At, GoTo, End, Announce, Idle, RedisFails
<1>2. (DictFollowsRows /\ DeletionTold)'
  BY RegistryAssumption DEF Inv, TypeOK, CallsInv, CallInv, DictFollowsRows,
    DeletionTold, Rows, At, States, GoTo, End, Announce, Idle, RedisFails
<1> QED BY <1>1, <1>2 DEF Inv

-----------------------------------------------------------------------------
\* Only Redis changes.
LEMMA ExpireKeeps ==
  ASSUME Inv, NEW q \in States, Expire(q), UNCHANGED faults
  PROVE  Inv'
BY DEF Inv, TypeOK, CallsInv, CallInv, KnownInv, DictFollowsRows, DeletionTold, Rows, At,
  Expire

\* No request is left, and the dict is the rows or empty.
LEMMA RestartKeeps ==
  ASSUME Inv, Restart, faults' \in 0 .. MaxFaults
  PROVE  Inv'
BY RegistryAssumption DEF Inv, TypeOK, CallsInv, CallInv, KnownInv, DictFollowsRows,
  DeletionTold,
   Rows, At, Idle, Waits, States, Restart

\* Nothing is registered.
LEMMA InitInv == Init => Inv
BY RegistryAssumption DEF Init, Inv, TypeOK, CallsInv, CallInv, KnownInv,
  DictFollowsRows,
   DeletionTold, Rows, At, Idle, Waits, States

\* The invariant is inductive: one case for each disjunct of Next.
LEMMA StepInv == Inv /\ [Next]_vars => Inv'
<1> SUFFICES ASSUME Inv, [Next]_vars PROVE Inv'
  OBVIOUS
<1>0. faults \in 0 .. MaxFaults
  BY DEF Inv, TypeOK
<1>1. ASSUME NEW c \in Calls, Request(c), UNCHANGED faults PROVE Inv'
  BY <1>0, <1>1, InsertKeeps, UpdateReadKeeps, DeleteReadKeeps, CacheMissKeeps DEF
    Request, RegisterAgent, UpdateAgentDetails, DeregisterAgent, DiscoverAgents
<1>2. ASSUME NEW c \in Calls, Locking(c), UNCHANGED faults PROVE Inv'
  BY <1>0, <1>2, StoreKeeps, DropKeeps, DropAbsentKeeps, ScanKeeps DEF Locking
<1>3. ASSUME NEW c \in Calls, Answered(c), UNCHANGED faults PROVE Inv'
  BY <1>0, <1>3, UpdateCommitKeeps, RefreshKeeps, DeleteCommitKeeps,
    InvalidateKeysKeeps,
     InvalidateDeleteKeeps, PublishKeeps, CachePageKeeps DEF Answered
<1>4. ASSUME NEW q \in States, Expire(q), UNCHANGED faults PROVE Inv'
  BY <1>4, ExpireKeeps
<1>5. CASE Fault
  <2>1. faults' \in 0 .. MaxFaults
    BY <1>0, <1>5, RegistryAssumption DEF Fault
  <2> QED BY <1>5, <2>1, RestartKeeps, DbFailsKeeps, RedisFailsKeeps DEF Fault
<1>6. CASE UNCHANGED vars
  BY <1>6 DEF vars, Inv, TypeOK, CallsInv, CallInv, KnownInv, DictFollowsRows,
    DeletionTold, Rows, At
<1> QED BY <1>1, <1>2, <1>3, <1>4, <1>5, <1>6 DEF Next

\* The invariant holds in every reachable state.
LEMMA InvHolds == Spec => []Inv
BY InitInv, StepInv, PTL DEF Spec

\* The registry's variables keep their types: no request ever puts what is not
\* an agent's state into the dict, though rows vanish between its calls.
THEOREM RegistryTypeCorrect == Spec => []TypeOK
BY InvHolds, PTL DEF Inv

\* The dict has an entry for exactly the rows of the database, but for what is
\* under way, what a failure left behind and deleted agents that an update
\* stored again: no other interleaving of registrations, updates, deletions
\* and repairs of the dict loses an agent or brings one back.
THEOREM DictIsTheRows == Spec => []DictFollowsRows
BY InvHolds, PTL DEF Inv

\* agent_deleted is published only for agents that the database has deleted
\* for good, by whichever of the two paths of deregister_agent.
THEOREM DeletionEventsTrue == Spec => []DeletionTold
BY InvHolds, PTL DEF Inv

-----------------------------------------------------------------------------
(* Discovery pages.  PagesInvalidated alone is not inductive: a request    *)
(* that has sent KEYS clears only what was cached then.                    *)

\* The request will remove page q.
Clears(c, q) == At(c, "keys") \/ (At(c, "del") /\ q \in call[c].keys)

PagesInv ==
  faults = 0 => \A q \in cached \ late : Matching(q) = {} \/ \E c \in Calls : Clears(c, q)

\* One request goes on, and clears what it was to clear.
LEMMA PagesUndisturbed ==
  ASSUME PagesInv, NEW c \in Calls, UNCHANGED <<memory, cached, late, faults>>,
         \A d \in Calls \ {c} : call'[d] = call[d],
         \A q \in cached : Clears(c, q) => Clears(c, q)'
  PROVE  PagesInv'
<1> SUFFICES ASSUME faults = 0, NEW q \in cached \ late
             PROVE  Matching(q)' = {} \/ \E d \in Calls : Clears(d, q)'
  BY DEF PagesInv
<1>1. CASE Matching(q) = {}
  BY <1>1 DEF Matching
<1>2. ASSUME NEW d \in Calls, Clears(d, q) PROVE Clears(d, q)'
  BY <1>2 DEF Clears, At
<1> QED BY <1>1, <1>2 DEF PagesInv

\* A request that neither changes the dict nor clears a page.
LEMMA OtherPages ==
  ASSUME Inv, PagesInv, NEW c \in Calls, UNCHANGED faults,
         \/ \E a \in Agents, s \in States : Insert(c, a, s) \/ UpdateRead(c, a, s)
         \/ \E a \in Agents : DeleteRead(c, a)
         \/ \E q \in States : CacheMiss(c, q)
         \/ UpdateCommit(c) \/ Refresh(c) \/ DeleteCommit(c) \/ Scan(c) \/ Publish(c)
  PROVE  PagesInv'
<1>1. call \in [Calls -> [pc : Waits, id : Agents \cup {"none"}, row : States \cup {"none"},
                         value : States \cup {"none"}, keys : SUBSET States]]
  BY DEF Inv, TypeOK
<1>2. UNCHANGED <<memory, cached, late, faults>>
  BY DEF Insert, UpdateRead, DeleteRead, CacheMiss, UpdateCommit, Refresh, DeleteCommit, Scan, Publish
<1>3. ~ At(c, "keys") /\ ~ At(c, "del")
  BY DEF At, Insert, UpdateRead, DeleteRead, CacheMiss, UpdateCommit, Refresh, DeleteCommit,
         Scan, Publish
<1>4. \A d \in Calls \ {c} : call'[d] = call[d]
  BY <1>1 DEF Insert, UpdateRead, DeleteRead, CacheMiss, UpdateCommit, Refresh, DeleteCommit,
              Scan, Publish, GoTo, End
<1> QED BY <1>2, <1>3, <1>4, PagesUndisturbed DEF Clears

\* A change of the dict starts an invalidation, in the same step.
LEMMA ChangePages ==
  ASSUME Inv, PagesInv, NEW c \in Calls, UNCHANGED faults,
         Store(c) \/ Drop(c) \/ DropAbsent(c)
  PROVE  PagesInv'
<1>1. call \in [Calls -> [pc : Waits, id : Agents \cup {"none"}, row : States \cup {"none"},
                         value : States \cup {"none"}, keys : SUBSET States]]
  BY DEF Inv, TypeOK
<1>2. CASE At(c, "keys")'
  BY <1>2 DEF PagesInv, Clears
<1>3. CASE ~ At(c, "keys")'
  <2>1. DropAbsent(c) /\ UNCHANGED <<memory, cached, late>>
    BY <1>1, <1>3 DEF Store, Drop, DropAbsent, At, GoTo, Idle
  <2>2. ~ At(c, "keys") /\ ~ At(c, "del")
    BY <2>1 DEF DropAbsent, At
  <2>3. \A d \in Calls \ {c} : call'[d] = call[d]
    BY <1>1, <2>1 DEF DropAbsent, GoTo, End
  <2> QED BY <2>1, <2>2, <2>3, PagesUndisturbed DEF Clears
<1> QED BY <1>2, <1>3

\* KEYS finds every page there is.
LEMMA InvalidateKeysPages ==
  ASSUME Inv, PagesInv, NEW c \in Calls, InvalidateKeys(c), UNCHANGED faults
  PROVE  PagesInv'
<1>1. call \in [Calls -> [pc : Waits, id : Agents \cup {"none"}, row : States \cup {"none"},
                         value : States \cup {"none"}, keys : SUBSET States]]
  BY DEF Inv, TypeOK
<1>2. \A d \in Calls \ {c} : call'[d] = call[d]
  BY <1>1 DEF InvalidateKeys, Announce, End
<1>3. ASSUME NEW q \in cached PROVE Clears(c, q)'
  BY <1>1, <1>3 DEF InvalidateKeys, Clears, At
<1> QED BY <1>2, <1>3, PagesUndisturbed DEF InvalidateKeys

\* DEL removes the pages that only this request was to clear.
LEMMA InvalidateDeletePages ==
  ASSUME Inv, PagesInv, NEW c \in Calls, InvalidateDelete(c), UNCHANGED faults
  PROVE  PagesInv'
<1>1. call \in [Calls -> [pc : Waits, id : Agents \cup {"none"}, row : States \cup {"none"},
                         value : States \cup {"none"}, keys : SUBSET States]]
  BY DEF Inv, TypeOK
<1>2. \A d \in Calls \ {c} : call'[d] = call[d]
  BY <1>1 DEF InvalidateDelete, Announce, End
<1> SUFFICES ASSUME faults = 0, NEW q \in (cached \ late)'
             PROVE  Matching(q)' = {} \/ \E d \in Calls : Clears(d, q)'
  BY DEF PagesInv
<1>3. q \in cached \ late /\ q \notin call[c].keys
  BY DEF InvalidateDelete
<1>4. CASE Matching(q) = {}
  BY <1>4 DEF Matching, InvalidateDelete
<1>5. ASSUME NEW d \in Calls, Clears(d, q) PROVE Clears(d, q)'
  <2>1. d # c
    BY <1>3, <1>5 DEF Clears, At, InvalidateDelete
  <2> QED BY <1>2, <1>5, <2>1 DEF Clears, At
<1> QED BY <1>3, <1>4, <1>5 DEF PagesInv

\* A page that is wrong when it arrives is late.
LEMMA CachePagePages ==
  ASSUME Inv, PagesInv, NEW c \in Calls, CachePage(c), UNCHANGED faults
  PROVE  PagesInv'
<1>1. call \in [Calls -> [pc : Waits, id : Agents \cup {"none"}, row : States \cup {"none"},
                         value : States \cup {"none"}, keys : SUBSET States]]
  BY DEF Inv, TypeOK
<1>2. \A d \in Calls \ {c} : call'[d] = call[d]
  BY <1>1 DEF CachePage, End
<1> SUFFICES ASSUME faults = 0, NEW q \in (cached \ late)'
             PROVE  Matching(q)' = {} \/ \E d \in Calls : Clears(d, q)'
  BY DEF PagesInv
<1>3. CASE Matching(q) = {}
  BY <1>3 DEF Matching, CachePage
<1>4. CASE Matching(q) # {}
  <2>1. q \in cached \ late
    BY <1>4 DEF CachePage
  <2>2. PICK d \in Calls : Clears(d, q)
    BY <1>4, <2>1 DEF PagesInv
  <2>3. d # c
    BY <2>2 DEF Clears, At, CachePage
  <2> QED BY <1>2, <2>2, <2>3 DEF Clears, At
<1> QED BY <1>3, <1>4

LEMMA StepPages == Inv /\ PagesInv /\ [Next]_vars => PagesInv'
<1> SUFFICES ASSUME Inv, PagesInv, [Next]_vars PROVE PagesInv'
  OBVIOUS
<1>1. ASSUME NEW c \in Calls, Request(c), UNCHANGED faults PROVE PagesInv'
  BY <1>1, OtherPages DEF Request, RegisterAgent, UpdateAgentDetails, DeregisterAgent,
                          DiscoverAgents
<1>2. ASSUME NEW c \in Calls, Locking(c), UNCHANGED faults PROVE PagesInv'
  BY <1>2, OtherPages, ChangePages DEF Locking
<1>3. ASSUME NEW c \in Calls, Answered(c), UNCHANGED faults PROVE PagesInv'
  BY <1>3, OtherPages, InvalidateKeysPages, InvalidateDeletePages, CachePagePages DEF Answered
<1>4. ASSUME NEW q \in States, Expire(q), UNCHANGED faults PROVE PagesInv'
  BY <1>4 DEF Expire, PagesInv, Matching, Clears, At
<1>5. CASE Fault
  BY <1>5 DEF Fault, PagesInv, Inv, TypeOK
<1>6. CASE UNCHANGED vars
  BY <1>6 DEF vars, PagesInv, Matching, Clears, At
<1> QED BY <1>1, <1>2, <1>3, <1>4, <1>5, <1>6 DEF Next

\* Until a fault, the only discovery pages that are wrong and that nobody is
\* about to remove are those that a discovery was still sending when the dict
\* changed, for any number of requests and agents.
THEOREM PagesAreInvalidated == Spec => []PagesInvalidated
<1>1. Init => PagesInv
  BY DEF Init, PagesInv
<1>2. Inv /\ PagesInv => PagesInvalidated
  BY RegistryAssumption DEF PagesInv, PagesInvalidated, Clears, Inv, TypeOK
<1> QED BY <1>1, <1>2, StepPages, InvHolds, PTL DEF Spec
=============================================================================
