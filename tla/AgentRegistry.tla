---------------------------- MODULE AgentRegistry ----------------------------
(***************************************************************************)
(* The agent registry (agent_registry_service): RegistryManager            *)
(* (core/registry_manager.py) keeps every agent twice, as a row of the     *)
(* database (crud/crud_agent_registry.py) and in a dict of the process,    *)
(* caches discovery pages in Redis and publishes events there.             *)
(*                                                                         *)
(* A request suspends in its calls of the database and of Redis.  A step   *)
(* is the effect of such a call, where it is executed, or the code that    *)
(* runs when its answer has come, up to the next call.  The manager's lock *)
(* is held across such a call in one place only: the branch of             *)
(* deregister_agent for an agent that the database does not have.          *)
(*                                                                         *)
(* An agent is reduced to its state, the criteria of a discovery to the    *)
(* state they ask for.                                                     *)
(***************************************************************************)
EXTENDS Naturals, FiniteSets

CONSTANTS
  Agents,      \* uuids
  Calls,       \* requests that the process handles at a time
  MaxFaults    \* bound: failing calls and restarts

ASSUME RegistryAssumption ==
  /\ "none" \notin Agents
  /\ "free" \notin Calls
  /\ MaxFaults \in Nat

VARIABLES
  db,          \* the row of each agent
  memory,      \* self._registry
  lock,        \* who holds self._lock while it awaits
  cached,      \* the criteria whose discovery page is in Redis
  call,        \* where each request is, and its local variables
  known,       \* ids that clients have been given
  published,   \* history: agents for which agent_deleted was published
  astray,      \* history: agents that are in one of db and memory only, since
               \* a call or a load failed or a deleted agent was stored
  late,        \* history: criteria whose page, an empty one, was cached when
               \* a matching agent was in memory
  faults

vars == <<db, memory, lock, cached, call, known, published, astray, late, faults>>

States == {"STABLE", "EXPERIMENTAL"}      \* AgentState
Idle == [pc |-> "idle", id |-> "none", row |-> "none", value |-> "none", keys |-> {}]

\* What a request waits for: the commit and the refresh of an update, the
\* commit of a deletion; self._lock, with the answer of the database at hand
\* ("reply", "deleted", "absent", "scan"); KEYS, DEL, PUBLISH, SETEX of Redis.
Waits == {"idle", "update", "refresh", "delete", "reply", "deleted", "absent",
          "scan", "keys", "del", "publish", "setex"}

Rows == {a \in Agents : db[a] \in States}
Matching(q) == {a \in Agents : memory[a] = q}

TypeOK ==
  /\ db \in [Agents -> States \cup {"none", "deleted"}]
  /\ memory \in [Agents -> States \cup {"none"}]
  /\ lock \in Calls \cup {"free"}
  /\ cached \subseteq States
  /\ call \in [Calls -> [pc : Waits, id : Agents \cup {"none"}, row : States \cup {"none"},
                         value : States \cup {"none"}, keys : SUBSET States]]
  /\ known \subseteq Agents
  /\ published \subseteq Agents
  /\ astray \subseteq Agents
  /\ late \subseteq States
  /\ faults \in 0 .. MaxFaults

Init ==
  /\ db = [a \in Agents |-> "none"]
  /\ memory = [a \in Agents |-> "none"]
  /\ lock = "free"
  /\ cached = {}
  /\ call = [c \in Calls |-> Idle]
  /\ known = {} /\ published = {} /\ astray = {} /\ late = {}
  /\ faults = 0

-----------------------------------------------------------------------------
At(c, p) == call[c].pc = p
GoTo(c, p) == call' = [call EXCEPT ![c].pc = p]

\* The request is answered; "async with" has released the lock.  (Mutant: the
\* lock is kept.)
End_Locked(c) == call' = [call EXCEPT ![c] = Idle] /\ UNCHANGED lock
End(c) ==
  /\ call' = [call EXCEPT ![c] = Idle]
  /\ lock' = IF lock = c THEN "free" ELSE lock

-----------------------------------------------------------------------------
(* register_agent and update_agent *)

\* create_agent_entry: the row is committed under a fresh uuid.  Nobody knows
\* the uuid yet, so the refresh reads what was committed.
Insert(c, a, s) ==
  /\ At(c, "idle") /\ db[a] = "none"
  /\ db' = [db EXCEPT ![a] = s]
  /\ call' = [call EXCEPT ![c] = [Idle EXCEPT !.pc = "reply", !.id = a, !.row = s]]
  /\ UNCHANGED <<memory, lock, cached, known, published, astray, late>>

\* update_agent: get_agent_entry finds the row.  (It answers 404 otherwise.)
UpdateRead(c, a, s) ==
  /\ At(c, "idle") /\ a \in known \cap Rows
  /\ call' = [call EXCEPT ![c] = [Idle EXCEPT !.pc = "update", !.id = a,
                                              !.row = db[a], !.value = s]]
  /\ UNCHANGED <<db, memory, lock, cached, known, published, astray, late>>

\* update_agent_entry: the commit writes the columns that differ from the row
\* as it was read.  An UPDATE that finds no row raises.
UpdateCommit(c) ==
  LET u == call[c]
  IN /\ At(c, "update")
     /\ \/ /\ u.id \in Rows
           /\ db' = IF u.value = u.row THEN db ELSE [db EXCEPT ![u.id] = u.value]
           /\ call' = [call EXCEPT ![c] = [Idle EXCEPT !.pc = "refresh", !.id = u.id]]
           /\ UNCHANGED lock
        \/ u.id \notin Rows /\ End(c) /\ UNCHANGED db
     /\ UNCHANGED <<memory, cached, known, published, astray, late>>

\* db.refresh reads the row as it is by now; it raises if it is gone.
Refresh(c) ==
  LET a == call[c].id
  IN /\ At(c, "refresh")
     /\ \/ /\ a \in Rows
           /\ call' = [call EXCEPT ![c].pc = "reply", ![c].row = db[a]]
           /\ UNCHANGED lock
        \/ a \notin Rows /\ End(c)
     /\ UNCHANGED <<db, memory, cached, known, published, astray, late>>

\* The entry stored is of a row, or of an agent deleted since it was read.
Stored(a) == IF a \in Rows THEN astray \ {a} ELSE astray \cup {a}

\* The entry goes into the dict; KEYS is sent.  (Mutant: the cache is not
\* invalidated.)
Store_NoInvalidate(c) ==
  LET a == call[c].id
  IN /\ At(c, "reply") /\ lock = "free"
     /\ memory' = [memory EXCEPT ![a] = call[c].row]
     /\ known' = known \cup {a} /\ astray' = Stored(a)
     /\ End(c) /\ UNCHANGED <<db, cached, published, late>>
Store(c) ==
  LET a == call[c].id
  IN /\ At(c, "reply") /\ lock = "free"
     /\ memory' = [memory EXCEPT ![a] = call[c].row]
     /\ known' = known \cup {a}
     /\ astray' = Stored(a)
     /\ call' = [call EXCEPT ![c] = [Idle EXCEPT !.pc = "keys"]]
     /\ UNCHANGED <<db, lock, cached, published, late>>

-----------------------------------------------------------------------------
(* deregister_agent *)

\* delete_agent_entry reads the row.  (Mutant: the entry leaves the dict
\* before the deletion is committed.)
DeleteRead_DictFirst(c, a) ==
  /\ At(c, "idle") /\ a \in known
  /\ memory' = [memory EXCEPT ![a] = "none"]
  /\ call' = [call EXCEPT ![c] = [Idle EXCEPT !.pc = IF a \in Rows THEN "delete" ELSE "absent",
                                              !.id = a]]
  /\ UNCHANGED <<db, lock, cached, known, published, astray, late>>
DeleteRead(c, a) ==
  /\ At(c, "idle") /\ a \in known
  /\ call' = [call EXCEPT ![c] = [Idle EXCEPT !.pc = IF a \in Rows THEN "delete" ELSE "absent",
                                              !.id = a]]
  /\ UNCHANGED <<db, memory, lock, cached, known, published, astray, late>>

\* It commits the deletion; a DELETE that finds no row is no error.  (Mutant:
\* it does not commit.)
DeleteCommit_Missing(c) ==
  /\ At(c, "delete") /\ GoTo(c, "deleted")
  /\ UNCHANGED <<db, memory, lock, cached, known, published, astray, late>>
DeleteCommit(c) ==
  /\ At(c, "delete")
  /\ db' = [db EXCEPT ![call[c].id] = "deleted"]
  /\ GoTo(c, "deleted")
  /\ UNCHANGED <<memory, lock, cached, known, published, astray, late>>

\* The entry leaves the dict, if it is there; KEYS is sent.
Drop(c) ==
  /\ At(c, "deleted") /\ lock = "free"
  /\ memory' = [memory EXCEPT ![call[c].id] = "none"]
  /\ astray' = astray \ {call[c].id}
  /\ GoTo(c, "keys")
  /\ UNCHANGED <<db, lock, cached, known, published, late>>

\* The database had no such row: the dict is mended if it has the entry, and
\* the lock stays held until the event is out.
DropAbsent(c) ==
  LET a == call[c].id
  IN /\ At(c, "absent") /\ lock = "free"
     /\ \/ /\ memory[a] # "none"
           /\ memory' = [memory EXCEPT ![a] = "none"]
           /\ astray' = astray \ {a}
           /\ lock' = c
           /\ GoTo(c, "keys")
        \/ memory[a] = "none" /\ End(c) /\ UNCHANGED <<memory, astray>>
     /\ UNCHANGED <<db, cached, known, published, late>>

-----------------------------------------------------------------------------
(* _invalidate_discovery_cache and the events *)

\* After the invalidation; only a deletion still has an id.  The event of a
\* registration or an update is never sent: json.dumps does not take the UUID
\* and the datetimes of its agent_data, and the error is logged.
Announce(c) ==
  IF call[c].id = "none" THEN End(c)
  ELSE call' = [call EXCEPT ![c].pc = "publish", ![c].keys = {}] /\ UNCHANGED lock

InvalidateKeys(c) ==
  /\ At(c, "keys")
  /\ IF cached = {} THEN Announce(c)
     ELSE call' = [call EXCEPT ![c].pc = "del", ![c].keys = cached] /\ UNCHANGED lock
  /\ UNCHANGED <<db, memory, cached, known, published, astray, late>>

InvalidateDelete(c) ==
  /\ At(c, "del")
  /\ cached' = cached \ call[c].keys
  /\ late' = late \ call[c].keys
  /\ Announce(c)
  /\ UNCHANGED <<db, memory, known, published, astray>>

\* _publish_agent_delete_event
Publish(c) ==
  /\ At(c, "publish")
  /\ published' = published \cup {call[c].id}
  /\ End(c)
  /\ UNCHANGED <<db, memory, cached, known, astray, late>>

-----------------------------------------------------------------------------
(* discover_agents *)

\* The page is not in Redis (a hit changes nothing).
CacheMiss(c, q) ==
  /\ At(c, "idle") /\ q \notin cached
  /\ call' = [call EXCEPT ![c] = [Idle EXCEPT !.pc = "scan", !.value = q]]
  /\ UNCHANGED <<db, memory, lock, cached, known, published, astray, late>>

\* The dict is searched.  Only an empty page is sent to the cache: json.dumps
\* raises on a page with agents in it, as it does for the events.
Scan(c) ==
  /\ At(c, "scan") /\ lock = "free"
  /\ IF Matching(call[c].value) = {} THEN GoTo(c, "setex") /\ UNCHANGED lock ELSE End(c)
  /\ UNCHANGED <<db, memory, cached, known, published, astray, late>>

CachePage(c) ==
  LET q == call[c].value
  IN /\ At(c, "setex")
     /\ cached' = cached \cup {q}
     /\ late' = IF Matching(q) # {} THEN late \cup {q} ELSE late \ {q}
     /\ End(c)
     /\ UNCHANGED <<db, memory, known, published, astray>>

\* cache_ttl has passed.
Expire(q) ==
  /\ q \in cached
  /\ cached' = cached \ {q}
  /\ late' = late \ {q}
  /\ UNCHANGED <<db, memory, lock, call, known, published, astray>>

-----------------------------------------------------------------------------
(* Faults *)

\* A call of the database raises, or the conversion of its row does, and the
\* request fails.  A commit may have been done.
DbFails(c) ==
  LET a == call[c].id
  IN /\ \/ /\ At(c, "update") /\ a \in Rows
           /\ db' = [db EXCEPT ![a] = IF call[c].value = call[c].row THEN @ ELSE call[c].value]
        \/ At(c, "delete") /\ db' = [db EXCEPT ![a] = "deleted"]
        \/ call[c].pc \in {"update", "refresh", "delete", "reply", "deleted"} /\ UNCHANGED db
     /\ astray' = IF memory[a] = "none" <=> db'[a] \in States
                  THEN astray \cup {a} ELSE astray
     /\ End(c)
     /\ UNCHANGED <<memory, cached, known, published, late>>

\* A call of Redis raises; the error is logged and the request goes on.  The
\* command may have been done.
RedisFails(c) ==
  \/ /\ At(c, "keys") \/ At(c, "del")
     /\ Announce(c)
     /\ UNCHANGED <<db, memory, cached, known, published, astray, late>>
  \/ /\ At(c, "publish") \/ At(c, "setex")
     /\ End(c)
     /\ UNCHANGED <<db, memory, cached, known, published, astray, late>>

\* The process stops and starts again with initialize_from_db, which may fail:
\* then the dict stays empty.
Restart ==
  /\ call' = [c \in Calls |-> Idle]
  /\ lock' = "free"
  /\ \/ /\ memory' = [a \in Agents |-> IF a \in Rows THEN db[a] ELSE "none"]
        /\ astray' = {}
        /\ known' = known \cup Rows
     \/ /\ memory' = [a \in Agents |-> "none"]
        /\ astray' = Rows
        /\ UNCHANGED known
  /\ UNCHANGED <<db, cached, published, late>>

-----------------------------------------------------------------------------
\* The endpoints (api/endpoints/agents.py), each up to the first call that it
\* waits for.  list_agents and get_agent_details only read the dict.
RegisterAgent(c) == \E a \in Agents, s \in States : Insert(c, a, s)
UpdateAgentDetails(c) == \E a \in Agents, s \in States : UpdateRead(c, a, s)
DeregisterAgent(c) == \E a \in Agents : DeleteRead(c, a)
DiscoverAgents(c) == \E q \in States : CacheMiss(c, q)

Request(c) ==
  RegisterAgent(c) \/ UpdateAgentDetails(c) \/ DeregisterAgent(c) \/ DiscoverAgents(c)

Locking(c) == Store(c) \/ Drop(c) \/ DropAbsent(c) \/ Scan(c)

Answered(c) ==
  \/ UpdateCommit(c) \/ Refresh(c) \/ DeleteCommit(c)
  \/ InvalidateKeys(c) \/ InvalidateDelete(c) \/ Publish(c) \/ CachePage(c)

Fault ==
  /\ faults < MaxFaults
  /\ faults' = faults + 1
  /\ Restart \/ \E c \in Calls : DbFails(c) \/ RedisFails(c)

Next ==
  \/ /\ \/ \E c \in Calls : Request(c) \/ Locking(c) \/ Answered(c)
        \/ \E q \in States : Expire(q)
     /\ UNCHANGED faults
  \/ Fault

\* The database and Redis answer, or their clients time out.  asyncio.Lock
\* serves its waiters in their order.
Fairness ==
  \A c \in Calls : /\ WF_vars(Answered(c) /\ UNCHANGED faults)
                   /\ SF_vars(Locking(c) /\ UNCHANGED faults)

Spec == Init /\ [][Next]_vars /\ Fairness

-----------------------------------------------------------------------------
(* Properties *)

\* The dict, which alone answers reads, has an entry for exactly the rows of
\* the database.  A row is left out only while its registration is under way,
\* an entry is left over only while its deletion is; for longer, only after a
\* failure behind the commit or in the load, or when an update stores an agent
\* that was deleted since the update read it.  No other update, deletion or
\* repair of the dict loses an agent or brings one back.
DictFollowsRows ==
  \A a \in Agents \ astray :
    /\ a \in Rows => memory[a] # "none" \/ \E c \in Calls : At(c, "reply") /\ call[c].id = a
    /\ memory[a] # "none" => a \in Rows \/ \E c \in Calls : At(c, "deleted") /\ call[c].id = a

\* agent_deleted is told of agents that are gone from the database for good,
\* although the deletion, the dict and the event are three steps and a second
\* path publishes it too.
DeletionTold == \A a \in published : db[a] = "deleted"

\* The invalidation that follows every change of the dict removes the empty
\* pages that the change made wrong.  The pages that survive it are those a
\* discovery was still sending when the change was made.
PagesInvalidated ==
  \A q \in cached \ late :
    \/ Matching(q) = {}
    \/ \E c \in Calls : At(c, "keys") \/ At(c, "del")
    \/ faults > 0

\* Every request is answered, although one branch keeps the lock while it
\* waits for Redis and every other one waits for that lock.
CallsEnd == \A c \in Calls : ~ At(c, "idle") ~> At(c, "idle")
=============================================================================
