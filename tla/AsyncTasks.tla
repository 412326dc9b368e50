----------------------------- MODULE AsyncTasks -----------------------------
(***************************************************************************)
(* The gateway's asynchronous tasks (api_gateway_service/app): the submit  *)
(* and webhook endpoints (api/endpoints/async_tasks.py), the task records  *)
(* and the queue in Redis (services/task_store.py, task_queue.py) and the  *)
(* worker of each gateway process (services/task_worker.py).               *)
(*                                                                         *)
(* A record is always read and written whole.  Every Redis call suspends,  *)
(* so a step ends at one: a worker's step is the call it was waiting in    *)
(* together with the code after it, up to the next call.                   *)
(***************************************************************************)
EXTENDS Naturals, FiniteSets, Sequences

CONSTANTS
  Tasks,        \* task ids, each a fresh uuid
  Workers,      \* gateway processes, each running one worker_loop
  Registrars,   \* calls of register_webhook
  MaxRetries,   \* max_retries of a task
  FailFirst,    \* do_work raises while retries < FailFirst (task_worker.py:49)
  MaxFaults     \* bound: process crashes and failing Redis calls

ASSUME TasksAssumption ==
  /\ "none" \notin Tasks
  /\ MaxRetries \in Nat \ {0} /\ FailFirst \in Nat /\ MaxFaults \in Nat

VARIABLES
  store,        \* the hash async_tasks
  queue,        \* the list async_task_queue
  submit,       \* where the submission of each task is
  reg,          \* where each call of register_webhook is, and its copy
  registered,   \* history: tasks whose registration was answered with 204
  worker,       \* each worker: the call it waits in, its task, its copy
  notified,     \* history: the outcomes a task's webhook received
  committed,    \* history: the outcomes ever written to a task's record
  runs,         \* history: executions of do_work, up to MaxRetries + 2
  faults

clients == <<submit, reg, registered>>
history == <<notified, committed, runs>>
vars == <<store, queue, clients, worker, history, faults>>

Final == {"success", "failed"}
Records == [status : {"pending", "running"} \cup Final,
            webhook : BOOLEAN, retries : 0 .. MaxRetries]
NewTask == [status |-> "pending", webhook |-> FALSE, retries |-> 0]
Absent == [status |-> "absent", webhook |-> FALSE, retries |-> 0]
Idle == [pc |-> "dequeue", id |-> "none", task |-> NewTask]

\* The Redis call, sleep or webhook a worker waits in.
Waits == {"dequeue", "load", "mark", "work", "save_success", "save_retry",
          "save_failed", "notify", "notify_failed", "dead"}

\* The retries of every record and of every copy stay within max_retries.
TypeOK ==
  /\ store \in [Tasks -> Records \cup {Absent}]
  /\ queue \in Seq(Tasks)
  /\ submit \in [Tasks -> {"new", "created", "submitted", "failed"}]
  /\ reg \in [Registrars -> [pc : {"ready", "read", "done"},
                             id : Tasks \cup {"none"}, task : Records]]
  /\ registered \subseteq Tasks
  /\ worker \in [Workers -> [pc : Waits, id : Tasks \cup {"none"}, task : Records]]
  /\ notified \in [Tasks -> SUBSET Final]
  /\ committed \in [Tasks -> SUBSET Final]
  /\ runs \in [Tasks -> 0 .. MaxRetries + 2]
  /\ faults \in 0 .. MaxFaults

Init ==
  /\ store = [t \in Tasks |-> Absent]
  /\ queue = <<>>
  /\ submit = [t \in Tasks |-> "new"]
  /\ reg = [r \in Registrars |-> [pc |-> "ready", id |-> "none", task |-> NewTask]]
  /\ registered = {}
  /\ worker = [w \in Workers |-> Idle]
  /\ notified = [t \in Tasks |-> {}]
  /\ committed = [t \in Tasks |-> {}]
  /\ runs = [t \in Tasks |-> 0]
  /\ faults = 0

-----------------------------------------------------------------------------
(* The endpoints. *)

\* submit_async_job: create_task, then enqueue_task.
CreateTask(t) ==
  /\ submit[t] = "new"
  /\ submit' = [submit EXCEPT ![t] = "created"]
  /\ store' = [store EXCEPT ![t] = NewTask]
  /\ UNCHANGED <<queue, reg, registered>>

EnqueueTask(t) ==
  /\ submit[t] = "created"
  /\ submit' = [submit EXCEPT ![t] = "submitted"]
  /\ queue' = Append(queue, t)
  /\ UNCHANGED <<store, reg, registered>>

\* register_webhook: get_task, then update_task of the whole record.
RegisterRead(r, t) ==
  /\ reg[r].pc = "ready"
  /\ submit[t] = "submitted"
  /\ reg' = [reg EXCEPT ![r] =
               [pc |-> "read", id |-> t, task |-> [store[t] EXCEPT !.webhook = TRUE]]]
  /\ UNCHANGED <<store, queue, submit, registered>>

RegisterWrite(r) ==
  /\ reg[r].pc = "read"
  /\ reg' = [reg EXCEPT ![r].pc = "done"]
  /\ store' = [store EXCEPT ![reg[r].id] = reg[r].task]
  /\ registered' = registered \cup {reg[r].id}
  /\ UNCHANGED <<queue, submit>>

\* The request fails or its process stops before the write.
RegisterAbandoned(r) ==
  /\ reg[r].pc = "read"
  /\ reg' = [reg EXCEPT ![r].pc = "done"]
  /\ UNCHANGED <<store, queue, submit, registered>>

-----------------------------------------------------------------------------
(* The worker. *)

At(w, p) == worker[w].pc = p
GoTo(w, p) == worker' = [worker EXCEPT ![w].pc = p]
Become(w, p, rec) == worker' = [worker EXCEPT ![w].pc = p, ![w].task = rec]
Release(w) == worker' = [worker EXCEPT ![w] = Idle]

\* update_task(task)
Save(w) ==
  LET t == worker[w].id
      rec == worker[w].task
  IN /\ store' = [store EXCEPT ![t] = rec]
     /\ committed' = [committed EXCEPT ![t] = @ \cup ({rec.status} \cap Final)]

\* The except branch of process_task, up to its update_task: count the retry,
\* or give up.  The record in hand may already say "success".
Except(w) ==
  LET rec == [worker[w].task EXCEPT !.retries = @ + 1]
  IN IF rec.retries < MaxRetries
     THEN Become(w, "save_retry", rec)
     ELSE Become(w, "save_failed", [rec EXCEPT !.status = "failed"])

\* LPOP: from here the task id is only in this process.  (Mutant: the id stays
\* in the list.)
Dequeue_Peek(w) ==
  /\ At(w, "dequeue") /\ queue # <<>>
  /\ worker' = [worker EXCEPT ![w] = [@ EXCEPT !.pc = "load", !.id = Head(queue)]]
  /\ UNCHANGED <<store, queue, history>>
Dequeue(w) ==
  /\ At(w, "dequeue")
  /\ queue # <<>>
  /\ worker' = [worker EXCEPT ![w] = [@ EXCEPT !.pc = "load", !.id = Head(queue)]]
  /\ queue' = Tail(queue)
  /\ UNCHANGED <<store, history>>

\* LPOP finds the queue empty; worker_loop sleeps a second and polls again.
Poll(w) ==
  /\ At(w, "dequeue")
  /\ queue = <<>>
  /\ UNCHANGED <<store, queue, worker, history>>

\* process_task starts, the first time or after a retry, with get_task.
Load(w) ==
  /\ At(w, "load")
  /\ Become(w, "mark", [store[worker[w].id] EXCEPT !.status = "running"])
  /\ UNCHANGED <<store, queue, history>>

\* The record is RUNNING; do_work starts, and raises at once or sleeps.
MarkRunning(w) ==
  /\ At(w, "mark")
  /\ Save(w)
  /\ runs' = [runs EXCEPT ![worker[w].id] = IF @ < MaxRetries + 2 THEN @ + 1 ELSE @]
  /\ IF worker[w].task.retries < FailFirst THEN Except(w) ELSE GoTo(w, "work")
  /\ UNCHANGED <<queue, notified>>

\* The work is done: the copy says success.  (Mutant: the webhook is called
\* before the record is written.)
Work_NotifiesFirst(w) ==
  /\ At(w, "work")
  /\ Become(w, "notify", [worker[w].task EXCEPT !.status = "success"])
  /\ UNCHANGED <<store, queue, history>>
Work(w) ==
  /\ At(w, "work")
  /\ Become(w, "save_success", [worker[w].task EXCEPT !.status = "success"])
  /\ UNCHANGED <<store, queue, history>>

\* The outcome is written; the webhook, if the copy has one, is called next.
SaveOutcome(w) ==
  /\ \E s \in {<<"save_success", "notify">>, <<"save_failed", "notify_failed">>} :
       /\ At(w, s[1])
       /\ IF worker[w].task.webhook THEN GoTo(w, s[2]) ELSE Release(w)
  /\ Save(w)
  /\ UNCHANGED <<queue, notified, runs>>

\* The retry is written; a second later process_task runs again, from the
\* stored record.  (Mutant: it is not written.)
SaveRetry_Unsaved(w) ==
  At(w, "save_retry") /\ GoTo(w, "load") /\ UNCHANGED <<store, queue, history>>
SaveRetry(w) ==
  /\ At(w, "save_retry")
  /\ Save(w)
  /\ GoTo(w, "load")
  /\ UNCHANGED <<queue, notified, runs>>

\* An attempt of send_webhook_notification reaches the receiver.
Deliver(w) ==
  /\ At(w, "notify") \/ At(w, "notify_failed")
  /\ notified' = [notified EXCEPT ![worker[w].id] = @ \cup {worker[w].task.status}]
  /\ UNCHANGED <<store, queue, worker, committed, runs>>

\* An attempt was acknowledged, or all attempts failed: process_task returns.
EndNotify(w) ==
  /\ At(w, "notify") \/ At(w, "notify_failed")
  /\ Release(w)
  /\ UNCHANGED <<store, queue, history>>

\* asyncio.wait_for gives up on do_work, which includes its update_task and
\* the webhook: three attempts and their backoff exceed timeout_seconds.  A
\* write in flight may or may not reach Redis.
TimeOut(w) ==
  /\ \/ At(w, "save_success") /\ Save(w)
     \/ worker[w].pc \in {"save_success", "notify"} /\ UNCHANGED <<store, committed>>
  /\ Except(w)
  /\ UNCHANGED <<queue, notified, runs>>

-----------------------------------------------------------------------------
(* Faults. *)

\* Redis fails, or the process stops, in the second call of a submission.
SubmitFails(t) ==
  /\ submit[t] = "created"
  /\ submit' = [submit EXCEPT ![t] = "failed"]
  /\ queue' = Append(queue, t) \/ UNCHANGED queue
  /\ UNCHANGED <<store, reg, registered, worker, history>>

\* A Redis call raises inside the try of process_task: an exception like one
\* of the work.  A write may or may not have been done.
RedisFailsInTry(w) ==
  /\ At(w, "mark") \/ At(w, "save_success")
  /\ Save(w) \/ UNCHANGED <<store, committed>>
  /\ Except(w)
  /\ UNCHANGED <<queue, clients, notified, runs>>

\* A Redis call raises outside the try: the exception ends worker_loop, and
\* the process goes on without a worker.
RedisKillsWorker(w) ==
  /\ worker[w].pc \in {"dequeue", "load", "save_retry", "save_failed"}
  /\ \/ UNCHANGED <<store, queue, committed>>
     \/ /\ At(w, "dequeue") /\ queue # <<>> /\ queue' = Tail(queue)
        /\ UNCHANGED <<store, committed>>
     \/ /\ At(w, "save_retry") \/ At(w, "save_failed")
        /\ Save(w) /\ UNCHANGED queue
  /\ worker' = [worker EXCEPT ![w] = [Idle EXCEPT !.pc = "dead"]]
  /\ UNCHANGED <<clients, notified, runs>>

\* The gateway process stops and is started again.
Crash(w) == Release(w) /\ UNCHANGED <<store, queue, clients, history>>

-----------------------------------------------------------------------------
Client ==
  /\ \/ \E t \in Tasks : CreateTask(t) \/ EnqueueTask(t)
     \/ \E r \in Registrars, t \in Tasks : RegisterRead(r, t)
     \/ \E r \in Registrars : RegisterWrite(r) \/ RegisterAbandoned(r)
  /\ UNCHANGED <<worker, history, faults>>

Step(w) ==
  /\ \/ Dequeue(w) \/ Poll(w) \/ Load(w) \/ MarkRunning(w) \/ Work(w)
     \/ SaveOutcome(w) \/ SaveRetry(w) \/ EndNotify(w) \/ TimeOut(w)
  /\ UNCHANGED <<clients, faults>>

Fault ==
  /\ faults < MaxFaults
  /\ faults' = faults + 1
  /\ \/ \E t \in Tasks : SubmitFails(t)
     \/ \E w \in Workers : RedisFailsInTry(w) \/ RedisKillsWorker(w) \/ Crash(w)

Next ==
  \/ Client
  \/ \E w \in Workers : Step(w) \/ (Deliver(w) /\ UNCHANGED <<clients, faults>>)
  \/ Fault

\* Every call a worker waits in returns, in one way or another, and so does
\* the second call of a submission.  Nobody has to register a webhook, and
\* none has to be reached.
Fairness ==
  /\ \A t \in Tasks : WF_vars(EnqueueTask(t) /\ UNCHANGED <<worker, history, faults>>)
  /\ \A w \in Workers : WF_vars(Step(w))

Spec == Init /\ [][Next]_vars /\ Fairness

-----------------------------------------------------------------------------
(* Properties *)

Copies(t) == Cardinality({i \in 1 .. Len(queue) : queue[i] = t})
               + Cardinality({w \in Workers : worker[w].id = t})

\* A task is queued or in a worker's hand at most once, with any number of
\* gateway processes: two workers never run the same task or write the same
\* record, whatever crashes and fails.
OneOwner == \A t \in Tasks : Copies(t) <= 1

\* A webhook is told an outcome only after the record has said so, retries,
\* timeouts and lost writes included.  What the record says by then may be
\* another attempt's, or what a registration had read before and put back.
NotifiedWasCommitted == \A t \in Tasks : notified[t] \subseteq committed[t]

\* Until something crashes or Redis fails, every queued task is processed to the
\* end, however registrations interfere with its record and whatever timeouts
\* and webhooks do.
EveryTaskProcessed ==
  \A t \in Tasks : Copies(t) = 1 ~> Copies(t) = 0 \/ faults > 0

\* A task that was submitted ends as success or failed, unless something
\* crashes, Redis fails, or a registration writes its record.  The worker
\* recovers neither a task it lost nor a record that was put back.
TasksComplete ==
  \A t \in Tasks :
    submit[t] = "submitted"
      ~> store[t].status \in Final \/ faults > 0 \/ t \in registered
=============================================================================
