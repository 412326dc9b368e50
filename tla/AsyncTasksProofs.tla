-------------------------- MODULE AsyncTasksProofs --------------------------
(***************************************************************************)
(* For every number of tasks, gateway processes, registrations and faults: *)
(* a task has one owner, its retries stay within max_retries, and its      *)
(* webhook hears only what was committed.                                  *)
(***************************************************************************)
EXTENDS AsyncTasks, FiniteSetTheorems, TLAPS

-----------------------------------------------------------------------------
(* The inductive invariant *)

\* The calls a worker waits in for a task; and those after which it may still
\* count a retry.
Holding == {"load", "mark", "work", "save_success", "save_retry", "save_failed",
            "notify", "notify_failed"}
Trying == {"mark", "work", "save_success", "save_retry", "notify"}

Copy == [pc : Waits, id : Tasks \cup {"none"}, task : Records]

\* A record exists from its creation on, and only submitted tasks have
\* registrations under way.  Who waits in a call about a task has its id.
RowInv ==
  /\ \A t \in Tasks : submit[t] # "new" => store[t] \in Records
  /\ \A r \in Registrars : reg[r].pc = "read" =>
       reg[r].id \in Tasks /\ submit[reg[r].id] = "submitted"
  /\ \A w \in Workers : worker[w].id \in Tasks <=> worker[w].pc \in Holding

Queued(t) == \E i \in 1 .. Len(queue) : queue[i] = t
Owned(t) == \E w \in Workers : worker[w].id = t

\* The queue and the workers hold distinct tasks, all of them past the first
\* call of their submission.
OwnerInv ==
  /\ \A i, j \in 1 .. Len(queue) : queue[i] = queue[j] => i = j
  /\ \A v, w \in Workers : worker[v].id = worker[w].id /\ worker[v].id \in Tasks => v = w
  /\ \A t \in Tasks : Owned(t) => ~ Queued(t)
  /\ \A t \in Tasks : submit[t] \in {"new", "created"} => ~ Queued(t) /\ ~ Owned(t)

\* A task that may still be tried has retries left in its record, in the copy
\* its worker has, and in every copy a registration may write back.
Live(t) ==
  \/ submit[t] \in {"new", "created"}
  \/ Queued(t)
  \/ \E w \in Workers : worker[w].id = t /\ worker[w].pc \in Trying \cup {"load"}

RetryInv ==
  /\ \A w \in Workers : worker[w].pc \in Trying => worker[w].task.retries < MaxRetries
  /\ \A t \in Tasks : Live(t) =>
       /\ store[t].retries < MaxRetries
       /\ \A r \in Registrars :
            reg[r].pc = "read" /\ reg[r].id = t => reg[r].task.retries < MaxRetries

\* What a worker is about to tell has been written.
OutcomeInv ==
  /\ \A w \in Workers :
       /\ worker[w].pc \in {"save_success", "notify"} => worker[w].task.status = "success"
       /\ worker[w].pc \in {"save_failed", "notify_failed"} => worker[w].task.status = "failed"
       /\ worker[w].pc \in {"notify", "notify_failed"} =>
            worker[w].task.status \in committed[worker[w].id]
  /\ NotifiedWasCommitted

Inv == TypeOK /\ RowInv /\ OwnerInv /\ RetryInv /\ OutcomeInv
-----------------------------------------------------------------------------
(* A step of a worker: its call returns, and it waits in another one *)

\* The worker writes its copy, or leaves the records alone.
MaySave(w) == Save(w) \/ UNCHANGED <<store, committed>>

\* Worker w goes on as x, with the same task or without any.
LEMMA WorkerStep ==
  ASSUME Inv, NEW w \in Workers, NEW x \in Copy,
         worker' = [worker EXCEPT ![w] = x],
         x.id = worker[w].id \/ x.id = "none",
         x.id \in Tasks <=> x.pc \in Holding,
         UNCHANGED <<queue, clients, notified>>,
         MaySave(w),
         worker[w].id \in Tasks \/ UNCHANGED <<store, committed>>,
         runs' \in [Tasks -> 0 .. MaxRetries + 2], faults' \in 0 .. MaxFaults,
         x.pc \in Trying \cup {"load"} =>
           /\ worker[w].pc \in Trying \cup {"load"}
           /\ worker[w].task.retries < MaxRetries \/ UNCHANGED <<store, committed>>,
         x.pc \in Trying => x.task.retries < MaxRetries,
         x.pc \in {"save_success", "notify"} => x.task.status = "success",
         x.pc \in {"save_failed", "notify_failed"} => x.task.status = "failed",
         x.pc \in {"notify", "notify_failed"} => x.task.status \in committed'[x.id]
  PROVE  Inv'
<1> USE TasksAssumption DEF Inv
<1> DEFINE t == worker[w].id
<1>1. /\ worker' \in [Workers -> Copy]
      /\ worker'[w] = x
      /\ \A v \in Workers \ {w} : worker'[v] = worker[v]
  BY DEF TypeOK, Copy
<1>2. /\ t \in Tasks \cup {"none"}
      /\ worker[w].task \in Records
  BY DEF TypeOK
<1>3. \/ UNCHANGED <<store, committed>>
      \/ /\ t \in Tasks
         /\ store' = [store EXCEPT ![t] = worker[w].task]
         /\ committed' = [committed EXCEPT ![t] =
                            @ \cup ({worker[w].task.status} \cap Final)]
  BY DEF MaySave, Save
<1>4. TypeOK'
  <2>1. store' \in [Tasks -> Records \cup {Absent}]
    BY <1>2, <1>3 DEF TypeOK
  <2>2. committed' \in [Tasks -> SUBSET Final]
    <3>1. CASE committed' = committed
      BY <3>1 DEF TypeOK
    <3>2. CASE committed' # committed
      <4> DEFINE new == committed[t] \cup ({worker[w].task.status} \cap Final)
      <4>1. t \in Tasks /\ committed' = [committed EXCEPT ![t] = new]
        BY <1>3, <3>2
      <4>2. new \in SUBSET Final
        BY <4>1 DEF TypeOK
      <4> QED
        BY <4>1, <4>2 DEF TypeOK
    <3> QED
      BY <3>1, <3>2
  <2> QED
    BY <1>1, <2>1, <2>2 DEF TypeOK, Copy, clients
<1>5. RowInv'
  BY <1>1, <1>2, <1>3 DEF RowInv, TypeOK, clients
<1>6. \A s \in Tasks : Owned(s)' => Owned(s)
  BY <1>1 DEF Owned
<1>7. OwnerInv'
  BY <1>1, <1>6 DEF OwnerInv, Queued, clients
<1>8. RetryInv'
  <2>1. ASSUME NEW s \in Tasks, Live(s)' PROVE Live(s)
    BY <1>1, <2>1 DEF Live, Queued, clients
  <2>2. ASSUME NEW s \in Tasks, Live(s)' PROVE store'[s].retries < MaxRetries
    <3>1. CASE store'[s] = store[s]
      BY <2>1, <2>2, <3>1 DEF RetryInv
    <3>2. CASE store'[s] # store[s]
      <4>1. s = t /\ store'[s] = worker[w].task /\ ~ UNCHANGED <<store, committed>>
        BY <1>3, <3>2 DEF TypeOK
      <4>2. Owned(s) /\ ~ Queued(s) /\ submit[s] \notin {"new", "created"}
        BY <4>1 DEF OwnerInv, Owned
      <4>3. \A v \in Workers : worker[v].id = s => v = w
        BY <4>1 DEF OwnerInv
      <4>4. x.pc \in Trying \cup {"load"}
        BY <1>1, <2>2, <4>2, <4>3 DEF Live, Queued, clients
      <4> QED
        BY <4>1, <4>4
    <3> QED
      BY <3>1, <3>2
  <2>3. \A v \in Workers : worker'[v].pc \in Trying => worker'[v].task.retries < MaxRetries
    BY <1>1 DEF RetryInv
  <2> QED
    BY <2>1, <2>2, <2>3 DEF RetryInv, clients
<1>9. OutcomeInv'
  <2>1. ASSUME NEW s \in Tasks PROVE committed[s] \subseteq committed'[s]
    <3>1. \/ committed'[s] = committed[s]
          \/ committed'[s] = committed[s] \cup ({worker[w].task.status} \cap Final)
      BY <1>3 DEF TypeOK
    <3> QED
      BY <3>1
  <2>2. NotifiedWasCommitted'
    BY <2>1 DEF OutcomeInv, NotifiedWasCommitted
  <2>3. ASSUME NEW v \in Workers, v # w, worker'[v].pc \in {"notify", "notify_failed"}
        PROVE  worker'[v].task.status \in committed'[worker'[v].id]
    <3>1. worker[v].id \in Tasks
      BY <1>1, <2>3 DEF RowInv, Holding
    <3> QED
      BY <1>1, <2>1, <2>3, <3>1 DEF OutcomeInv
  <2> QED
    BY <1>1, <2>2, <2>3 DEF OutcomeInv
<1> QED
  BY <1>4, <1>5, <1>7, <1>8, <1>9

LEMMA IdleCopy == Idle \in Copy /\ [Idle EXCEPT !.pc = "dead"] \in Copy
<1>1. NewTask \in Records
  BY TasksAssumption DEF NewTask, Records
<1>2. [Idle EXCEPT !.pc = "dead"] = [pc |-> "dead", id |-> "none", task |-> NewTask]
  BY DEF Idle
<1> QED
  BY <1>1, <1>2 DEF Idle, Copy, Waits

\* The rest of what a step of a worker leaves alone or in its range.
Aside ==
  /\ UNCHANGED <<queue, clients, notified>>
  /\ runs' \in [Tasks -> 0 .. MaxRetries + 2]
  /\ faults' \in 0 .. MaxFaults

\* The worker lets go of its task, written or not, or dies.
LEMMA ReleaseStep ==
  ASSUME Inv, NEW w \in Workers, Aside, MaySave(w),
         worker[w].id \in Tasks \/ UNCHANGED <<store, committed>>,
         NEW x \in {Idle, [Idle EXCEPT !.pc = "dead"]},
         worker' = [worker EXCEPT ![w] = x]
  PROVE  Inv'
<1>1. x \in Copy /\ x.id = "none" /\ x.pc \notin Holding /\ x.id \notin Tasks
  BY IdleCopy, TasksAssumption DEF Idle, Holding
<1>2. x.pc \notin Trying \cup {"load"}
  BY DEF Idle, Trying
<1> HIDE DEF Idle
<1> QED
  BY <1>1, <1>2, WorkerStep, IdleCopy DEF Aside, Holding, Trying

\* The except branch of process_task, after a write that was done or not.
LEMMA ExceptStep ==
  ASSUME Inv, NEW w \in Workers, Aside, MaySave(w),
         worker[w].pc \in Trying, Except(w)
  PROVE  Inv'
<1> DEFINE rec == [worker[w].task EXCEPT !.retries = @ + 1]
           x == IF rec.retries < MaxRetries
                THEN [worker[w] EXCEPT !.pc = "save_retry", !.task = rec]
                ELSE [worker[w] EXCEPT !.pc = "save_failed",
                                       !.task = [rec EXCEPT !.status = "failed"]]
<1>1. /\ worker[w] \in Copy
      /\ worker[w].task.retries < MaxRetries
      /\ worker[w].id \in Tasks
  BY DEF Inv, TypeOK, RetryInv, RowInv, Copy, Trying, Holding
<1>2. worker' = [worker EXCEPT ![w] = x]
  BY <1>1 DEF Except, Become, Inv, TypeOK, Copy
<1>3. rec \in Records
  BY <1>1, TasksAssumption DEF Copy, Records
<1>4. x \in Copy /\ x.id = worker[w].id /\ x.pc \in {"save_retry", "save_failed"}
  BY <1>1, <1>3 DEF Copy, Records, Waits, Final
<1>5. /\ x.pc = "save_retry" => x.task.retries < MaxRetries
      /\ x.pc = "save_failed" => x.task.status = "failed"
  BY <1>1, <1>3 DEF Copy, Records
<1> HIDE DEF x
<1> QED
  BY <1>1, <1>2, <1>4, <1>5, WorkerStep DEF Aside, Trying, Holding

-----------------------------------------------------------------------------
(* The steps of a worker *)

\* LPOP: the task goes from the queue to the worker, or, when the worker dies of
\* the call, to nobody.
LEMMA DequeueStep ==
  ASSUME Inv, NEW w \in Workers, At(w, "dequeue"), queue # <<>>, queue' = Tail(queue),
         NEW x \in Copy, worker' = [worker EXCEPT ![w] = x],
         \/ x.id = Head(queue) /\ x.pc = "load"
         \/ x.id = "none" /\ x.pc = "dead",
         UNCHANGED <<store, clients, notified, committed>>,
         runs' \in [Tasks -> 0 .. MaxRetries + 2], faults' \in 0 .. MaxFaults
  PROVE  Inv'
<1> USE TasksAssumption DEF Inv
<1>1. /\ worker' \in [Workers -> Copy]
      /\ worker'[w] = x
      /\ \A v \in Workers \ {w} : worker'[v] = worker[v]
  BY DEF TypeOK, Copy
<1>2. /\ Head(queue) = queue[1] /\ Head(queue) \in Tasks /\ queue' \in Seq(Tasks)
      /\ 1 \in 1 .. Len(queue)
      /\ \A i \in 1 .. Len(queue') : i + 1 \in 1 .. Len(queue) /\ queue'[i] = queue[i + 1]
  BY DEF TypeOK
<1>3. TypeOK'
  BY <1>1, <1>2 DEF TypeOK, Copy, clients
<1>4. RowInv'
  BY <1>1, <1>2 DEF RowInv, Holding, clients
<1>5. \A s \in Tasks : Queued(s)' => Queued(s) /\ s # queue[1]
  BY <1>2 DEF Queued, OwnerInv
<1>6. \A s \in Tasks : Owned(s)' => Owned(s) \/ (s = queue[1] /\ x.id = queue[1])
  BY <1>1, <1>2 DEF Owned
<1>7. Queued(queue[1])
  BY <1>2 DEF Queued
<1>8. OwnerInv'
  <2>1. \A i, j \in 1 .. Len(queue') : queue'[i] = queue'[j] => i = j
    BY <1>2 DEF OwnerInv
  <2>2. \A u, v \in Workers :
          worker'[u].id = worker'[v].id /\ worker'[u].id \in Tasks => u = v
    BY <1>1, <1>2, <1>7 DEF OwnerInv, Owned
  <2> QED
    BY <1>2, <1>5, <1>6, <1>7, <2>1, <2>2 DEF OwnerInv, clients
<1>9. RetryInv'
  <2>1. ASSUME NEW s \in Tasks, Live(s)' PROVE Live(s)
    BY <1>1, <1>2, <1>5, <1>7, <2>1 DEF Live, Trying, clients
  <2> QED
    BY <1>1, <2>1 DEF RetryInv, Trying, clients
<1>10. OutcomeInv'
  BY <1>1 DEF OutcomeInv, NotifiedWasCommitted
<1> QED
  BY <1>3, <1>4, <1>8, <1>9, <1>10

LEMMA StepInv ==
  ASSUME Inv, NEW w \in Workers, Step(w)
  PROVE  Inv'
<1>1. worker[w] \in Copy /\ UNCHANGED <<clients, faults>>
  BY DEF Inv, TypeOK, Copy, Step
<1>2. runs \in [Tasks -> 0 .. MaxRetries + 2] /\ faults \in 0 .. MaxFaults
  BY DEF Inv, TypeOK
<1>3. CASE Dequeue(w)
  <2> DEFINE x == [worker[w] EXCEPT !.pc = "load", !.id = Head(queue)]
  <2>1. Head(queue) \in Tasks
    BY <1>3 DEF Dequeue, Inv, TypeOK
  <2>2. x \in Copy /\ x.id = Head(queue) /\ x.pc = "load"
    BY <1>1, <2>1 DEF Copy, Waits
  <2>3. worker' = [worker EXCEPT ![w] = x]
    BY <1>3 DEF Dequeue
  <2> HIDE DEF x
  <2> QED
    BY <1>1, <1>2, <1>3, <2>2, <2>3, DequeueStep DEF Dequeue, history
<1>4. CASE Poll(w)
  <2>1. UNCHANGED <<store, queue, clients, worker, history, faults>>
    BY <1>1, <1>4 DEF Poll
  <2> QED
    BY <2>1 DEF Inv, TypeOK, RowInv, OwnerInv, RetryInv, OutcomeInv, NotifiedWasCommitted,
                Live, Queued, Owned, clients, history
<1>5. CASE Load(w)
  <2> DEFINE t == worker[w].id
             x == [worker[w] EXCEPT !.pc = "mark", !.task = [store[t] EXCEPT !.status = "running"]]
  <2>1. t \in Tasks /\ Owned(t) /\ Live(t)
    BY <1>5 DEF Load, At, Inv, RowInv, Holding, Owned, Live
  <2>2. store[t] \in Records
    BY <2>1 DEF Inv, OwnerInv, RowInv
  <2>3. x \in Copy /\ x.id = t /\ x.pc = "mark" /\ x.task.retries = store[t].retries
    BY <1>1, <2>2 DEF Copy, Records, Waits
  <2>4. x.task.retries < MaxRetries
    BY <2>1, <2>3 DEF Inv, RetryInv
  <2>5. worker' = [worker EXCEPT ![w] = x] /\ worker[w].pc = "load"
    BY <1>1, <1>5 DEF Load, Become, Copy, At, Inv, TypeOK
  <2>6. UNCHANGED <<queue, clients, notified, store, committed, runs, faults>>
    BY <1>1, <1>5 DEF Load, history
  <2> HIDE DEF x
  <2> QED
    BY <1>2, <2>1, <2>3, <2>4, <2>5, <2>6, WorkerStep DEF MaySave, Trying, Holding
<1>6. CASE MarkRunning(w)
  <2>1. /\ worker[w].pc = "mark" /\ worker[w].id \in Tasks
        /\ worker[w].task.retries < MaxRetries
    BY <1>6 DEF MarkRunning, At, Inv, RowInv, RetryInv, Holding, Trying
  <2>2. runs' \in [Tasks -> 0 .. MaxRetries + 2]
    <3> DEFINE n == IF runs[worker[w].id] < MaxRetries + 2
                    THEN runs[worker[w].id] + 1 ELSE runs[worker[w].id]
    <3>1. runs' = [runs EXCEPT ![worker[w].id] = n]
      BY <1>6 DEF MarkRunning
    <3>2. n \in 0 .. MaxRetries + 2
      BY <1>2, <2>1, TasksAssumption
    <3> QED
      BY <1>2, <3>1, <3>2
  <2>3. Aside /\ MaySave(w)
    BY <1>1, <1>2, <1>6, <2>2 DEF MarkRunning, Aside, MaySave
  <2>4. CASE Except(w)
    BY <2>1, <2>3, <2>4, ExceptStep DEF Trying
  <2>5. CASE GoTo(w, "work")
    <3> DEFINE x == [worker[w] EXCEPT !.pc = "work"]
    <3>1. /\ x \in Copy /\ x.id = worker[w].id /\ x.pc = "work"
          /\ x.task = worker[w].task
      BY <1>1 DEF Copy, Waits
    <3>2. worker' = [worker EXCEPT ![w] = x]
      BY <2>5 DEF GoTo
    <3> HIDE DEF x
    <3> QED
      BY <2>1, <2>3, <3>1, <3>2, WorkerStep DEF Aside, Trying, Holding
  <2> QED
    BY <1>6, <2>4, <2>5 DEF MarkRunning
<1>7. CASE Work(w)
  <2> DEFINE x == [worker[w] EXCEPT !.pc = "save_success",
                                    !.task = [worker[w].task EXCEPT !.status = "success"]]
  <2>1. /\ worker[w].pc = "work" /\ worker[w].id \in Tasks
        /\ worker[w].task.retries < MaxRetries
    BY <1>7 DEF Work, At, Inv, RowInv, RetryInv, Holding, Trying
  <2>2. /\ x \in Copy /\ x.id = worker[w].id /\ x.pc = "save_success"
        /\ x.task.retries = worker[w].task.retries /\ x.task.status = "success"
    BY <1>1 DEF Copy, Records, Waits, Final
  <2>3. worker' = [worker EXCEPT ![w] = x]
    BY <1>1, <1>7 DEF Work, Become, Copy, Inv, TypeOK
  <2>4. UNCHANGED <<queue, clients, notified, store, committed, runs, faults>>
    BY <1>1, <1>7 DEF Work, history
  <2> HIDE DEF x
  <2> QED
    BY <1>2, <2>1, <2>2, <2>3, <2>4, WorkerStep DEF MaySave, Trying, Holding
<1>8. CASE SaveOutcome(w)
  <2>1. PICK q \in {<<"save_success", "notify">>, <<"save_failed", "notify_failed">>} :
          /\ worker[w].pc = q[1]
          /\ IF worker[w].task.webhook THEN GoTo(w, q[2]) ELSE Release(w)
    BY <1>8 DEF SaveOutcome, At
  <2>2. worker[w].id \in Tasks
    BY <2>1 DEF Inv, RowInv, Holding
  <2>3. Aside /\ MaySave(w) /\ Save(w)
    BY <1>1, <1>2, <1>8 DEF SaveOutcome, Aside, MaySave
  <2>4. CASE Release(w)
    BY <2>2, <2>3, <2>4, ReleaseStep DEF Release
  <2>5. CASE GoTo(w, q[2])
    <3> DEFINE x == [worker[w] EXCEPT !.pc = q[2]]
    <3>1. q[2] \in {"notify", "notify_failed"}
      BY <2>1
    <3>2. x \in Copy /\ x.id = worker[w].id /\ x.pc = q[2] /\ x.task = worker[w].task
      BY <1>1, <3>1 DEF Copy, Waits
    <3>3. worker' = [worker EXCEPT ![w] = x]
      BY <2>5 DEF GoTo
    <3>4. /\ q[2] = "notify" => /\ worker[w].pc = "save_success"
                                /\ x.task.status = "success"
                                /\ x.task.retries < MaxRetries
          /\ q[2] = "notify_failed" => x.task.status = "failed"
      BY <2>1, <3>2 DEF Inv, OutcomeInv, RetryInv, Trying
    <3>5. x.task.status \in committed'[x.id]
      BY <2>2, <2>3, <3>1, <3>2, <3>4 DEF Save, Final, Inv, TypeOK
    <3> HIDE DEF x
    <3> QED
      BY <2>1, <2>2, <2>3, <3>1, <3>2, <3>3, <3>4, <3>5, WorkerStep DEF Aside, Trying, Holding
  <2> QED
    BY <2>1, <2>4, <2>5
<1>9. CASE SaveRetry(w)
  <2> DEFINE x == [worker[w] EXCEPT !.pc = "load"]
  <2>1. /\ worker[w].pc = "save_retry" /\ worker[w].id \in Tasks
        /\ worker[w].task.retries < MaxRetries
    BY <1>9 DEF SaveRetry, At, Inv, RowInv, RetryInv, Holding, Trying
  <2>2. x \in Copy /\ x.id = worker[w].id /\ x.pc = "load"
    BY <1>1 DEF Copy, Waits
  <2>3. worker' = [worker EXCEPT ![w] = x]
    BY <1>9 DEF SaveRetry, GoTo
  <2>4. Aside /\ MaySave(w)
    BY <1>1, <1>2, <1>9 DEF SaveRetry, Aside, MaySave
  <2> HIDE DEF x
  <2> QED
    BY <2>1, <2>2, <2>3, <2>4, WorkerStep DEF Aside, Trying, Holding
<1>10. CASE EndNotify(w)
  <2>1. Aside /\ UNCHANGED <<store, committed>> /\ Release(w)
    BY <1>1, <1>2, <1>10 DEF EndNotify, Aside, history
  <2> QED
    BY <2>1, ReleaseStep DEF Release, MaySave
<1>11. CASE TimeOut(w)
  <2>1. worker[w].pc \in Trying /\ Aside /\ MaySave(w) /\ Except(w)
    BY <1>1, <1>2, <1>11 DEF TimeOut, At, Aside, MaySave, Trying
  <2> QED
    BY <2>1, ExceptStep
<1> QED
  BY <1>3, <1>4, <1>5, <1>6, <1>7, <1>8, <1>9, <1>10, <1>11 DEF Step

\* An attempt of the webhook: what it tells has been committed.
LEMMA DeliverInv ==
  ASSUME Inv, NEW w \in Workers, Deliver(w), UNCHANGED <<clients, faults>>
  PROVE  Inv'
<1> USE DEF Inv
<1> DEFINE t == worker[w].id
           told == notified[t] \cup {worker[w].task.status}
<1>1. worker[w].pc \in {"notify", "notify_failed"} /\ t \in Tasks
  BY DEF Deliver, At, RowInv, Holding
<1>2. /\ worker[w].task.status \in committed[t]
      /\ notified[t] \subseteq committed[t] /\ committed[t] \subseteq Final
  BY <1>1 DEF OutcomeInv, NotifiedWasCommitted, TypeOK
<1>3. told \subseteq committed[t] /\ told \in SUBSET Final
  BY <1>2
<1>4. /\ UNCHANGED <<store, queue, submit, reg, registered, worker, committed, runs, faults>>
      /\ notified' = [notified EXCEPT ![t] = told]
  BY DEF Deliver, clients
<1>5. TypeOK'
  BY <1>1, <1>3, <1>4 DEF TypeOK
<1>6. NotifiedWasCommitted'
  BY <1>1, <1>3, <1>4 DEF TypeOK, OutcomeInv, NotifiedWasCommitted
<1>7. RowInv' /\ OwnerInv' /\ RetryInv'
  BY <1>4 DEF RowInv, OwnerInv, RetryInv, Live, Queued, Owned
<1> QED
  BY <1>4, <1>5, <1>6, <1>7 DEF OutcomeInv

-----------------------------------------------------------------------------
(* The clients *)

\* Redis may get the second call of a submission, however it ends.
LEMMA SubmittedInv ==
  ASSUME Inv, NEW t \in Tasks, submit[t] = "created",
         NEW s \in {"submitted", "failed"}, submit' = [submit EXCEPT ![t] = s],
         \/ queue' = Append(queue, t)
         \/ UNCHANGED queue,
         UNCHANGED <<store, reg, registered, worker, history>>, faults' \in 0 .. MaxFaults
  PROVE  Inv'
<1> USE DEF Inv, history
<1>0. queue' \in Seq(Tasks)
  <2>1. queue \in Seq(Tasks) /\ Append(queue, t) \in Seq(Tasks)
    BY DEF TypeOK
  <2> QED
    BY <2>1
<1>1. TypeOK'
  BY <1>0 DEF TypeOK
<1>2. RowInv'
  BY DEF RowInv, TypeOK
<1>3. ~ Queued(t) /\ ~ Owned(t)
  BY DEF OwnerInv
<1>4. \A q \in Tasks : Queued(q)' => Queued(q) \/ q = t
  <2>1. CASE queue' = Append(queue, t)
    BY <2>1 DEF Queued, TypeOK
  <2>2. CASE UNCHANGED queue
    BY <2>2 DEF Queued
  <2> QED
    BY <2>1, <2>2
<1>5. \A q \in Tasks : Owned(q)' <=> Owned(q)
  BY DEF Owned
<1>6. OwnerInv'
  <2>1. \A i, j \in 1 .. Len(queue') : queue'[i] = queue'[j] => i = j
    <3>1. CASE UNCHANGED queue
      BY <3>1 DEF OwnerInv
    <3>2. CASE queue' = Append(queue, t)
      <4>1. /\ Len(queue') = Len(queue) + 1 /\ Len(queue) \in Nat
            /\ queue'[Len(queue) + 1] = t
            /\ \A i \in 1 .. Len(queue) : queue'[i] = queue[i] /\ queue[i] # t
        BY <1>3, <3>2 DEF Queued, TypeOK
      <4> QED
        BY <4>1 DEF OwnerInv
    <3> QED
      BY <3>1, <3>2
  <2>2. \A q \in Tasks : submit'[q] \in {"new", "created"} =>
          q # t /\ submit[q] \in {"new", "created"}
    BY DEF TypeOK
  <2> QED
    BY <1>3, <1>4, <1>5, <2>1, <2>2 DEF OwnerInv
<1>7. RetryInv'
  <2>1. ASSUME NEW q \in Tasks, Live(q)' PROVE Live(q)
    BY <1>4, <2>1 DEF Live, TypeOK
  <2> QED
    BY <2>1 DEF RetryInv
<1> QED
  BY <1>1, <1>2, <1>6, <1>7 DEF OutcomeInv, NotifiedWasCommitted

LEMMA ClientInv ==
  ASSUME Inv, Client
  PROVE  Inv'
<1> USE TasksAssumption DEF Inv
<1>1. UNCHANGED <<worker, notified, committed, runs, faults>> /\ faults \in 0 .. MaxFaults
  BY DEF Client, history, TypeOK
<1>2. OutcomeInv'
  BY <1>1 DEF OutcomeInv, NotifiedWasCommitted
<1>3. ASSUME NEW t \in Tasks, CreateTask(t) PROVE Inv'
  <2>1. NewTask \in Records /\ NewTask.retries = 0
    BY DEF NewTask, Records
  <2>2. TypeOK'
    BY <1>1, <1>3, <2>1 DEF TypeOK, CreateTask
  <2>3. RowInv'
    BY <1>1, <1>3, <2>1 DEF RowInv, TypeOK, CreateTask
  <2>4. OwnerInv'
    BY <1>1, <1>3 DEF OwnerInv, Owned, Queued, TypeOK, CreateTask
  <2>5. RetryInv'
    <3>1. ASSUME NEW q \in Tasks, Live(q)' PROVE Live(q)
      BY <1>1, <1>3, <3>1 DEF Live, Queued, TypeOK, CreateTask
    <3> QED
      BY <1>1, <1>3, <2>1, <3>1 DEF RetryInv, TypeOK, CreateTask
  <2> QED
    BY <1>2, <2>2, <2>3, <2>4, <2>5
<1>4. ASSUME NEW t \in Tasks, EnqueueTask(t) PROVE Inv'
  BY <1>1, <1>4, SubmittedInv DEF EnqueueTask, history
<1>5. ASSUME NEW r \in Registrars, NEW t \in Tasks, RegisterRead(r, t) PROVE Inv'
  <2> DEFINE copy == [store[t] EXCEPT !.webhook = TRUE]
  <2>1. store[t] \in Records
    BY <1>5 DEF RegisterRead, RowInv
  <2>2. copy \in Records /\ copy.retries = store[t].retries
    BY <2>1 DEF Records
  <2>3. /\ reg' = [reg EXCEPT ![r] = [pc |-> "read", id |-> t, task |-> copy]]
        /\ UNCHANGED <<store, queue, submit, registered>> /\ submit[t] = "submitted"
    BY <1>5 DEF RegisterRead
  <2> HIDE DEF copy
  <2>4. TypeOK'
    BY <1>1, <2>2, <2>3 DEF TypeOK
  <2>5. RowInv' /\ OwnerInv'
    BY <1>1, <2>3 DEF RowInv, OwnerInv, Owned, Queued, TypeOK
  <2>6. RetryInv'
    <3>1. ASSUME NEW q \in Tasks, Live(q)' PROVE Live(q)
      BY <1>1, <2>3, <3>1 DEF Live, Queued
    <3> QED
      BY <1>1, <2>2, <2>3, <3>1 DEF RetryInv, TypeOK
  <2> QED
    BY <1>2, <2>4, <2>5, <2>6
<1>6. ASSUME NEW r \in Registrars, RegisterWrite(r) \/ RegisterAbandoned(r) PROVE Inv'
  <2> DEFINE t == reg[r].id
  <2>1. /\ reg[r].pc = "read" /\ t \in Tasks /\ submit[t] = "submitted"
        /\ reg[r].task \in Records
    BY <1>6 DEF RegisterWrite, RegisterAbandoned, RowInv, TypeOK
  <2>2. /\ reg' = [reg EXCEPT ![r].pc = "done"]
        /\ UNCHANGED <<queue, submit>>
        /\ store' = [store EXCEPT ![t] = reg[r].task] \/ UNCHANGED store
        /\ registered' \subseteq Tasks
    BY <1>6, <2>1 DEF RegisterWrite, RegisterAbandoned, TypeOK
  <2>3. TypeOK'
    BY <1>1, <2>1, <2>2 DEF TypeOK
  <2>4. RowInv' /\ OwnerInv'
    BY <1>1, <2>1, <2>2 DEF RowInv, OwnerInv, Owned, Queued, TypeOK
  <2>5. RetryInv'
    <3>1. ASSUME NEW q \in Tasks, Live(q)' PROVE Live(q)
      BY <1>1, <2>2, <3>1 DEF Live, Queued
    <3> QED
      BY <1>1, <2>1, <2>2, <3>1 DEF RetryInv, TypeOK
  <2> QED
    BY <1>2, <2>3, <2>4, <2>5
<1> QED
  BY <1>3, <1>4, <1>5, <1>6 DEF Client

-----------------------------------------------------------------------------
(* The faults *)

LEMMA FaultInv ==
  ASSUME Inv, Fault
  PROVE  Inv'
<1>1. faults' \in 0 .. MaxFaults /\ runs \in [Tasks -> 0 .. MaxRetries + 2]
  BY TasksAssumption DEF Fault, Inv, TypeOK
<1>2. ASSUME NEW t \in Tasks, SubmitFails(t) PROVE Inv'
  BY <1>1, <1>2, SubmittedInv DEF SubmitFails
<1>3. ASSUME NEW w \in Workers, RedisFailsInTry(w) PROVE Inv'
  <2>1. worker[w].pc \in Trying /\ Aside /\ MaySave(w) /\ Except(w)
    BY <1>1, <1>3 DEF RedisFailsInTry, At, Aside, MaySave, Trying
  <2> QED
    BY <2>1, ExceptStep
<1>4. ASSUME NEW w \in Workers, RedisKillsWorker(w) PROVE Inv'
  <2> DEFINE x == [Idle EXCEPT !.pc = "dead"]
  <2>1. /\ worker' = [worker EXCEPT ![w] = x] /\ UNCHANGED <<clients, notified, runs>>
        /\ x \in Copy /\ x.id = "none" /\ x.pc = "dead"
    BY <1>4, IdleCopy DEF RedisKillsWorker, Idle
  <2>2. CASE At(w, "dequeue") /\ queue # <<>> /\ queue' = Tail(queue)
             /\ UNCHANGED <<store, committed>>
    <3> HIDE DEF x
    <3> QED
      BY <1>1, <2>1, <2>2, DequeueStep
  <2>3. CASE UNCHANGED <<store, queue, committed>>
    BY <1>1, <2>1, <2>3, ReleaseStep DEF Aside, MaySave
  <2>4. CASE (At(w, "save_retry") \/ At(w, "save_failed")) /\ Save(w) /\ UNCHANGED queue
    <3>1. worker[w].id \in Tasks
      BY <2>4 DEF At, Inv, RowInv, Holding
    <3> QED
      BY <1>1, <2>1, <2>4, <3>1, ReleaseStep DEF Aside, MaySave
  <2> QED
    BY <1>4, <2>2, <2>3, <2>4 DEF RedisKillsWorker
<1>5. ASSUME NEW w \in Workers, Crash(w) PROVE Inv'
  BY <1>1, <1>5, ReleaseStep DEF Crash, Release, Aside, MaySave, history
<1> QED
  BY <1>2, <1>3, <1>4, <1>5 DEF Fault

-----------------------------------------------------------------------------
LEMMA InitInv == Init => Inv
<1> SUFFICES ASSUME Init PROVE Inv
  OBVIOUS
<1> USE TasksAssumption DEF Init
<1>1. NewTask \in Records /\ Idle \in Copy /\ Absent.retries = 0
  BY IdleCopy DEF NewTask, Records, Absent
<1>2. TypeOK
  BY <1>1 DEF TypeOK, Copy
<1>3. RowInv
  BY DEF RowInv, Idle, Holding
<1>4. OwnerInv
  BY DEF OwnerInv, Idle, Owned, Queued
<1>5. RetryInv
  BY <1>1 DEF RetryInv, Idle, Trying
<1>6. OutcomeInv
  BY DEF OutcomeInv, Idle, NotifiedWasCommitted
<1> QED
  BY <1>2, <1>3, <1>4, <1>5, <1>6 DEF Inv

LEMMA NextInv == Inv /\ [Next]_vars => Inv'
<1> SUFFICES ASSUME Inv, [Next]_vars PROVE Inv'
  OBVIOUS
<1>1. CASE UNCHANGED vars
  BY <1>1 DEF vars, clients, history, Inv, TypeOK, RowInv, OwnerInv, RetryInv, OutcomeInv,
              NotifiedWasCommitted, Live, Queued, Owned
<1> QED
  BY <1>1, ClientInv, StepInv, DeliverInv, FaultInv DEF Next

LEMMA Invariant == Spec => []Inv
BY InitInv, NextInv, PTL DEF Spec

-----------------------------------------------------------------------------
(* The theorems *)

\* The variables keep their types; in particular no record and no copy of one
\* ever counts more than max_retries, although registrations write back old
\* counts and timeouts count what was already done.
THEOREM RetriesWithinLimit == Spec => []TypeOK
<1>1. Inv => TypeOK
  BY DEF Inv
<1> QED
  BY <1>1, Invariant, PTL

\* A set that holds at most one element.
LEMMA AtMostOne ==
  ASSUME NEW S, \A x, y \in S : x = y
  PROVE  Cardinality(S) = 0 \/ Cardinality(S) = 1
<1>1. CASE S = {}
  BY <1>1, FS_EmptySet
<1>2. ASSUME NEW x \in S PROVE Cardinality(S) = 1
  <2>1. S = {x}
    OBVIOUS
  <2> QED
    BY <2>1, FS_Singleton
<1> QED
  BY <1>1, <1>2

\* A task is queued or in a worker's hand at most once, whatever crashes and
\* fails, with any number of gateway processes.
THEOREM TasksHaveOneOwner == Spec => []OneOwner
<1>1. ASSUME Inv, NEW t \in Tasks PROVE Copies(t) <= 1
  <2> DEFINE Q == {i \in 1 .. Len(queue) : queue[i] = t}
             W == {w \in Workers : worker[w].id = t}
  <2>1. \A i, j \in Q : i = j
    BY <1>1 DEF Inv, OwnerInv
  <2>2. \A v, w \in W : v = w
    BY <1>1 DEF Inv, OwnerInv
  <2>3. Q = {} \/ W = {}
    BY <1>1 DEF Inv, OwnerInv, Owned, Queued
  <2>4. /\ Cardinality(Q) = 0 \/ Cardinality(Q) = 1
        /\ Cardinality(W) = 0 \/ Cardinality(W) = 1
    BY <2>1, <2>2, AtMostOne
  <2>5. Cardinality(Q) = 0 \/ Cardinality(W) = 0
    BY <2>3, FS_EmptySet
  <2> HIDE DEF Q, W
  <2>6. Cardinality(Q) + Cardinality(W) <= 1
    BY <2>4, <2>5
  <2> QED
    BY <2>6 DEF Copies, Q, W
<1>2. Inv => OneOwner
  BY <1>1 DEF OneOwner
<1> QED
  BY <1>2, Invariant, PTL

\* A webhook is told an outcome only after the record has said so.
THEOREM ToldAfterCommit == Spec => []NotifiedWasCommitted
<1>1. Inv => NotifiedWasCommitted
  BY DEF Inv, OutcomeInv
<1> QED
  BY <1>1, Invariant, PTL
=============================================================================
