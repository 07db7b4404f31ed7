------------------------------ MODULE ThreadPool ------------------------------
(***************************************************************************)
(* base/thread_pool: a bounded queue of tasks between the threads that     *)
(* call Run() and the threads of the pool, with Start() and Stop() by the  *)
(* owner.  A task may call Run() itself.  A section under mutex_ is one    *)
(* step; a thread in the wait set of a condition variable has the          *)
(* variable's name as its pc.                                              *)
(***************************************************************************)
EXTENDS Integers, Sequences, FiniteSets

CONSTANTS
  Producers,    \* threads outside the pool that call Run()
  Submitters,   \* the producers whose tasks call Run() with another task
  Workers,      \* threads the pool may have
  MaxQueueSize, \* bound: largest argument of set_max_queue_size()
  MaxTasks      \* bound: tasks of each producer

ASSUME PoolAssumption ==
  /\ Submitters \subseteq Producers /\ Producers \cap Workers = {}
  /\ IsFiniteSet(Producers) /\ IsFiniteSet(Workers)
  /\ MaxQueueSize \in Nat /\ MaxTasks \in Nat

VARIABLES
  max_queue_size_, running_, threads_, task_queue_,
  pc,     \* where each thread is
  job,    \* the task a thread is in
  arg,    \* the task a thread has given to Run()
  owner,  \* "new", "started", "joining" in Stop(), "stopped"
  calls,  \* Run() calls made by each producer
  begun   \* history: tasks that were called

vars == <<max_queue_size_, running_, threads_, task_queue_, pc, job, arg, owner, calls, begun>>
shared == <<max_queue_size_, running_, threads_, owner, calls>>

Threads == Producers \cup Workers
Tasks == [of : Producers, n : 1 .. MaxTasks, child : BOOLEAN]
NoTask == [of |-> "none"]
Calls(task) == task.of \in Submitters /\ ~task.child

Init ==
  /\ max_queue_size_ = 0 /\ running_ = FALSE /\ threads_ = {} /\ task_queue_ = <<>>
  /\ pc = [t \in Threads |-> "idle"]
  /\ job = [t \in Threads |-> NoTask] /\ arg = [t \in Threads |-> NoTask]
  /\ owner = "new" /\ calls = [p \in Producers |-> 0] /\ begun = {}

At(place) == {t \in Threads : pc[t] = place}

\* notify_one(): the pcs after one waiter of cv, if there is one, is woken to
\* lock mutex_ and test again at place.
NotifyOne(p, cv, place) ==
  LET waiting == {t \in Threads : p[t] = cv}
  IN IF waiting = {} THEN {p} ELSE {[p EXCEPT ![t] = place] : t \in waiting}

\* notify_all()
NotifyAll(p, cv, place) == [t \in Threads |-> IF p[t] = cv THEN place ELSE p[t]]
-----------------------------------------------------------------------------
(* The owner *)

set_max_queue_size(size) ==
  /\ owner = "new"
  /\ max_queue_size_' = size
  /\ UNCHANGED <<running_, threads_, task_queue_, pc, job, arg, owner, calls, begun>>

\* Start(): with no limit on the queue nothing is started.
Start(threads) ==
  /\ owner = "new" /\ owner' = "started"
  /\ IF max_queue_size_ <= 0
     THEN UNCHANGED <<running_, threads_, pc>>
     ELSE /\ running_' = TRUE /\ threads_' = threads
          /\ pc' = [t \in Threads |-> IF t \in threads THEN "test" ELSE pc[t]]
  /\ UNCHANGED <<max_queue_size_, task_queue_, job, arg, calls, begun>>

\* Stop(), called by the owner or by ~ThreadPool().
WakeForStopOne(p) == IF At("not_empty_") = {} THEN p
                     ELSE [p EXCEPT ![CHOOSE t \in At("not_empty_") : TRUE] = "Take"]
WakeForStop(p) == NotifyAll(p, "not_empty_", "Take")
Stop ==
  /\ owner = "started" /\ owner' = "joining"
  /\ running_' = FALSE
  /\ pc' = WakeForStop(pc)
  /\ UNCHANGED <<max_queue_size_, threads_, task_queue_, job, arg, calls, begun>>

Join ==
  /\ owner = "joining" /\ owner' = "stopped"
  /\ \A t \in threads_ : pc[t] = "ended"
  /\ UNCHANGED <<max_queue_size_, running_, threads_, task_queue_, pc, job, arg, calls, begun>>
-----------------------------------------------------------------------------
(* Run() *)

IsFullOneLate == max_queue_size_ > 0 /\ Len(task_queue_) > max_queue_size_
IsFull == max_queue_size_ > 0 /\ Len(task_queue_) >= max_queue_size_

\* Where a thread goes when Run() returns: a task that called it goes on.
Returned(t) == IF job[t] = NoTask THEN "idle" ELSE "return"

\* The tests before the lock; without threads the task is called here.
RunTests(t) ==
  /\ pc[t] = "Run"
  /\ \/ /\ ~running_
        /\ pc' = [pc EXCEPT ![t] = Returned(t)]
        /\ UNCHANGED <<job, begun>>
     \/ /\ running_ /\ threads_ = {}
        /\ pc' = [pc EXCEPT ![t] = "task"]
        /\ job' = [job EXCEPT ![t] = arg[t]] /\ begun' = begun \cup {arg[t]}
     \/ /\ running_ /\ threads_ # {}
        /\ pc' = [pc EXCEPT ![t] = "lock"]
        /\ UNCHANGED <<job, begun>>
  /\ UNCHANGED <<shared, task_queue_, arg>>

\* The pcs after not_empty_.notify_one().
NotifyIfFirst(p) == IF task_queue_ = <<>> THEN NotifyOne(p, "not_empty_", "Take") ELSE {p}
NotifyTaker(p) == NotifyOne(p, "not_empty_", "Take")

RunQueues(t) ==
  /\ pc[t] = "lock"
  /\ \/ /\ IsFull
        /\ pc' = [pc EXCEPT ![t] = "not_full_"]
        /\ UNCHANGED task_queue_
     \/ /\ ~IsFull
        /\ task_queue_' = Append(task_queue_, arg[t])
        /\ pc' \in NotifyTaker([pc EXCEPT ![t] = Returned(t)])
  /\ UNCHANGED <<shared, job, arg, begun>>
-----------------------------------------------------------------------------
(* The threads of the pool, and tasks *)

\* while (running_) in RunInThread()
RunInThread(t) ==
  /\ pc[t] = "test"
  /\ pc' = [pc EXCEPT ![t] = IF running_ THEN "Take" ELSE "ended"]
  /\ UNCHANGED <<shared, task_queue_, job, arg, begun>>

\* The pcs after not_full_.notify_one(), under max_queue_size_ > 0.
NotifyNoCaller(p) == {p}
NotifyCaller(p) == IF max_queue_size_ > 0 THEN NotifyOne(p, "not_full_", "lock") ELSE {p}

Take(t) ==
  /\ pc[t] = "Take"
  /\ \/ /\ task_queue_ = <<>> /\ running_
        /\ pc' = [pc EXCEPT ![t] = "not_empty_"]
        /\ UNCHANGED <<task_queue_, job, begun>>
     \/ /\ task_queue_ = <<>> /\ ~running_  \* an empty Task
        /\ pc' = [pc EXCEPT ![t] = "test"]
        /\ UNCHANGED <<task_queue_, job, begun>>
     \/ /\ task_queue_ # <<>>
        /\ task_queue_' = Tail(task_queue_)
        /\ job' = [job EXCEPT ![t] = Head(task_queue_)]
        /\ begun' = begun \cup {Head(task_queue_)}
        /\ pc' \in NotifyCaller([pc EXCEPT ![t] = "task"])
  /\ UNCHANGED <<shared, arg>>

\* Inside a task: it calls Run(), or has nothing more to do.
InTask(t) ==
  /\ pc[t] = "task"
  /\ \/ /\ Calls(job[t])
        /\ arg' = [arg EXCEPT ![t] = [job[t] EXCEPT !.child = TRUE]]
        /\ pc' = [pc EXCEPT ![t] = "Run"]
     \/ /\ ~Calls(job[t])
        /\ pc' = [pc EXCEPT ![t] = "return"] /\ UNCHANGED arg
  /\ UNCHANGED <<shared, task_queue_, job, begun>>

TaskReturns(t) ==
  /\ pc[t] = "return"
  /\ pc' = [pc EXCEPT ![t] = IF t \in Workers THEN "test" ELSE "idle"]
  /\ job' = [job EXCEPT ![t] = NoTask]
  /\ UNCHANGED <<shared, task_queue_, arg, begun>>

\* A producer calls Run(), once Start() has returned.
Run(p) ==
  /\ owner # "new" /\ pc[p] = "idle" /\ calls[p] < MaxTasks
  /\ calls' = [calls EXCEPT ![p] = @ + 1]
  /\ arg' = [arg EXCEPT ![p] = [of |-> p, n |-> calls[p] + 1, child |-> FALSE]]
  /\ pc' = [pc EXCEPT ![p] = "Run"]
  /\ UNCHANGED <<max_queue_size_, running_, threads_, task_queue_, job, owner, begun>>

\* A condition variable may wake a thread that was not notified.
SpuriousWakeup(t) ==
  /\ \/ pc[t] = "not_empty_" /\ pc' = [pc EXCEPT ![t] = "Take"]
     \/ pc[t] = "not_full_" /\ pc' = [pc EXCEPT ![t] = "lock"]
  /\ UNCHANGED <<shared, task_queue_, job, arg, begun>>

ThreadStep(t) ==
  RunTests(t) \/ RunQueues(t) \/ RunInThread(t) \/ Take(t) \/ InTask(t) \/ TaskReturns(t)

Next ==
  \/ \E size \in 0 .. MaxQueueSize : set_max_queue_size(size)
  \/ \E threads \in SUBSET Workers : Start(threads)
  \/ Stop \/ Join
  \/ \E p \in Producers : Run(p)
  \/ \E t \in Threads : ThreadStep(t) \/ SpuriousWakeup(t)

\* The scheduler runs every thread that is not waiting.
Spec == Init /\ [][Next]_vars /\ WF_vars(Join) /\ \A t \in Threads : WF_vars(ThreadStep(t))
-----------------------------------------------------------------------------
(* Properties *)

Queued(task) == \E i \in DOMAIN task_queue_ : task_queue_[i] = task
InRun == {"lock", "not_full_"}

\* The queue never exceeds max_queue_size_ while callers and pool threads come and
\* go at its limit, and no task is queued twice or queued after it was called.
QueueBounded ==
  /\ running_ => Len(task_queue_) <= max_queue_size_
  /\ \A i, j \in DOMAIN task_queue_ : task_queue_[i] = task_queue_[j] => i = j
  /\ \A task \in begun : ~Queued(task)
  /\ At("not_empty_") \cup At("Take") \subseteq threads_

\* notify_one() is never wasted: while a pool thread waits in Take(), there are as
\* many others on their way to the queue as there are tasks in it, and while a
\* caller waits in Run(), as many on their way as there are free places.
NoLostNotify ==
  /\ At("not_empty_") # {} => Len(task_queue_) <= Cardinality(At("Take"))
  /\ At("not_full_") # {} =>
       max_queue_size_ - Len(task_queue_) <= Cardinality(At("lock"))

\* Every thread of the pool that has not ended is in a task that waits in Run()
\* for room in the queue: nobody is left to make any.
Stuck ==
  LET live == {t \in threads_ : pc[t] # "ended"}
  IN IsFull /\ live # {} /\ \A t \in live : pc[t] \in InRun

\* Nobody waits for ever: a Run() returns however many callers compete for room,
\* and a queued task is called, unless the pool is stopped first (Stop() wakes no
\* caller and drops what is queued) or is Stuck.
RunTakesEffect ==
  /\ \A t \in Threads :
       (pc[t] \in InRun) ~> (pc[t] \notin InRun \/ owner # "started" \/ Stuck)
  /\ \A task \in Tasks : Queued(task) ~> (task \in begun \/ owner # "started" \/ Stuck)

\* Stop() joins every thread of the pool, wherever it was when running_ was
\* cleared, unless the pool is Stuck.
StopReturns == (owner = "joining") ~> (owner = "stopped" \/ Stuck)
=============================================================================
