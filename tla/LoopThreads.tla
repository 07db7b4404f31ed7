----------------------------- MODULE LoopThreads ------------------------------
(***************************************************************************)
(* net/event_loop_thread and net/event_loop_thread_pool: loops in threads  *)
(* of their own, started and destructed by the thread of the base loop.    *)
(* Of a loop only what its users can tell is kept: the functors queued,    *)
(* the batch being run, the channels to handle and quit_; that Poll()      *)
(* returns when there is work is what module EventLoop shows.  What        *)
(* functors and handlers do is left to the module that uses the loops.     *)
(***************************************************************************)
EXTENDS Integers, Sequences, FiniteSets

CONSTANT MaxThreads  \* bound: threads of the pool

ASSUME ThreadsAssumption == MaxThreads \in Nat

VARIABLES
  pending, batch,  \* per loop: pending_functors_, and those being called
  kept,            \* per loop: the connections bound in the batch's functors
  active,          \* per loop: channels Poll() reported and not handled yet
  quit_,           \* per loop
  at,              \* per loop: where its thread is
  loop_,           \* per EventLoopThread: loop_ is not NULL
  num_threads_, next_, loops_,  \* the pool; loops_ has the numbers of the loops
  base,            \* what the base thread is in the middle of, and for which thread
  lost,            \* history: loops whose Loop() cleared a quit_ that was set
  invalid          \* history: calls that used an object after its destruction

queues == <<pending, batch, kept, active>>
threads == <<quit_, at, loop_, lost>>
pool == <<num_threads_, next_, loops_>>

BaseLoop == 0
IoLoops == 1 .. MaxThreads
Loops == {BaseLoop} \cup IoLoops
Base(what, i) == [what |-> what, i |-> i]
Idle == Base("none", 0)

LoopsInit ==
  /\ pending = [l \in Loops |-> <<>>] /\ batch = [l \in Loops |-> <<>>]
  /\ kept = [l \in Loops |-> {}] /\ active = [l \in Loops |-> {}]
  /\ quit_ = [l \in Loops |-> FALSE]
  /\ at = [l \in Loops |-> IF l = BaseLoop THEN "functors" ELSE "none"]
  /\ loop_ = [l \in IoLoops |-> FALSE]
  /\ num_threads_ = 0 /\ next_ = 1 /\ loops_ = <<>>
  /\ base = Idle /\ lost = {} /\ invalid = {}
-----------------------------------------------------------------------------
(* The loop *)

\* The base thread is not inside a call of its own.
Free(l) == l = BaseLoop => base = Idle

\* QueueInLoop(), on given queues.
QueueInLoop(queue, l, functor) == [queue EXCEPT ![l] = Append(@, functor)]

\* The end of DoPendingFunctors(), while (!quit_), and Poll(): ready are the
\* channels of the loop that may be reported.
Iterate(l, ready) ==
  /\ Free(l) /\ at[l] = "functors" /\ batch[l] = <<>>
  /\ kept' = [kept EXCEPT ![l] = {}]
  /\ IF quit_[l]
     THEN at' = [at EXCEPT ![l] = "exited"] /\ UNCHANGED active
     ELSE /\ at' = [at EXCEPT ![l] = "handle"]
          /\ active' = [active EXCEPT ![l] = ready]
  /\ UNCHANGED <<pending, batch, quit_, loop_, lost, pool, base, invalid>>

\* All channels are handled: DoPendingFunctors() takes what is queued.
SwapFunctors(l) ==
  /\ Free(l) /\ at[l] = "handle" /\ active[l] = {}
  /\ at' = [at EXCEPT ![l] = "functors"]
  /\ batch' = [batch EXCEPT ![l] = pending[l]]
  /\ kept' = [kept EXCEPT ![l] = {pending[l][i].conn : i \in DOMAIN pending[l]}]
  /\ pending' = [pending EXCEPT ![l] = <<>>]
  /\ UNCHANGED <<active, quit_, loop_, lost, pool, base, invalid>>
-----------------------------------------------------------------------------
(* EventLoopThread *)

\* ThreadFunc() up to the notification: the loop exists.
Publish(i) ==
  /\ at[i] = "constructs"
  /\ at' = [at EXCEPT ![i] = "published"]
  /\ loop_' = [loop_ EXCEPT ![i] = TRUE]
  /\ UNCHANGED <<queues, quit_, lost, pool, base, invalid>>

\* Loop() begins by clearing quit_.
EnterLoop(i) ==
  /\ at[i] = "published"
  /\ at' = [at EXCEPT ![i] = "functors"]
  /\ quit_' = [quit_ EXCEPT ![i] = FALSE]
  /\ lost' = IF quit_[i] THEN lost \cup {i} ELSE lost
  /\ UNCHANGED <<queues, loop_, pool, base, invalid>>

\* ~EventLoop(): the functors nobody called go with the loop.
DestructLoop(i) == pending' = [pending EXCEPT ![i] = <<>>]

\* Loop() has returned: loop_ = NULL, and the loop is destructed.
ThreadEnds(i) ==
  /\ at[i] = "exited"
  /\ at' = [at EXCEPT ![i] = "ended"]
  /\ loop_' = [loop_ EXCEPT ![i] = FALSE]
  /\ DestructLoop(i)
  /\ UNCHANGED <<batch, kept, active, quit_, lost, pool, base, invalid>>

\* StartLoop(): the thread is made, and its loop waited for.
StartLoop(i) ==
  /\ base = Base("StartLoop", i)
  /\ at' = [at EXCEPT ![i] = "constructs"]
  /\ base' = Base("cond_", i)
  /\ UNCHANGED <<queues, quit_, loop_, lost, pool, invalid>>

\* ~EventLoopThread(): Quit() sets quit_, then wakes the loop up, which may be gone
\* by then (not having a loop any more, it would not even be joined).
QuitNothing(q, i) == q
SetQuit(q, i) == [q EXCEPT ![i] = TRUE]
Quit(i) ==
  /\ base = Base("~EventLoopThread", i)
  /\ base' = Base(IF loop_[i] THEN "Wakeup" ELSE "terminated", i)
  /\ quit_' = IF loop_[i] THEN SetQuit(quit_, i) ELSE quit_
  /\ UNCHANGED <<queues, at, loop_, lost, pool, invalid>>

Wakeup(i) ==
  /\ base = Base("Wakeup", i)
  /\ base' = Base("join", i)
  /\ invalid' = IF at[i] = "ended" THEN invalid \cup {"Wakeup"} ELSE invalid
  /\ UNCHANGED <<queues, threads, pool>>
-----------------------------------------------------------------------------
(* EventLoopThreadPool *)

\* GetNextLoop(): the loop, and next_ afterwards.
NextLoop == IF loops_ = <<>> THEN BaseLoop ELSE loops_[next_]
AdvanceNext == IF loops_ = <<>> THEN next_ ELSE IF next_ >= Len(loops_) THEN 1 ELSE next_ + 1

\* StartLoop() returns, and Start() goes on: with the next thread, or to then.
StartLoopReturns(i, then) ==
  /\ base = Base("cond_", i) /\ loop_[i]
  /\ loops_' = Append(loops_, i)
  /\ base' = IF i < num_threads_ THEN Base("StartLoop", i + 1) ELSE then
  /\ UNCHANGED <<queues, threads, num_threads_, next_, invalid>>

\* A thread is joined, and ~EventLoopThreadPool() goes on likewise.
Join(i, then) ==
  /\ base = Base("join", i) /\ at[i] = "ended"
  /\ base' = IF i < Len(loops_) THEN Base("~EventLoopThread", i + 1) ELSE then
  /\ UNCHANGED <<queues, threads, pool, invalid>>
=============================================================================
