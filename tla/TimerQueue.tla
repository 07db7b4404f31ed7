----------------------------- MODULE TimerQueue -----------------------------
(***************************************************************************)
(* net/timer_queue.cpp with net/timer.h, timer.cpp and timer_id.h: the     *)
(* timers of one loop, kept in two indexes over raw Timer pointers and     *)
(* served by one timerfd.  The loop's thread and other threads call        *)
(* AddTimer() and Cancel() (EventLoop::RunAt(), RunAfter(), RunEvery() and *)
(* Cancel()); a call of another thread becomes a functor of the loop.      *)
(*                                                                         *)
(* Heap addresses are reused after delete, as an allocator does, so that a *)
(* TimerId may outlive its timer and name the address of another one.      *)
(* Time is counted in ticks of the resolution HowMuchTimeFromNow() rounds  *)
(* up to.  Timestamp::Now() is the wall clock, which may be set; timerfd_  *)
(* counts down on the monotonic one.  The wall clock stays at MaxTime once *)
(* it is there.  Timestamp 0 is the invalid one.                           *)
(***************************************************************************)
EXTENDS Integers, Sequences

CONSTANTS Threads,     \* the threads besides the loop's own that use timers
          Addrs,       \* bound: heap addresses for Timer objects
          MaxTimers,   \* bound: Timer objects created
          MaxTime,     \* bound: the wall clock
          Intervals,   \* the intervals used, 0 for a timer that runs once
          MaxPending,  \* bound: functors waiting when Cancel() queues one
          MaxJumps     \* bound: times the wall clock is set

ASSUME TimeAssumption == MaxTime \in Nat \ {0} /\ Intervals \subseteq Nat
ASSUME LimitsAssumption == MaxTimers \in Nat /\ MaxPending \in Nat /\ MaxJumps \in Nat

VARIABLES
  heap,                     \* the Timer objects, NoTimer where none is allocated
  s_num_created_,
  timers_,                  \* entries <<expiration, address>>
  active_timers_,           \* pairs <<address, sequence>>
  canceling_timers_,        \* pairs <<address, sequence>>
  calling_expired_timers_,
  expired, to_run, now,     \* HandleRead()'s batch, the part not run yet, its now
  timerfd_,                 \* ticks left until it expires (0: disarmed), readable
  active,                   \* the last Poll() reported timerfd_channel_
  pending,                  \* the loop's pending functors about timers
  adding,                   \* per thread: the timer of its unfinished AddTimer()
  ids,                      \* the TimerIds that callers hold
  clock,                    \* Timestamp::Now()
  ran, cancelled, jumps     \* history: sequences of timers that ran, of timers
                            \* the queue was told to cancel, clock settings

indexes == <<timers_, active_timers_>>
batch == <<canceling_timers_, calling_expired_timers_, expired, to_run, now>>
vars == <<heap, s_num_created_, indexes, batch, timerfd_, active, pending, adding, ids,
          clock, ran, cancelled, jumps>>

NoTimer == [sequence |-> 0, expiration |-> 0, interval |-> 0]
NoCall == <<>>

Allocated(a) == heap[a].sequence # 0

IsMin(x, T) == x \in T /\ \A y \in T : x <= y
Expirations(T) == {e[1] : e \in T}

Init ==
  /\ heap = [a \in Addrs |-> NoTimer]
  /\ s_num_created_ = 0
  /\ timers_ = {} /\ active_timers_ = {}
  /\ canceling_timers_ = {} /\ calling_expired_timers_ = FALSE
  /\ expired = {} /\ to_run = {} /\ now = 0
  /\ timerfd_ = [left |-> 0, readable |-> FALSE]
  /\ active = FALSE
  /\ pending = <<>>
  /\ adding = [t \in Threads |-> NoCall]
  /\ ids = {}
  /\ clock = 1
  /\ ran = {} /\ cancelled = {} /\ jumps = 0

------------------------------------------------------------------------------
(* The two indexes and the timerfd. *)

\* ResetTimerfd(): at least one tick ahead; setting it discards expirations
\* that have not been read.
ResetTimerfd(expiration) ==
  timerfd_' = [left |-> IF expiration - clock < 1 THEN 1 ELSE expiration - clock,
               readable |-> FALSE]

EarliestChangedOnlyIfEmpty(when) == timers_ = {}

\* Insert()'s result.
EarliestChanged(when) == \A e \in timers_ : when < e[1]

InsertForgetsActive(a, timer) ==
  timers_' = timers_ \cup {<<timer.expiration, a>>} /\ UNCHANGED active_timers_

Insert(a, timer) ==
  /\ timers_' = timers_ \cup {<<timer.expiration, a>>}
  /\ active_timers_' = active_timers_ \cup {<<a, timer.sequence>>}

AddTimerInLoop(a, timer) ==
  /\ Insert(a, timer)
  /\ IF EarliestChanged(timer.expiration)
     THEN ResetTimerfd(timer.expiration) ELSE UNCHANGED timerfd_

FindByAddress(id) == {x \in active_timers_ : x[1] = id[1]}

\* The entry of active_timers_ that CancelInLoop() looks up.
FindActive(id) == {x \in active_timers_ : x = id}

\* CancelInLoop(): a timer out of the indexes is noted while its batch runs.
CancelInLoop(id) ==
  /\ timers_' = timers_ \ {<<heap[x[1]].expiration, x[1]>> : x \in FindActive(id)}
  /\ active_timers_' = active_timers_ \ FindActive(id)
  /\ heap' = [a \in Addrs |-> IF \E x \in FindActive(id) : x[1] = a THEN NoTimer ELSE heap[a]]
  /\ canceling_timers_' = IF FindActive(id) = {} /\ calling_expired_timers_
                          THEN canceling_timers_ \cup {id} ELSE canceling_timers_
  /\ cancelled' = IF id[2] # 0 /\ (id \in active_timers_
                       \/ \E e \in expired : id = <<e[2], heap[e[2]].sequence>>)
                  THEN cancelled \cup {id[2]} ELSE cancelled

------------------------------------------------------------------------------
(* Calls.  The loop's thread makes them outside HandleRead() and from a      *)
(* timer's callback; RunInLoop() then does the work on the spot.             *)

LoopThreadInUserCode == calling_expired_timers_ => to_run # expired

\* new Timer at address a.
NewTimer(a, when, interval) ==
  /\ ~Allocated(a)
  /\ s_num_created_ < MaxTimers
  /\ s_num_created_' = s_num_created_ + 1
  /\ heap' = [heap EXCEPT ![a] = [sequence |-> s_num_created_ + 1,
                                  expiration |-> when, interval |-> interval]]

\* AddTimer() on the loop's thread.
AddTimer(a, when, interval) ==
  /\ LoopThreadInUserCode
  /\ NewTimer(a, when, interval)
  /\ AddTimerInLoop(a, heap'[a])
  /\ ids' = ids \cup {<<a, s_num_created_ + 1>>}
  /\ UNCHANGED <<batch, active, pending, adding, clock, ran, cancelled, jumps>>

\* AddTimer() on another thread, up to and including RunInLoop() ...
AddTimerFrom(t, a, when, interval) ==
  /\ adding[t] = NoCall
  /\ NewTimer(a, when, interval)
  /\ pending' = Append(pending, [op |-> "add", id |-> <<a, s_num_created_ + 1>>])
  /\ adding' = [adding EXCEPT ![t] = <<a, s_num_created_ + 1>>]
  /\ UNCHANGED <<indexes, batch, timerfd_, active, ids, clock, ran, cancelled, jumps>>

\* ... and its return: timer->sequence() is read here.  When the loop has
\* deleted the timer by now, the read finds what was there or what is there.
AddTimerReturns(t) ==
  /\ adding[t] # NoCall
  /\ \E sequence \in {adding[t][2], heap[adding[t][1]].sequence} :
       ids' = ids \cup {<<adding[t][1], sequence>>}
  /\ adding' = [adding EXCEPT ![t] = NoCall]
  /\ UNCHANGED <<heap, s_num_created_, indexes, batch, timerfd_, active, pending,
                 clock, ran, cancelled, jumps>>

\* Cancel() on the loop's thread, and on another one.
Cancel(id) ==
  /\ LoopThreadInUserCode
  /\ CancelInLoop(id)
  /\ UNCHANGED <<s_num_created_, calling_expired_timers_, expired, to_run, now, timerfd_,
                 active, pending, adding, ids, clock, ran, jumps>>

CancelFrom(t, id) ==
  /\ adding[t] = NoCall
  /\ Len(pending) < MaxPending
  /\ pending' = Append(pending, [op |-> "cancel", id |-> id])
  /\ UNCHANGED <<heap, s_num_created_, indexes, batch, timerfd_, active, adding, ids,
                 clock, ran, cancelled, jumps>>

------------------------------------------------------------------------------
(* The loop: pending functors run when no event is being handled. *)

RunAdd ==
  /\ ~active /\ ~calling_expired_timers_
  /\ pending # <<>> /\ Head(pending).op = "add"
  /\ AddTimerInLoop(Head(pending).id[1], heap[Head(pending).id[1]])
  /\ pending' = Tail(pending)
  /\ UNCHANGED <<heap, s_num_created_, batch, active, adding, ids, clock, ran, cancelled, jumps>>

RunCancel ==
  /\ ~active /\ ~calling_expired_timers_
  /\ pending # <<>> /\ Head(pending).op = "cancel"
  /\ CancelInLoop(Head(pending).id)
  /\ pending' = Tail(pending)
  /\ UNCHANGED <<s_num_created_, calling_expired_timers_, expired, to_run, now, timerfd_,
                 active, adding, ids, clock, ran, jumps>>

\* Poll() reports the timerfd; other channels may be handled before it.
PollTimerfd ==
  /\ ~active /\ ~calling_expired_timers_
  /\ timerfd_.readable
  /\ active' = TRUE
  /\ UNCHANGED <<heap, s_num_created_, indexes, batch, timerfd_, pending, adding, ids,
                 clock, ran, cancelled, jumps>>

\* GetExpired()'s result.
Expired == {e \in timers_ : e[1] <= clock}

ReadTimerfd == timerfd_' = [timerfd_ EXCEPT !.readable = FALSE]

\* HandleRead() up to the first callback: ReadTimerfd() and GetExpired().
HandleRead ==
  /\ active
  /\ active' = FALSE
  /\ now' = clock
  /\ ReadTimerfd
  /\ expired' = Expired
  /\ to_run' = Expired
  /\ timers_' = timers_ \ Expired
  /\ active_timers_' = active_timers_ \ {<<e[2], heap[e[2]].sequence>> : e \in Expired}
  /\ calling_expired_timers_' = TRUE
  /\ canceling_timers_' = {}
  /\ UNCHANGED <<heap, s_num_created_, pending, adding, ids, clock, ran, cancelled, jumps>>

\* One callback of the batch, in the order of timers_.
RunTimer ==
  /\ calling_expired_timers_
  /\ \E e \in to_run :
       /\ IsMin(e[1], Expirations(to_run))
       /\ to_run' = to_run \ {e}
       /\ ran' = ran \cup {heap[e[2]].sequence}
  /\ UNCHANGED <<heap, s_num_created_, indexes, canceling_timers_, calling_expired_timers_,
                 expired, now, timerfd_, active, pending, adding, ids, clock, cancelled, jumps>>

RestartsAll(e) == heap[e[2]].interval > 0

\* The timers of the batch that Reset() restarts.
Restarts(e) ==
  /\ heap[e[2]].interval > 0
  /\ <<e[2], heap[e[2]].sequence>> \notin canceling_timers_

Restart(timer) == [timer EXCEPT !.expiration = now + timer.interval]

ResetHeapLeaks ==
  [a \in Addrs |->
     IF \E e \in expired : e[2] = a /\ Restarts(e) THEN Restart(heap[a]) ELSE heap[a]]

\* Timer::Restart() and delete, over the batch.
ResetHeap ==
  [a \in Addrs |->
     IF \E e \in expired : e[2] = a /\ Restarts(e)
     THEN Restart(heap[a])
     ELSE IF \E e \in expired : e[2] = a THEN NoTimer ELSE heap[a]]

KeepTimerfd == UNCHANGED timerfd_

\* The end of Reset(): the timerfd is set for the earliest timer.
RearmTimerfd ==
  \/ timers_' = {} /\ UNCHANGED timerfd_
  \/ \E next_expire \in Expirations(timers_') :
       /\ IsMin(next_expire, Expirations(timers_'))
       /\ IF next_expire > 0 THEN ResetTimerfd(next_expire) ELSE UNCHANGED timerfd_

\* The end of HandleRead(): Reset() of the batch.
Reset ==
  /\ calling_expired_timers_
  /\ to_run = {}
  /\ calling_expired_timers_' = FALSE
  /\ heap' = ResetHeap
  /\ timers_' = timers_ \cup {<<Restart(heap[e[2]]).expiration, e[2]>> : e \in {x \in expired : Restarts(x)}}
  /\ active_timers_' = active_timers_ \cup
       {<<e[2], heap[e[2]].sequence>> : e \in {x \in expired : Restarts(x)}}
  /\ RearmTimerfd
  /\ expired' = {} /\ now' = 0
  /\ UNCHANGED <<s_num_created_, canceling_timers_, to_run, active, pending, adding, ids,
                 clock, ran, cancelled, jumps>>

------------------------------------------------------------------------------
(* Time. *)

Tick ==
  /\ clock' = IF clock < MaxTime THEN clock + 1 ELSE clock
  /\ timerfd_' = [left |-> IF timerfd_.left > 0 THEN timerfd_.left - 1 ELSE 0,
                  readable |-> timerfd_.readable \/ timerfd_.left = 1]
  /\ UNCHANGED <<heap, s_num_created_, indexes, batch, active, pending, adding, ids,
                 ran, cancelled, jumps>>

SetClock ==
  /\ jumps < MaxJumps
  /\ clock' \in 1..MaxTime
  /\ jumps' = jumps + 1
  /\ UNCHANGED <<heap, s_num_created_, indexes, batch, timerfd_, active, pending, adding, ids,
                 ran, cancelled>>

LoopStep == RunAdd \/ RunCancel \/ PollTimerfd \/ HandleRead \/ RunTimer \/ Reset

Next ==
  \/ LoopStep \/ Tick \/ SetClock
  \/ \E a \in Addrs, when \in 0..MaxTime, interval \in Intervals :
       AddTimer(a, when, interval) \/ \E t \in Threads : AddTimerFrom(t, a, when, interval)
  \/ \E t \in Threads : AddTimerReturns(t)
  \/ \E id \in ids : Cancel(id) \/ \E t \in Threads : CancelFrom(t, id)

\* Time passes, the loop's thread is scheduled and callbacks return; every
\* iteration of the loop polls and runs the functors queued before it.
Fairness ==
  /\ WF_vars(Tick)
  /\ WF_vars(PollTimerfd) /\ WF_vars(HandleRead) /\ WF_vars(RunTimer) /\ WF_vars(Reset)
  /\ SF_vars(RunAdd \/ RunCancel)

Spec == Init /\ [][Next]_vars

FairSpec == Spec /\ Fairness
------------------------------------------------------------------------------
(* Properties. *)

\* The asserts of Insert(), GetExpired() and CancelInLoop(): timers_ and
\* active_timers_ hold the same timers, all of them allocated, each filed under
\* its own expiration and sequence, so that every erase finds its entry.
IndexesAgree ==
  /\ \A e \in timers_ : Allocated(e[2]) /\ heap[e[2]].expiration = e[1]
  /\ active_timers_ = {<<e[2], heap[e[2]].sequence>> : e \in timers_}

InTimers(a) == \E e \in timers_ : e[2] = a
InBatch(a) == \E e \in expired : e[2] = a
AddsAt(i, a) == pending[i].op = "add" /\ pending[i].id[1] = a
InFunctor(a) == \E i \in 1..Len(pending) : AddsAt(i, a)

\* Who deletes a Timer: each allocated timer is held by exactly one of the
\* indexes, the batch of HandleRead() and a functor that will add it, and none
\* of them holds a deleted one, although the pointers are raw, CancelInLoop()
\* and Reset() delete, and addresses are reused.
OwnedOnce ==
  \A a \in Addrs :
    /\ Allocated(a) <=> InTimers(a) \/ InBatch(a) \/ InFunctor(a)
    /\ ~(InTimers(a) /\ InBatch(a)) /\ ~(InTimers(a) /\ InFunctor(a))
    /\ ~(InBatch(a) /\ InFunctor(a))
    /\ \A i, j \in 1..Len(pending) : AddsAt(i, a) /\ AddsAt(j, a) => i = j

\* No timer is forgotten (AddTimerInLoop() and Reset() against the timerfd):
\* outside HandleRead(), when there are timers, the loop is about to call
\* HandleRead() or the timerfd is armed, and unless the wall clock was set it
\* expires no later than the earliest timer (one tick from now if it is due).
EarliestIsArmed ==
  ~calling_expired_timers_ /\ timers_ # {} =>
    \/ active \/ timerfd_.readable
    \/ /\ timerfd_.left > 0
       /\ jumps = 0 => \A e \in timers_ : timerfd_.left <= 1 \/ timerfd_.left <= e[1] - clock

\* Cancel() is final (CancelInLoop() and canceling_timers_ against Reset()): a
\* timer that was cancelled while the queue knew it, even from its own
\* callback or from another callback of its batch, is never filed again, and
\* neither is a timer without interval that has run.
CancelIsFinal ==
  \A e \in timers_ :
    /\ heap[e[2]].sequence \notin cancelled
    /\ heap[e[2]].interval = 0 => heap[e[2]].sequence \notin ran

\* A timer disappears only by running or by a Cancel() of its own id: a stale
\* TimerId whose address was given to another timer does not hit that timer
\* (the sequence in TimerId and ActiveTimer).
OnlyCancelDrops ==
  \A s \in 1..s_num_created_ :
    s \in ran \/ s \in cancelled \/ \E a \in Addrs : heap[a].sequence = s

Waiting(s) ==
  \E a \in Addrs : heap[a].sequence = s /\ heap[a].expiration <= MaxTime /\ ~InBatch(a)

\* Every timer is served: one that waits, filed or still in a functor, with an
\* expiration that the clock reaches is taken into a batch of HandleRead() or
\* is cancelled; each time a repeating timer is restarted this holds anew.
DueTimerServed == \A s \in 1..MaxTimers : Waiting(s) ~> ~Waiting(s)
==============================================================================
