------------------------- MODULE TimerQueueProofs --------------------------
(***************************************************************************)
(* The inductive invariant from which the properties of TimerQueue follow, *)
(* kept by every step for any threads, heap addresses, intervals and       *)
(* bounds: what the indexes, the batch and the functors hold, who deletes a *)
(* timer, what a cancel does, and that the timerfd is armed.  First the    *)
(* steps that file no timer and drop none, then adding and cancelling, then *)
(* the batch of expired timers.                                            *)
(***************************************************************************)
EXTENDS TimerQueue, TLAPS

\* Zenon proves the leaves that do not name a prover.
USE ZenonT(30)

Timer == [sequence : Nat, expiration : Nat, interval : Nat]
TimerIds == Addrs \X Nat
Functors == [op : {"add", "cancel"}, id : TimerIds]

TypeInv ==
  /\ heap \in [Addrs -> Timer] /\ s_num_created_ \in Nat
  /\ timers_ \subseteq Nat \X Addrs /\ expired \subseteq Nat \X Addrs
  /\ now \in Nat /\ clock \in Nat \ {0} /\ jumps \in Nat
  /\ pending \in Seq(Functors)
  /\ ids \subseteq TimerIds
  /\ adding \in [Threads -> TimerIds \cup {NoCall}]
  /\ timerfd_ \in [left : Nat, readable : BOOLEAN]

\* A sequence is given once.
SequenceInv ==
  /\ \A a \in Addrs : heap[a].sequence <= s_num_created_
  /\ \A a, b \in Addrs : Allocated(a) /\ heap[a].sequence = heap[b].sequence => a = b
  /\ \A s \in ran \cup cancelled : s \in Nat /\ s <= s_num_created_

\* The batch belongs to HandleRead(), its timers are filed under their own
\* expiration, and those that were called have run.
BatchInv ==
  /\ calling_expired_timers_ \/ expired = {}
  /\ active => ~calling_expired_timers_
  /\ to_run \subseteq expired
  /\ \A e \in expired : heap[e[2]].expiration = e[1]
  /\ \A e \in expired \ to_run : heap[e[2]].sequence \in ran

\* What CancelIsFinal needs of the timers that are not in the indexes.
FinalInv ==
  /\ \A a \in Addrs : InFunctor(a) => heap[a].sequence \notin cancelled \cup ran
  /\ \A e \in expired : heap[e[2]].sequence \in cancelled
                          => <<e[2], heap[e[2]].sequence>> \in canceling_timers_

\* A timer with an invalid expiration, for which Reset() does not set the
\* timerfd, has set it when it was added.
InvalidArmed ==
  calling_expired_timers_ /\ (\E e \in timers_ : e[1] = 0)
    => timerfd_.readable \/ timerfd_.left = 1

IInv ==
  /\ TypeInv /\ SequenceInv /\ BatchInv /\ IndexesAgree /\ OwnedOnce
  /\ FinalInv /\ CancelIsFinal /\ OnlyCancelDrops
  /\ InvalidArmed /\ EarliestIsArmed
------------------------------------------------------------------------------
(* Functors: a queue gets longer and shorter by one.                         *)

\* The functors of a queue that add the timer at an address.
AddsIn(q, i, a) == q[i].op = "add" /\ q[i].id[1] = a
HasAdd(q, a) == \E i \in 1..Len(q) : AddsIn(q, i, a)
OneAdd(q, a) == \A i, j \in 1..Len(q) : AddsIn(q, i, a) /\ AddsIn(q, j, a) => i = j

\* QueueInLoop() adds one functor: the timers of the others are the same.
LEMMA AppendAdds ==
  ASSUME NEW q \in Seq(Functors), NEW f \in Functors, NEW a, OneAdd(q, a),
         f.op = "add" /\ f.id[1] = a => ~HasAdd(q, a)
  PROVE /\ Append(q, f) \in Seq(Functors)
        /\ HasAdd(Append(q, f), a) <=> HasAdd(q, a) \/ (f.op = "add" /\ f.id[1] = a)
        /\ OneAdd(Append(q, f), a)
<1> DEFINE p == Append(q, f)
<1>1. /\ p \in Seq(Functors) /\ Len(p) = Len(q) + 1 /\ Len(q) \in Nat
      /\ \A i \in 1..Len(q) : p[i] = q[i]
      /\ p[Len(q) + 1] = f
  BY SMTT(30)
<1>2. \A i \in 1..Len(p) : i \in 1..Len(q) \/ i = Len(q) + 1
  BY SMTT(30), <1>1
<1> HIDE DEF p
<1>3. HasAdd(p, a) <=> HasAdd(q, a) \/ (f.op = "add" /\ f.id[1] = a)
  BY SMTT(30), <1>1, <1>2 DEF HasAdd, AddsIn
<1>4. OneAdd(p, a)
  BY <1>1, <1>2 DEF OneAdd, HasAdd, AddsIn
<1> QED  BY <1>1, <1>3, <1>4 DEF p

\* The loop takes the first functor: its timer is in no other one.
LEMMA TailAdds ==
  ASSUME NEW q \in Seq(Functors), q # <<>>, NEW a, OneAdd(q, a)
  PROVE /\ Head(q) \in Functors /\ Tail(q) \in Seq(Functors)
        /\ HasAdd(Tail(q), a) <=> HasAdd(q, a) /\ ~(Head(q).op = "add" /\ Head(q).id[1] = a)
        /\ Head(q).op = "add" /\ Head(q).id[1] = a => HasAdd(q, a)
        /\ OneAdd(Tail(q), a)
<1> DEFINE p == Tail(q)
<1>1. /\ p \in Seq(Functors) /\ Len(p) = Len(q) - 1 /\ Len(q) \in Nat \ {0}
      /\ \A i \in 1..Len(p) : p[i] = q[i + 1]
      /\ Head(q) = q[1] /\ Head(q) \in Functors
  BY SMTT(30)
<1> HIDE DEF p
<1>2. \A i \in 1..Len(q) : i = 1 \/ i - 1 \in 1..Len(p)
  BY SMTT(30), <1>1
<1>3. \A i \in 1..Len(p) : i + 1 \in 1..Len(q) /\ i + 1 # 1
  BY SMTT(30), <1>1
<1>4. \A i \in 1..Len(p) : AddsIn(p, i, a) <=> AddsIn(q, i + 1, a)
  BY <1>1 DEF AddsIn
<1>5. AddsIn(q, 1, a) <=> Head(q).op = "add" /\ Head(q).id[1] = a
  BY <1>1 DEF AddsIn
<1>6. 1 \in 1..Len(q)
  BY SMTT(30), <1>1
<1>7. HasAdd(p, a) => HasAdd(q, a) /\ ~AddsIn(q, 1, a)
  BY <1>3, <1>4, <1>6 DEF HasAdd, OneAdd
<1>8. HasAdd(q, a) /\ ~AddsIn(q, 1, a) => HasAdd(p, a)
  <2> SUFFICES ASSUME NEW i \in 1..Len(q), AddsIn(q, i, a), i # 1
               PROVE  HasAdd(p, a)
    BY DEF HasAdd
  <2>1. i - 1 \in 1..Len(p) /\ (i - 1) + 1 = i
    BY SMTT(30), <1>2
  <2> QED  BY <2>1, <1>4 DEF HasAdd
<1>9. OneAdd(p, a)
  <2> SUFFICES ASSUME NEW i \in 1..Len(p), NEW j \in 1..Len(p), AddsIn(p, i, a), AddsIn(p, j, a)
               PROVE  i = j
    BY DEF OneAdd
  <2>1. i + 1 = j + 1
    BY <1>3, <1>4 DEF OneAdd
  <2> QED  BY SMTT(30), <2>1
<1> QED  BY <1>1, <1>5, <1>6, <1>7, <1>8, <1>9 DEF p, HasAdd
------------------------------------------------------------------------------
(* Steps that leave the timers where they are.                               *)

\* The invariants about who holds which timer.
OwnInv == SequenceInv /\ IndexesAgree /\ OwnedOnce /\ FinalInv /\ CancelIsFinal /\ OnlyCancelDrops

held == <<heap, s_num_created_, timers_, active_timers_, canceling_timers_, expired, pending,
          ran, cancelled>>

\* Who holds a timer is not a matter of time, of the timerfd or of the ids that
\* callers keep.
LEMMA HeldKeeps == OwnInv /\ UNCHANGED held => OwnInv'
BY SMTT(30) DEF OwnInv, held, SequenceInv, IndexesAgree, OwnedOnce, FinalInv, CancelIsFinal,
       OnlyCancelDrops, Allocated, InTimers, InBatch, InFunctor, AddsAt

\* The timers in functors, in the words of the lemmas about queues.
LEMMA InFunctors ==
  /\ \A a : InFunctor(a) <=> HasAdd(pending, a)
  /\ \A a : InFunctor(a)' <=> HasAdd(pending', a)
  /\ OwnedOnce <=> \A a \in Addrs :
       /\ Allocated(a) <=> InTimers(a) \/ InBatch(a) \/ HasAdd(pending, a)
       /\ ~(InTimers(a) /\ InBatch(a)) /\ ~(InTimers(a) /\ HasAdd(pending, a))
       /\ ~(InBatch(a) /\ HasAdd(pending, a))
       /\ OneAdd(pending, a)
  /\ OwnedOnce' <=> \A a \in Addrs :
       /\ Allocated(a)' <=> InTimers(a)' \/ InBatch(a)' \/ HasAdd(pending', a)
       /\ ~(InTimers(a)' /\ InBatch(a)') /\ ~(InTimers(a)' /\ HasAdd(pending', a))
       /\ ~(InBatch(a)' /\ HasAdd(pending', a))
       /\ OneAdd(pending', a)
BY DEF OwnedOnce, InFunctor, AddsAt, HasAdd, AddsIn, OneAdd

\* The timerfd expires, or time passes before it does; nothing else changes.
LEMMA TickKeeps == IInv /\ Tick => IInv'
<1> SUFFICES ASSUME IInv, Tick
             PROVE  IInv'
  OBVIOUS
<1> USE DEF IInv
<1>1. OwnInv'
  <2>1. UNCHANGED held
    BY DEF Tick, held, indexes, batch
  <2> QED  BY <2>1, HeldKeeps DEF OwnInv
<1>2. TypeInv'
  BY SMTT(30), TimeAssumption DEF Tick, TypeInv, indexes, batch
<1>3. BatchInv'
  BY DEF Tick, BatchInv, indexes, batch
<1>4. InvalidArmed'
  BY DEF Tick, InvalidArmed, TypeInv, indexes, batch
<1>5. EarliestIsArmed'
  <2> SUFFICES ASSUME ~calling_expired_timers_, timers_ # {}, ~active, ~timerfd_'.readable
               PROVE  /\ timerfd_'.left > 0
                      /\ jumps = 0 => \A e \in timers_ :
                           timerfd_'.left <= 1 \/ timerfd_'.left <= e[1] - clock'
    BY DEF Tick, EarliestIsArmed, indexes, batch
  <2>1. ~timerfd_.readable /\ timerfd_.left # 1
    BY DEF Tick, TypeInv
  <2>2. /\ timerfd_.left > 1 /\ timerfd_'.left = timerfd_.left - 1
        /\ jumps = 0 => \A e \in timers_ : timerfd_.left <= e[1] - clock
    BY SMTT(30), <2>1 DEF Tick, EarliestIsArmed, TypeInv
  <2>3. clock' <= clock + 1 /\ clock \in Nat /\ clock' \in Nat /\ timerfd_.left \in Nat
    BY SMTT(30), TimeAssumption DEF Tick, TypeInv
  <2>4. \A e \in timers_ : e[1] \in Nat
    BY DEF TypeInv
  <2> QED  BY SMTT(30), <2>2, <2>3, <2>4
<1> QED  BY <1>1, <1>2, <1>3, <1>4, <1>5 DEF OwnInv

\* The wall clock is set: the timerfd is still armed, for whatever time.
LEMMA SetClockKeeps == IInv /\ SetClock => IInv'
<1> SUFFICES ASSUME IInv, SetClock
             PROVE  IInv'
  OBVIOUS
<1> USE DEF IInv
<1>1. OwnInv'
  <2>1. UNCHANGED held
    BY DEF SetClock, held, indexes, batch
  <2> QED  BY <2>1, HeldKeeps DEF OwnInv
<1>2. TypeInv'
  BY SMTT(30), TimeAssumption DEF SetClock, TypeInv, indexes, batch
<1>3. BatchInv' /\ InvalidArmed'
  BY DEF SetClock, BatchInv, InvalidArmed, indexes, batch
<1>4. EarliestIsArmed'
  BY SMTT(30) DEF SetClock, EarliestIsArmed, TypeInv, indexes, batch
<1> QED  BY <1>1, <1>2, <1>3, <1>4 DEF OwnInv

\* Poll() reports the timerfd outside HandleRead().
LEMMA PollTimerfdKeeps == IInv /\ PollTimerfd => IInv'
<1> SUFFICES ASSUME IInv, PollTimerfd
             PROVE  IInv'
  OBVIOUS
<1> USE DEF IInv
<1>1. OwnInv'
  <2>1. UNCHANGED held
    BY DEF PollTimerfd, held, indexes, batch
  <2> QED  BY <2>1, HeldKeeps DEF OwnInv
<1>2. TypeInv' /\ BatchInv' /\ InvalidArmed' /\ EarliestIsArmed'
  BY DEF PollTimerfd, TypeInv, BatchInv, InvalidArmed, EarliestIsArmed, indexes, batch
<1> QED  BY <1>1, <1>2 DEF OwnInv

\* AddTimer() returns an id: one more id that a caller may cancel with.
LEMMA AddTimerReturnsKeeps ==
  ASSUME NEW t \in Threads
  PROVE  IInv /\ AddTimerReturns(t) => IInv'
<1> SUFFICES ASSUME IInv, AddTimerReturns(t)
             PROVE  IInv'
  OBVIOUS
<1> USE DEF IInv
<1>1. OwnInv'
  <2>1. UNCHANGED held
    BY DEF AddTimerReturns, held, indexes, batch
  <2> QED  BY <2>1, HeldKeeps DEF OwnInv
<1>2. TypeInv'
  <2>1. PICK s \in {adding[t][2], heap[adding[t][1]].sequence} : ids' = ids \cup {<<adding[t][1], s>>}
    BY DEF AddTimerReturns
  <2>2. adding[t][1] \in Addrs /\ adding[t][2] \in Nat
    BY DEF AddTimerReturns, TypeInv, TimerIds
  <2>3. ids' \subseteq TimerIds
    BY SMTT(30), <2>1, <2>2 DEF TypeInv, TimerIds, Timer
  <2>4. adding' \in [Threads -> TimerIds \cup {NoCall}]
    BY DEF AddTimerReturns, TypeInv
  <2> QED  BY <2>3, <2>4 DEF AddTimerReturns, TypeInv, indexes, batch
<1>3. BatchInv' /\ InvalidArmed' /\ EarliestIsArmed'
  BY DEF AddTimerReturns, BatchInv, InvalidArmed, EarliestIsArmed, indexes, batch
<1> QED  BY <1>1, <1>2, <1>3 DEF OwnInv
------------------------------------------------------------------------------
(* Calls of other threads.                                                   *)

\* The entries of an index in terms of its types.
LEMMA Typed ==
  ASSUME TypeInv
  PROVE  /\ \A a \in Addrs : /\ heap[a].sequence \in Nat /\ heap[a].expiration \in Nat
                             /\ heap[a].interval \in Nat
         /\ \A e \in timers_ \cup expired : e[1] \in Nat /\ e[2] \in Addrs /\ e = <<e[1], e[2]>>
         /\ \A id \in ids : id[1] \in Addrs /\ id[2] \in Nat /\ id = <<id[1], id[2]>>
BY SMTT(30) DEF TypeInv, Timer, TimerIds

\* Cancel() on another thread queues a functor that holds no timer.
LEMMA CancelFromKeeps ==
  ASSUME NEW t \in Threads, NEW id \in ids
  PROVE  IInv /\ CancelFrom(t, id) => IInv'
<1> SUFFICES ASSUME IInv, CancelFrom(t, id)
             PROVE  IInv'
  OBVIOUS
<1> USE DEF IInv
<1> DEFINE f == [op |-> "cancel", id |-> id]
<1>1. f \in Functors /\ f.op # "add" /\ pending \in Seq(Functors) /\ pending' = Append(pending, f)
  BY DEF CancelFrom, TypeInv, Functors
<1> HIDE DEF f
<1>2. \A a \in Addrs : OneAdd(pending, a)
  BY InFunctors
<1>3. /\ pending' \in Seq(Functors)
      /\ \A a \in Addrs : (HasAdd(pending', a) <=> HasAdd(pending, a)) /\ OneAdd(pending', a)
  BY SMTT(30), <1>1, <1>2, AppendAdds
<1>4. UNCHANGED <<heap, s_num_created_, indexes, batch, timerfd_, active, adding, ids,
                  clock, ran, cancelled, jumps>>
  BY DEF CancelFrom
<1>5. OwnedOnce'
  BY <1>3, <1>4, InFunctors DEF Allocated, InTimers, InBatch, indexes, batch
<1>6. FinalInv'
  BY <1>3, <1>4, InFunctors DEF FinalInv, indexes, batch
<1>7. SequenceInv' /\ IndexesAgree' /\ CancelIsFinal' /\ OnlyCancelDrops'
  BY SMTT(30), <1>4 DEF SequenceInv, IndexesAgree, CancelIsFinal, OnlyCancelDrops, Allocated, indexes, batch
<1>8. TypeInv' /\ BatchInv' /\ InvalidArmed' /\ EarliestIsArmed'
  BY <1>3, <1>4 DEF TypeInv, BatchInv, InvalidArmed, EarliestIsArmed, indexes, batch
<1> QED  BY <1>5, <1>6, <1>7, <1>8

\* There is a new timer at address a, with a sequence that nobody has, has
\* cancelled or has seen run, and nobody holds it yet.
IsCreated(a, when, interval) ==
  /\ when \in Nat /\ interval \in Nat /\ s_num_created_ \in Nat
  /\ s_num_created_' = s_num_created_ + 1
  /\ heap' \in [Addrs -> Timer]
  /\ \A b \in Addrs : b # a => heap'[b] = heap[b]
  /\ heap'[a].sequence = s_num_created_ + 1
  /\ heap'[a].expiration = when /\ heap'[a].interval = interval
  /\ heap[a].sequence = 0
  /\ s_num_created_ + 1 \notin ran \cup cancelled
  /\ \A b \in Addrs : heap[b].sequence < s_num_created_ + 1
  /\ ~InTimers(a) /\ ~InBatch(a) /\ ~HasAdd(pending, a)

\* new Timer gives a timer a sequence of its own and changes no other timer.
LEMMA Created ==
  ASSUME NEW a \in Addrs, NEW when, NEW interval, when \in Nat, interval \in Nat,
         IInv, NewTimer(a, when, interval)
  PROVE  IsCreated(a, when, interval)
<1> USE DEF IInv
<1>1. s_num_created_ \in Nat
  BY DEF TypeInv
<1>2. heap \in [Addrs -> Timer] /\ heap[a].sequence = 0 /\ s_num_created_' = s_num_created_ + 1
  BY DEF TypeInv, NewTimer, Allocated
<1>3. heap' = [heap EXCEPT ![a] = [sequence |-> s_num_created_ + 1,
                                   expiration |-> when, interval |-> interval]]
  BY DEF NewTimer
<1>4. heap'[a] = [sequence |-> s_num_created_ + 1, expiration |-> when, interval |-> interval]
  BY <1>2, <1>3
<1>5. heap' \in [Addrs -> Timer] /\ \A b \in Addrs : b # a => heap'[b] = heap[b]
  BY SMTT(30), <1>1, <1>2, <1>3 DEF Timer
<1>6. /\ s_num_created_ + 1 \notin ran \cup cancelled
      /\ \A b \in Addrs : heap[b].sequence < s_num_created_ + 1
  BY SMTT(30), <1>1, Typed DEF SequenceInv
<1>7. ~InTimers(a) /\ ~InBatch(a) /\ ~HasAdd(pending, a)
  BY <1>2, InFunctors DEF Allocated
<1> QED  BY SMTT(30), <1>1, <1>2, <1>4, <1>5, <1>6, <1>7 DEF IsCreated

\* After new Timer: what does not depend on who holds the new timer.
LEMMA CreatedKeeps ==
  ASSUME NEW a \in Addrs, NEW when, NEW interval, when \in Nat, interval \in Nat,
         IInv, IsCreated(a, when, interval), UNCHANGED <<ran, cancelled, expired>>
  PROVE  /\ SequenceInv' /\ OnlyCancelDrops'
         /\ \A e \in timers_ \cup expired : e[2] \in Addrs /\ heap'[e[2]] = heap[e[2]]
         /\ \A b \in Addrs : b # a => (Allocated(b)' <=> Allocated(b))
<1> USE DEF IInv, IsCreated
<1>1. SequenceInv'
  <2>1. \A b \in Addrs : heap'[b].sequence <= s_num_created_'
    BY SMTT(30), Typed
  <2>2. \A b, c \in Addrs : Allocated(b)' /\ heap'[b].sequence = heap'[c].sequence => b = c
    BY SMTT(30), Typed DEF SequenceInv, Allocated
  <2>3. \A s \in ran' \cup cancelled' : s \in Nat /\ s <= s_num_created_'
    BY SMTT(30) DEF SequenceInv
  <2> QED  BY <2>1, <2>2, <2>3 DEF SequenceInv
<1>2. OnlyCancelDrops'
  <2> SUFFICES ASSUME NEW s \in 1..s_num_created_', s \notin ran, s \notin cancelled
               PROVE  \E b \in Addrs : heap'[b].sequence = s
    BY DEF OnlyCancelDrops
  <2>1. CASE s = s_num_created_ + 1
    BY <2>1
  <2>2. CASE s # s_num_created_ + 1
    <3>1. s \in 1..s_num_created_
      BY SMTT(30), <2>2
    <3>2. PICK b \in Addrs : heap[b].sequence = s
      BY <3>1 DEF OnlyCancelDrops
    <3>3. b # a
      BY SMTT(30), <3>1, <3>2 DEF Allocated
    <3> QED  BY <3>2, <3>3
  <2> QED  BY <2>1, <2>2
<1>3. \A e \in timers_ \cup expired : e[2] \in Addrs /\ heap'[e[2]] = heap[e[2]]
  BY Typed DEF InTimers, InBatch
<1>4. \A b \in Addrs : b # a => (Allocated(b)' <=> Allocated(b))
  BY DEF Allocated
<1> QED  BY <1>1, <1>2, <1>3, <1>4

\* AddTimer() on another thread: the functor holds the new timer.
LEMMA AddTimerFromKeeps ==
  ASSUME NEW t \in Threads, NEW a \in Addrs, NEW when \in 0..MaxTime, NEW interval \in Intervals
  PROVE  IInv /\ AddTimerFrom(t, a, when, interval) => IInv'
<1> SUFFICES ASSUME IInv, AddTimerFrom(t, a, when, interval)
             PROVE  IInv'
  OBVIOUS
<1> USE DEF IInv
<1> DEFINE f == [op |-> "add", id |-> <<a, s_num_created_ + 1>>]
<1>1. /\ NewTimer(a, when, interval) /\ when \in Nat /\ interval \in Nat
      /\ UNCHANGED <<indexes, batch, timerfd_, active, ids, clock, ran, cancelled, jumps>>
  BY SMTT(30), TimeAssumption DEF AddTimerFrom
<1>2. IsCreated(a, when, interval) /\ UNCHANGED <<ran, cancelled, expired>>
  BY <1>1, Created DEF batch
<1> USE <1>2 DEF IsCreated
<1>3. f \in Functors /\ f.op = "add" /\ f.id[1] = a /\ pending \in Seq(Functors)
  BY SMTT(30), <1>1 DEF TypeInv, Functors, TimerIds
<1>4. pending' = Append(pending, f)
  BY DEF AddTimerFrom
<1> HIDE DEF f
<1>5. \A b \in Addrs : OneAdd(pending, b)
  BY InFunctors
<1>6. ~HasAdd(pending, a)
  BY <1>1
<1>7. /\ pending' \in Seq(Functors)
      /\ \A b \in Addrs : (HasAdd(pending', b) <=> HasAdd(pending, b) \/ b = a) /\ OneAdd(pending', b)
  BY SMTT(30), <1>3, <1>4, <1>5, <1>6, AppendAdds
<1>8. /\ SequenceInv' /\ OnlyCancelDrops'
      /\ \A e \in timers_ \cup expired : e[2] \in Addrs /\ heap'[e[2]] = heap[e[2]]
      /\ \A b \in Addrs : b # a => (Allocated(b)' <=> Allocated(b))
  BY <1>1, <1>2, CreatedKeeps
<1>9. OwnedOnce'
  <2>1. \A b \in Addrs : (InTimers(b)' <=> InTimers(b)) /\ (InBatch(b)' <=> InBatch(b))
    BY <1>1 DEF InTimers, InBatch, indexes, batch
  <2>2. Allocated(a)' /\ ~InTimers(a) /\ ~InBatch(a)
    BY SMTT(30) DEF Allocated
  <2> QED  BY <1>7, <1>8, <2>1, <2>2, InFunctors
<1>10. IndexesAgree' /\ CancelIsFinal'
  BY SMTT(30), <1>1, <1>8 DEF IndexesAgree, CancelIsFinal, Allocated, indexes, batch
<1>11. FinalInv'
  <2>1. \A b \in Addrs : HasAdd(pending', b) => heap'[b].sequence \notin cancelled' \cup ran'
    BY <1>1, <1>2, <1>7, InFunctors DEF FinalInv
  <2>2. \A e \in expired' : heap'[e[2]].sequence \in cancelled'
                             => <<e[2], heap'[e[2]].sequence>> \in canceling_timers_'
    BY <1>1, <1>8 DEF FinalInv, batch
  <2> QED  BY <2>1, <2>2, InFunctors DEF FinalInv
<1>12. TypeInv'
  <2>1. adding' \in [Threads -> TimerIds \cup {NoCall}]
    BY SMTT(30), <1>1 DEF AddTimerFrom, TypeInv, TimerIds
  <2> QED  BY SMTT(30), <1>1, <1>7, <2>1 DEF TypeInv, indexes, batch
<1>13. BatchInv' /\ InvalidArmed' /\ EarliestIsArmed'
  BY SMTT(30), <1>1, <1>8 DEF BatchInv, InvalidArmed, EarliestIsArmed, indexes, batch
<1> QED  BY <1>8, <1>9, <1>10, <1>11, <1>12, <1>13

(* Filing a timer.                                                           *)

\* AddTimerInLoop() on an allocated timer that is not filed: it is in both
\* indexes, and the timerfd is right for it if it was right for the others.
LEMMA Filed ==
  ASSUME NEW a \in Addrs, IInv, heap' \in [Addrs -> Timer], heap'[a].sequence # 0,
         ~InTimers(a), \A e \in timers_ : heap'[e[2]] = heap[e[2]],
         AddTimerInLoop(a, heap'[a]), UNCHANGED <<clock, jumps, active, calling_expired_timers_>>
  PROVE  /\ timers_' = timers_ \cup {<<heap'[a].expiration, a>>} /\ timers_' \subseteq Nat \X Addrs
         /\ \A b \in Addrs : InTimers(b)' <=> InTimers(b) \/ b = a
         /\ timerfd_' \in [left : Nat, readable : BOOLEAN]
         /\ IndexesAgree' /\ InvalidArmed' /\ EarliestIsArmed'
<1> USE DEF IInv
<1> DEFINE when == heap'[a].expiration
<1>1. when \in Nat /\ heap'[a].sequence \in Nat
  BY DEF Timer
<1>2. /\ timers_' = timers_ \cup {<<when, a>>}
      /\ active_timers_' = active_timers_ \cup {<<a, heap'[a].sequence>>}
  BY DEF AddTimerInLoop, Insert
<1>3. timers_' \subseteq Nat \X Addrs
  BY SMTT(30), <1>1, <1>2 DEF TypeInv
<1> HIDE DEF when
<1>4. \A b \in Addrs : InTimers(b)' <=> InTimers(b) \/ b = a
  <2>1. <<when, a>> \in timers_' /\ <<when, a>>[2] = a
    BY <1>2
  <2>2. \A b \in Addrs : InTimers(b) \/ b = a => InTimers(b)'
    BY <1>2, <2>1 DEF InTimers
  <2>3. \A b \in Addrs : InTimers(b)' => InTimers(b) \/ b = a
    BY SMTT(30), <1>2 DEF InTimers
  <2> QED  BY <2>2, <2>3
<1> USE DEF when
<1>5. IndexesAgree'
  <2>1. \A e \in timers_' : e \in timers_ \/ e = <<when, a>>
    BY <1>2
  <2>2. \A e \in timers_' : heap'[e[2]].sequence # 0 /\ heap'[e[2]].expiration = e[1]
    BY SMTT(30), <2>1 DEF IndexesAgree, Allocated
  <2>3. active_timers_' = {<<e[2], heap'[e[2]].sequence>> : e \in timers_'}
    <3>1. \A e \in timers_' : <<e[2], heap'[e[2]].sequence>> \in active_timers_'
      BY SMTT(30), <2>1, <1>2 DEF IndexesAgree
    <3>2. <<when, a>> \in timers_' /\ <<when, a>>[2] = a
      BY <1>2
    <3>3. \A x \in active_timers_' : \E e \in timers_' : x = <<e[2], heap'[e[2]].sequence>>
      BY <3>2, <1>2 DEF IndexesAgree
    <3> QED  BY <3>1, <3>3
  <2> QED  BY <2>2, <2>3 DEF IndexesAgree, Allocated
<1>6. timerfd_ \in [left : Nat, readable : BOOLEAN] /\ clock \in Nat \ {0}
  BY DEF TypeInv
<1>7. CASE EarliestChanged(when)
  <2>1. timerfd_' = [left |-> IF when - clock < 1 THEN 1 ELSE when - clock, readable |-> FALSE]
    BY <1>7 DEF AddTimerInLoop, ResetTimerfd
  <2>2. timerfd_' \in [left : Nat, readable : BOOLEAN] /\ timerfd_'.left > 0
    BY SMTT(30), <2>1, <1>1, <1>6
  <2>3. \A e \in timers_' : e[1] \in Nat /\ when <= e[1]
    BY SMTT(30), <1>7, <1>1, <1>2, Typed DEF EarliestChanged
  <2>4. \A e \in timers_' : timerfd_'.left <= 1 \/ timerfd_'.left <= e[1] - clock
    BY SMTT(30), <2>1, <2>3, <1>1, <1>6
  <2>5. (\E e \in timers_' : e[1] = 0) => timerfd_'.left = 1
    BY SMTT(30), <2>1, <2>3, <1>1, <1>6
  <2> QED  BY <2>2, <2>4, <2>5, <1>2, <1>3, <1>4, <1>5 DEF InvalidArmed, EarliestIsArmed
<1>8. CASE ~EarliestChanged(when)
  <2>1. timerfd_' = timerfd_
    BY <1>8 DEF AddTimerInLoop
  <2>2. PICK d \in timers_ : d[1] <= when /\ d[1] \in Nat
    BY SMTT(30), <1>8, <1>1, Typed DEF EarliestChanged
  <2>3. InvalidArmed'
    <3>1. (\E e \in timers_' : e[1] = 0) => \E e \in timers_ : e[1] = 0
      BY SMTT(30), <1>1, <1>2, <2>2
    <3> QED  BY <3>1, <2>1 DEF InvalidArmed
  <2>4. EarliestIsArmed'
    <3> SUFFICES ASSUME ~calling_expired_timers_, ~active, ~timerfd_.readable
                 PROVE  /\ timerfd_.left > 0
                        /\ jumps = 0 => \A e \in timers_' :
                             timerfd_.left <= 1 \/ timerfd_.left <= e[1] - clock
      BY <2>1 DEF EarliestIsArmed
    <3>1. /\ timerfd_.left > 0
          /\ jumps = 0 => \A e \in timers_ : timerfd_.left <= 1 \/ timerfd_.left <= e[1] - clock
      BY <2>2 DEF EarliestIsArmed
    <3>2. jumps = 0 => timerfd_.left <= 1 \/ timerfd_.left <= when - clock
      BY SMTT(30), <3>1, <2>2, <1>1, <1>6
    <3> QED  BY SMTT(30), <3>1, <3>2, <1>2
  <2> QED  BY <2>1, <2>3, <2>4, <1>2, <1>3, <1>4, <1>5, <1>6
<1> QED  BY <1>7, <1>8

\* AddTimer() on the loop's thread: the indexes hold the new timer at once.
LEMMA AddTimerKeeps ==
  ASSUME NEW a \in Addrs, NEW when \in 0..MaxTime, NEW interval \in Intervals
  PROVE  IInv /\ AddTimer(a, when, interval) => IInv'
<1> SUFFICES ASSUME IInv, AddTimer(a, when, interval)
             PROVE  IInv'
  OBVIOUS
<1> USE DEF IInv
<1>1. /\ NewTimer(a, when, interval) /\ when \in Nat /\ interval \in Nat
      /\ AddTimerInLoop(a, heap'[a])
      /\ UNCHANGED <<batch, active, pending, adding, clock, ran, cancelled, jumps>>
  BY SMTT(30), TimeAssumption DEF AddTimer
<1>2. IsCreated(a, when, interval) /\ UNCHANGED <<ran, cancelled, expired>>
  BY <1>1, Created DEF batch
<1> USE <1>2 DEF IsCreated
<1>3. /\ SequenceInv' /\ OnlyCancelDrops'
      /\ \A e \in timers_ \cup expired : e[2] \in Addrs /\ heap'[e[2]] = heap[e[2]]
      /\ \A b \in Addrs : b # a => (Allocated(b)' <=> Allocated(b))
  BY <1>1, CreatedKeeps
<1>4. heap'[a].sequence # 0 /\ UNCHANGED <<clock, jumps, active, calling_expired_timers_>>
  BY SMTT(30), <1>1 DEF batch
<1>5. /\ timers_' = timers_ \cup {<<heap'[a].expiration, a>>} /\ timers_' \subseteq Nat \X Addrs
      /\ \A b \in Addrs : InTimers(b)' <=> InTimers(b) \/ b = a
      /\ timerfd_' \in [left : Nat, readable : BOOLEAN]
      /\ IndexesAgree' /\ InvalidArmed' /\ EarliestIsArmed'
  BY <1>1, <1>3, <1>4, Filed
<1>6. OwnedOnce'
  <2>1. \A b \in Addrs : InBatch(b)' <=> InBatch(b)
    BY <1>1 DEF InBatch, batch
  <2>2. Allocated(a)' /\ ~InBatch(a) /\ ~HasAdd(pending, a) /\ pending' = pending
    BY SMTT(30), <1>1 DEF Allocated
  <2> QED  BY <1>3, <1>5, <2>1, <2>2, InFunctors
<1>7. CancelIsFinal'
  BY SMTT(30), <1>1, <1>3, <1>5 DEF CancelIsFinal
<1>8. FinalInv'
  <2>1. \A b \in Addrs : HasAdd(pending', b) => heap'[b].sequence \notin cancelled' \cup ran'
    BY <1>1, InFunctors DEF FinalInv
  <2>2. \A e \in expired' : heap'[e[2]].sequence \in cancelled'
                             => <<e[2], heap'[e[2]].sequence>> \in canceling_timers_'
    BY <1>1, <1>3 DEF FinalInv, batch
  <2> QED  BY <2>1, <2>2, InFunctors DEF FinalInv
<1>9. TypeInv'
  <2>1. ids' \subseteq TimerIds
    BY SMTT(30), <1>1 DEF AddTimer, TypeInv, TimerIds
  <2> QED  BY SMTT(30), <1>1, <1>5, <2>1 DEF TypeInv, batch
<1>10. BatchInv'
  BY SMTT(30), <1>1, <1>3 DEF BatchInv, batch
<1> QED  BY <1>3, <1>5, <1>6, <1>7, <1>8, <1>9, <1>10

\* The functor of AddTimer() runs: the timer moves from it to the indexes.
LEMMA RunAddKeeps == IInv /\ RunAdd => IInv'
<1> SUFFICES ASSUME IInv, RunAdd
             PROVE  IInv'
  OBVIOUS
<1> USE DEF IInv
<1> DEFINE a == Head(pending).id[1]
<1>1. /\ pending \in Seq(Functors) /\ pending # <<>> /\ Head(pending).op = "add"
      /\ pending' = Tail(pending) /\ AddTimerInLoop(a, heap[a])
      /\ UNCHANGED <<heap, s_num_created_, batch, active, adding, ids, clock, ran, cancelled, jumps>>
  BY DEF RunAdd, TypeInv
<1>2. \A b \in Addrs : OneAdd(pending, b)
  BY InFunctors
<1>3. a \in Addrs
  <2>1. Head(pending) \in Functors
    BY SMTT(30), <1>1
  <2> QED  BY <2>1 DEF Functors, TimerIds
<1> HIDE DEF a
<1>4. /\ pending' \in Seq(Functors) /\ HasAdd(pending, a)
      /\ \A b \in Addrs : (HasAdd(pending', b) <=> HasAdd(pending, b) /\ b # a) /\ OneAdd(pending', b)
  BY <1>1, <1>2, <1>3, TailAdds DEF a
<1>5. heap'[a].sequence # 0 /\ heap' = heap /\ heap \in [Addrs -> Timer]
  BY <1>1, <1>3, <1>4, InFunctors DEF Allocated, TypeInv
<1>6. ~InTimers(a) /\ ~InBatch(a)
  BY <1>3, <1>4, InFunctors
<1>7. UNCHANGED <<clock, jumps, active, calling_expired_timers_>>
  BY <1>1 DEF batch
<1>8. /\ timers_' = timers_ \cup {<<heap'[a].expiration, a>>} /\ timers_' \subseteq Nat \X Addrs
      /\ \A b \in Addrs : InTimers(b)' <=> InTimers(b) \/ b = a
      /\ timerfd_' \in [left : Nat, readable : BOOLEAN]
      /\ IndexesAgree' /\ InvalidArmed' /\ EarliestIsArmed'
  BY <1>1, <1>3, <1>5, <1>6, <1>7, Filed
<1>9. OwnedOnce'
  <2>1. \A b \in Addrs : (InBatch(b)' <=> InBatch(b)) /\ (Allocated(b)' <=> Allocated(b))
    BY <1>1 DEF InBatch, Allocated, batch
  <2> QED  BY <1>4, <1>6, <1>8, <2>1, InFunctors
<1>10. CancelIsFinal'
  BY <1>1, <1>3, <1>4, <1>8, InFunctors DEF CancelIsFinal, FinalInv
<1>11. FinalInv'
  <2>1. \A b \in Addrs : HasAdd(pending', b) => heap'[b].sequence \notin cancelled' \cup ran'
    BY <1>1, <1>4, InFunctors DEF FinalInv
  <2>2. \A e \in expired' : heap'[e[2]].sequence \in cancelled'
                             => <<e[2], heap'[e[2]].sequence>> \in canceling_timers_'
    BY <1>1 DEF FinalInv, batch
  <2> QED  BY <2>1, <2>2, InFunctors DEF FinalInv
<1>12. TypeInv' /\ BatchInv' /\ SequenceInv' /\ OnlyCancelDrops'
  BY <1>1, <1>4, <1>8 DEF TypeInv, BatchInv, SequenceInv, OnlyCancelDrops, Allocated, batch
<1> QED  BY <1>8, <1>9, <1>10, <1>11, <1>12
------------------------------------------------------------------------------
(* Cancelling.                                                               *)

\* Everything that CancelInLoop() does not change, with the same timers in
\* functors as before.
CancelFrame ==
  /\ UNCHANGED <<s_num_created_, calling_expired_timers_, expired, to_run, now, timerfd_,
                 active, adding, ids, clock, ran, jumps>>
  /\ pending' \in Seq(Functors)
  /\ \A b \in Addrs : (HasAdd(pending', b) <=> HasAdd(pending, b)) /\ OneAdd(pending', b)

\* CancelInLoop() of a timer that is filed: it leaves both indexes and is
\* deleted, and no other timer is touched.
LEMMA CancelsFiled ==
  ASSUME NEW id \in TimerIds, IInv, CancelInLoop(id), CancelFrame, id \in active_timers_
  PROVE  IInv'
<1> USE DEF IInv
<1> DEFINE a == id[1]
           entry == <<heap[a].expiration, a>>
<1>1. FindActive(id) = {id}
  BY DEF FindActive
<1>2. a \in Addrs /\ id[2] = heap[a].sequence /\ InTimers(a) /\ id[2] # 0 /\ entry \in timers_
  <2>1. PICK e \in timers_ : id = <<e[2], heap[e[2]].sequence>>
    BY DEF IndexesAgree
  <2>2. e = <<e[1], e[2]>> /\ e[2] \in Addrs /\ heap[e[2]].expiration = e[1] /\ heap[e[2]].sequence # 0
    BY Typed DEF IndexesAgree, Allocated
  <2> QED  BY <2>1, <2>2 DEF InTimers
<1>3. /\ timers_' = timers_ \ {entry} /\ active_timers_' = active_timers_ \ {id}
      /\ heap' = [b \in Addrs |-> IF b = a THEN NoTimer ELSE heap[b]]
      /\ canceling_timers_' = canceling_timers_
      /\ cancelled' = cancelled \cup {heap[a].sequence}
  BY <1>1, <1>2 DEF CancelInLoop
<1>4. /\ heap' \in [Addrs -> Timer] /\ heap'[a].sequence = 0
      /\ \A b \in Addrs : b # a => heap'[b] = heap[b]
  BY <1>2, <1>3 DEF TypeInv, Timer, NoTimer
<1> HIDE DEF a, entry
<1>5. \A e \in timers_ : e \in timers_' <=> e[2] # a
  BY SMTT(30), <1>2, <1>3, Typed DEF IndexesAgree, entry
<1>6. \A e \in timers_' : e \in timers_ /\ e[2] \in Addrs /\ e[2] # a /\ heap'[e[2]] = heap[e[2]]
  BY <1>3, <1>4, <1>5, Typed
<1>7. \A e \in expired : e[2] \in Addrs /\ e[2] # a /\ heap'[e[2]] = heap[e[2]]
  BY SMTT(30), <1>2, <1>4, Typed, InFunctors DEF InBatch
<1>8. ~HasAdd(pending, a) /\ ~InBatch(a) /\ Allocated(a)
  BY <1>2, InFunctors
<1>9. \A b \in Addrs : b # a => heap[b].sequence # heap[a].sequence
  BY <1>2, <1>8 DEF SequenceInv
<1>10. SequenceInv'
  <2>1. \A b \in Addrs : heap'[b].sequence <= s_num_created_'
    BY SMTT(30), <1>4 DEF SequenceInv, TypeInv, CancelFrame
  <2>2. \A b, c \in Addrs : Allocated(b)' /\ heap'[b].sequence = heap'[c].sequence => b = c
    BY <1>4 DEF SequenceInv, Allocated
  <2>3. \A s \in ran' \cup cancelled' : s \in Nat /\ s <= s_num_created_'
    BY <1>2, <1>3, Typed DEF SequenceInv, CancelFrame
  <2> QED  BY <2>1, <2>2, <2>3 DEF SequenceInv
<1>11. IndexesAgree'
  <2>1. \A e \in timers_' : Allocated(e[2])' /\ heap'[e[2]].expiration = e[1]
    BY <1>6 DEF IndexesAgree, Allocated
  <2>2. \A e \in timers_' : <<e[2], heap'[e[2]].sequence>> \in active_timers_'
    BY SMTT(30), <1>2, <1>3, <1>6 DEF IndexesAgree, a
  <2>3. \A x \in active_timers_' : \E e \in timers_' : x = <<e[2], heap'[e[2]].sequence>>
    <3> SUFFICES ASSUME NEW x \in active_timers_'
                 PROVE  \E e \in timers_' : x = <<e[2], heap'[e[2]].sequence>>
      OBVIOUS
    <3>1. PICK e \in timers_ : x = <<e[2], heap[e[2]].sequence>>
      BY <1>3 DEF IndexesAgree
    <3>2. id = <<a, heap[a].sequence>> /\ x # id
      BY SMTT(30), <1>2, <1>3 DEF TimerIds, a
    <3>3. e[2] # a
      BY <3>1, <3>2
    <3> QED  BY <3>1, <3>3, <1>5, <1>6
  <2>4. active_timers_' = {<<e[2], heap'[e[2]].sequence>> : e \in timers_'}
    BY <2>2, <2>3
  <2> QED  BY <2>1, <2>4 DEF IndexesAgree
<1>12. OwnedOnce'
  <2>1. \A b \in Addrs : InTimers(b)' <=> InTimers(b) /\ b # a
    BY <1>5, <1>6 DEF InTimers
  <2>2. \A b \in Addrs : InBatch(b)' <=> InBatch(b)
    BY DEF InBatch, CancelFrame
  <2>3. \A b \in Addrs : Allocated(b)' <=> Allocated(b) /\ b # a
    BY <1>2, <1>4 DEF Allocated
  <2> QED  BY <2>1, <2>2, <2>3, <1>8, InFunctors DEF CancelFrame
<1>13. FinalInv'
  <2>1. \A b \in Addrs : HasAdd(pending', b) => heap'[b].sequence \notin cancelled' \cup ran'
    <3> SUFFICES ASSUME NEW b \in Addrs, HasAdd(pending', b)
                 PROVE  heap'[b].sequence \notin cancelled' \cup ran'
      OBVIOUS
    <3>1. HasAdd(pending, b) /\ b # a
      BY <1>8 DEF CancelFrame
    <3> QED  BY <3>1, <1>3, <1>4, <1>9, InFunctors DEF FinalInv, CancelFrame
  <2>2. \A e \in expired' : heap'[e[2]].sequence \in cancelled'
                             => <<e[2], heap'[e[2]].sequence>> \in canceling_timers_'
    BY <1>3, <1>7, <1>9 DEF FinalInv, CancelFrame
  <2> QED  BY <2>1, <2>2, InFunctors DEF FinalInv
<1>14. CancelIsFinal'
  BY <1>3, <1>6, <1>9 DEF CancelIsFinal, CancelFrame
<1>15. OnlyCancelDrops'
  BY <1>3, <1>4 DEF OnlyCancelDrops, CancelFrame
<1>16. TypeInv'
  BY <1>3, <1>4 DEF TypeInv, CancelFrame
<1>17. BatchInv'
  BY <1>7 DEF BatchInv, CancelFrame
<1>18. InvalidArmed' /\ EarliestIsArmed'
  BY <1>6 DEF InvalidArmed, EarliestIsArmed, CancelFrame
<1> QED  BY <1>10, <1>11, <1>12, <1>13, <1>14, <1>15, <1>16, <1>17, <1>18

\* CancelInLoop() of a timer that is not filed: if it is in the batch that is
\* running, it is noted for Reset(); a stale id changes nothing.
LEMMA CancelsUnfiled ==
  ASSUME NEW id \in TimerIds, IInv, CancelInLoop(id), CancelFrame, id \notin active_timers_
  PROVE  IInv'
<1> USE DEF IInv
<1>1. FindActive(id) = {}
  BY DEF FindActive
<1>2. /\ timers_' = timers_ /\ active_timers_' = active_timers_ /\ heap' = heap
      /\ canceling_timers_' = IF calling_expired_timers_
                              THEN canceling_timers_ \cup {id} ELSE canceling_timers_
      /\ cancelled' = IF id[2] # 0 /\ \E e \in expired : id = <<e[2], heap[e[2]].sequence>>
                      THEN cancelled \cup {id[2]} ELSE cancelled
  BY <1>1 DEF CancelInLoop, TypeInv
<1>3. CASE cancelled' = cancelled
  <2>1. OwnedOnce'
    BY <1>2, InFunctors DEF CancelFrame, Allocated, InTimers, InBatch
  <2>2. FinalInv'
    BY <1>2, <1>3, InFunctors DEF FinalInv, CancelFrame
  <2>3. SequenceInv' /\ IndexesAgree' /\ CancelIsFinal' /\ OnlyCancelDrops'
    BY SMTT(30), <1>2, <1>3 DEF SequenceInv, IndexesAgree, CancelIsFinal, OnlyCancelDrops, Allocated, CancelFrame
  <2>4. TypeInv' /\ BatchInv' /\ InvalidArmed' /\ EarliestIsArmed'
    BY <1>2 DEF TypeInv, BatchInv, InvalidArmed, EarliestIsArmed, CancelFrame
  <2> QED  BY <2>1, <2>2, <2>3, <2>4
<1>4. CASE cancelled' # cancelled
  <2>1. PICK d \in expired : id = <<d[2], heap[d[2]].sequence>>
    BY <1>2, <1>4
  <2> DEFINE a == d[2]
             s == heap[a].sequence
  <2>2. a \in Addrs /\ s \in Nat /\ s <= s_num_created_ /\ InBatch(a) /\ Allocated(a)
    BY Typed, InFunctors DEF InBatch, SequenceInv
  <2>3. cancelled' = cancelled \cup {s} /\ id = <<a, s>>
    BY <2>1, <1>2, <1>4
  <2> HIDE DEF a, s
  <2>4. canceling_timers_' = canceling_timers_ \cup {id}
    BY <1>2 DEF BatchInv
  <2>5. \A b \in Addrs : b # a => heap[b].sequence # s
    BY <2>2 DEF SequenceInv, s
  <2>6. ~InTimers(a) /\ ~HasAdd(pending, a)
    BY <2>2, InFunctors
  <2>7. OwnedOnce'
    BY <1>2, InFunctors DEF CancelFrame, Allocated, InTimers, InBatch
  <2>8. FinalInv'
    <3>1. \A b \in Addrs : HasAdd(pending', b) => heap'[b].sequence \notin cancelled' \cup ran'
      BY <1>2, <2>3, <2>5, <2>6, InFunctors DEF FinalInv, CancelFrame
    <3>2. \A e \in expired' : heap'[e[2]].sequence \in cancelled'
                               => <<e[2], heap'[e[2]].sequence>> \in canceling_timers_'
      <4> SUFFICES ASSUME NEW e \in expired, heap[e[2]].sequence \in cancelled \cup {s}
                   PROVE  <<e[2], heap[e[2]].sequence>> \in canceling_timers_ \cup {id}
        BY <1>2, <2>3, <2>4 DEF CancelFrame
      <4>1. CASE heap[e[2]].sequence \in cancelled
        BY <4>1 DEF FinalInv
      <4>2. CASE heap[e[2]].sequence = s
        BY <4>2, <2>3, <2>5, Typed
      <4> QED  BY <4>1, <4>2
    <3> QED  BY <3>1, <3>2, InFunctors DEF FinalInv
  <2>9. CancelIsFinal'
    BY <1>2, <2>3, <2>5, <2>6, Typed DEF CancelIsFinal, InTimers, CancelFrame
  <2>10. SequenceInv'
    BY <1>2, <2>2, <2>3 DEF SequenceInv, Allocated, CancelFrame
  <2>11. IndexesAgree' /\ OnlyCancelDrops'
    BY SMTT(30), <1>2, <2>3 DEF IndexesAgree, OnlyCancelDrops, Allocated, CancelFrame
  <2>12. TypeInv' /\ BatchInv' /\ InvalidArmed' /\ EarliestIsArmed'
    BY <1>2 DEF TypeInv, BatchInv, InvalidArmed, EarliestIsArmed, CancelFrame
  <2> QED  BY <2>7, <2>8, <2>9, <2>10, <2>11, <2>12
<1> QED  BY <1>3, <1>4

\* Cancel() on the loop's thread.
LEMMA CancelKeeps ==
  ASSUME NEW id \in ids
  PROVE  IInv /\ Cancel(id) => IInv'
<1> SUFFICES ASSUME IInv, Cancel(id)
             PROVE  IInv'
  OBVIOUS
<1>1. id \in TimerIds
  BY DEF IInv, TypeInv
<1>2. CancelInLoop(id)
  BY DEF Cancel
<1>3. CancelFrame
  BY InFunctors DEF Cancel, CancelFrame, IInv, TypeInv
<1> QED  BY <1>1, <1>2, <1>3, CancelsFiled, CancelsUnfiled

\* The functor of another thread's Cancel() runs.
LEMMA RunCancelKeeps == IInv /\ RunCancel => IInv'
<1> SUFFICES ASSUME IInv, RunCancel
             PROVE  IInv'
  OBVIOUS
<1> DEFINE id == Head(pending).id
<1>1. /\ pending \in Seq(Functors) /\ pending # <<>> /\ Head(pending).op = "cancel"
      /\ pending' = Tail(pending) /\ CancelInLoop(id)
  BY DEF RunCancel, IInv, TypeInv
<1>2. id \in TimerIds
  <2>1. Head(pending) \in Functors
    BY SMTT(30), <1>1
  <2> QED  BY <2>1 DEF Functors
<1>3. \A b \in Addrs : OneAdd(pending, b)
  BY InFunctors DEF IInv
<1>4. /\ pending' \in Seq(Functors)
      /\ \A b \in Addrs : (HasAdd(pending', b) <=> HasAdd(pending, b)) /\ OneAdd(pending', b)
  BY SMTT(30), <1>1, <1>3, TailAdds
<1>5. CancelFrame
  BY <1>4 DEF RunCancel, CancelFrame
<1> HIDE DEF id
<1> QED  BY <1>1, <1>2, <1>5, CancelsFiled, CancelsUnfiled

(* The batch of HandleRead().                                                *)

\* HandleRead() moves the timers that are due from the indexes to the batch.
LEMMA HandleReadKeeps == IInv /\ HandleRead => IInv'
<1> SUFFICES ASSUME IInv, HandleRead
             PROVE  IInv'
  OBVIOUS
<1> USE DEF IInv
<1>1. /\ ~calling_expired_timers_ /\ expired = {}
      /\ expired' = Expired /\ to_run' = Expired /\ timers_' = timers_ \ Expired
      /\ active_timers_' = active_timers_ \ {<<e[2], heap[e[2]].sequence>> : e \in Expired}
      /\ calling_expired_timers_' = TRUE /\ active' = FALSE /\ now' = clock
      /\ timerfd_' = [timerfd_ EXCEPT !.readable = FALSE]
      /\ UNCHANGED <<heap, s_num_created_, pending, adding, ids, clock, ran, cancelled, jumps>>
  BY DEF HandleRead, BatchInv, ReadTimerfd
<1>2. Expired \subseteq timers_ /\ \A e \in timers_ \ Expired : e[1] > clock
  BY SMTT(30), Typed DEF Expired, TypeInv
<1>3. \A d, e \in timers_ : d[2] = e[2] => d = e
  BY SMTT(30), Typed DEF IndexesAgree
<1>4. \A a \in Addrs : /\ InTimers(a)' <=> InTimers(a) /\ ~InBatch(a)'
                       /\ InBatch(a)' => InTimers(a)
  BY <1>1, <1>2, <1>3 DEF InTimers, InBatch
<1>5. OwnedOnce'
  <2>1. \A a \in Addrs : ~InBatch(a) /\ (Allocated(a)' <=> Allocated(a)) /\ pending' = pending
    BY <1>1 DEF InBatch, Allocated
  <2> QED  BY <1>4, <2>1, InFunctors
<1>6. IndexesAgree'
  <2>1. \A e \in timers_' : Allocated(e[2])' /\ heap'[e[2]].expiration = e[1]
    BY <1>1 DEF IndexesAgree, Allocated
  <2>2. \A e \in timers_' : <<e[2], heap[e[2]].sequence>> \in active_timers_'
    BY <1>1, <1>2, <1>3 DEF IndexesAgree
  <2>3. \A x \in active_timers_' : \E e \in timers_' : x = <<e[2], heap[e[2]].sequence>>
    BY <1>1 DEF IndexesAgree
  <2>4. active_timers_' = {<<e[2], heap'[e[2]].sequence>> : e \in timers_'}
    BY SMTT(30), <1>1, <2>2, <2>3
  <2> QED  BY <2>1, <2>4 DEF IndexesAgree
<1>7. FinalInv'
  <2>1. \A a \in Addrs : HasAdd(pending', a) => heap'[a].sequence \notin cancelled' \cup ran'
    BY <1>1, InFunctors DEF FinalInv
  <2>2. \A e \in expired' : heap'[e[2]].sequence \notin cancelled'
    BY <1>1, <1>2 DEF CancelIsFinal
  <2> QED  BY <2>1, <2>2, InFunctors DEF FinalInv
<1>8. SequenceInv' /\ CancelIsFinal' /\ OnlyCancelDrops'
  BY <1>1 DEF SequenceInv, CancelIsFinal, OnlyCancelDrops, Allocated
<1>9. TypeInv'
  BY <1>1, <1>2 DEF TypeInv
<1>10. BatchInv'
  BY <1>1, <1>2 DEF BatchInv, IndexesAgree
<1>11. InvalidArmed' /\ EarliestIsArmed'
  <2>1. \A e \in timers_' : e[1] # 0
    BY SMTT(30), <1>1, <1>2 DEF TypeInv
  <2> QED  BY <1>1, <2>1 DEF InvalidArmed, EarliestIsArmed
<1> QED  BY <1>5, <1>6, <1>7, <1>8, <1>9, <1>10, <1>11

\* A callback runs: its timer has run, and it is in no index.
LEMMA RunTimerKeeps == IInv /\ RunTimer => IInv'
<1> SUFFICES ASSUME IInv, RunTimer
             PROVE  IInv'
  OBVIOUS
<1> USE DEF IInv
<1>1. PICK d \in to_run : to_run' = to_run \ {d} /\ ran' = ran \cup {heap[d[2]].sequence}
  BY DEF RunTimer
<1>2. UNCHANGED <<heap, s_num_created_, indexes, canceling_timers_, calling_expired_timers_,
                  expired, now, timerfd_, active, pending, adding, ids, clock, cancelled, jumps>>
  BY DEF RunTimer
<1> DEFINE a == d[2]
           s == heap[a].sequence
<1>3. a \in Addrs /\ s \in Nat /\ s <= s_num_created_ /\ InBatch(a) /\ Allocated(a)
  BY Typed, InFunctors DEF InBatch, SequenceInv, BatchInv
<1>4. ran' = ran \cup {s}
  BY <1>1
<1> HIDE DEF a, s
<1>5. \A b \in Addrs : b # a => heap[b].sequence # s
  BY <1>3 DEF SequenceInv, s
<1>6. ~InTimers(a) /\ ~HasAdd(pending, a)
  BY <1>3, InFunctors
<1>7. FinalInv'
  <2>1. \A b \in Addrs : HasAdd(pending', b) => heap'[b].sequence \notin cancelled' \cup ran'
    BY <1>2, <1>4, <1>5, <1>6, InFunctors DEF FinalInv
  <2>2. \A e \in expired' : heap'[e[2]].sequence \in cancelled'
                             => <<e[2], heap'[e[2]].sequence>> \in canceling_timers_'
    BY <1>2 DEF FinalInv
  <2> QED  BY <2>1, <2>2, InFunctors DEF FinalInv
<1>8. CancelIsFinal'
  BY <1>2, <1>4, <1>5, <1>6, Typed DEF CancelIsFinal, InTimers, indexes
<1>9. SequenceInv' /\ OnlyCancelDrops'
  BY <1>2, <1>3, <1>4 DEF SequenceInv, OnlyCancelDrops, Allocated
<1>10. IndexesAgree' /\ OwnedOnce'
  BY SMTT(30), <1>2, InFunctors DEF IndexesAgree, Allocated, InTimers, InBatch, indexes
<1>11. TypeInv' /\ InvalidArmed' /\ EarliestIsArmed'
  BY <1>2 DEF TypeInv, InvalidArmed, EarliestIsArmed, indexes
<1>12. BatchInv'
  BY <1>1, <1>2 DEF BatchInv
<1> QED  BY <1>7, <1>8, <1>9, <1>10, <1>11, <1>12

\* The end of Reset() arms the timerfd for the earliest timer that is left.
LEMMA Rearmed ==
  ASSUME IInv, RearmTimerfd, timers_' \subseteq Nat \X Addrs, timers_' # {}, calling_expired_timers_,
         \A e \in timers_' : e[1] = 0 => e \in timers_
  PROVE  /\ timerfd_' \in [left : Nat, readable : BOOLEAN]
         /\ \/ timerfd_'.readable
            \/ /\ timerfd_'.left > 0
               /\ \A e \in timers_' : timerfd_'.left <= 1 \/ timerfd_'.left <= e[1] - clock
<1> USE DEF IInv
<1>1. PICK next_expire \in Expirations(timers_') :
        /\ IsMin(next_expire, Expirations(timers_'))
        /\ IF next_expire > 0 THEN ResetTimerfd(next_expire) ELSE UNCHANGED timerfd_
  BY DEF RearmTimerfd
<1>2. next_expire \in Nat /\ \A e \in timers_' : e[1] \in Nat /\ next_expire <= e[1]
  BY <1>1 DEF Expirations, IsMin
<1>3. PICK d \in timers_' : d[1] = next_expire
  BY DEF Expirations
<1>4. timerfd_ \in [left : Nat, readable : BOOLEAN] /\ clock \in Nat \ {0}
  BY DEF TypeInv
<1>5. CASE next_expire > 0
  <2>1. timerfd_' = [left |-> IF next_expire - clock < 1 THEN 1 ELSE next_expire - clock,
                     readable |-> FALSE]
    BY <1>1, <1>5 DEF ResetTimerfd
  <2> QED  BY SMTT(30), <2>1, <1>2, <1>4
<1>6. CASE ~(next_expire > 0)
  <2>1. timerfd_' = timerfd_ /\ next_expire = 0
    BY SMTT(30), <1>1, <1>2, <1>6
  <2>2. timerfd_.readable \/ timerfd_.left = 1
    BY <2>1, <1>3 DEF InvalidArmed
  <2> QED  BY SMTT(30), <2>1, <2>2, <1>4
<1> QED  BY <1>5, <1>6
\* What Reset() makes of the heap: a timer of the batch is restarted, or deleted;
\* the others stay.
LEMMA ResetTimers ==
  ASSUME IInv, heap' = ResetHeap
  PROVE  /\ heap' \in [Addrs -> Timer]
         /\ \A a \in Addrs : ~InBatch(a) => heap'[a] = heap[a]
         /\ \A e \in expired : Restarts(e) =>
              /\ heap'[e[2]].sequence = heap[e[2]].sequence /\ heap'[e[2]].interval = heap[e[2]].interval
              /\ heap'[e[2]].expiration = now + heap[e[2]].interval
              /\ heap[e[2]].interval > 0
         /\ \A e \in expired : ~Restarts(e) => heap'[e[2]].sequence = 0
<1> USE DEF IInv
<1>1. heap \in [Addrs -> Timer] /\ now \in Nat
  BY DEF TypeInv
<1>2. \A a \in Addrs : Restart(heap[a]) = [sequence |-> heap[a].sequence,
        expiration |-> now + heap[a].interval, interval |-> heap[a].interval]
  BY SMTT(30), <1>1 DEF Restart, Timer
<1>3. \A a \in Addrs : Restart(heap[a]) \in Timer
  BY SMTT(30), <1>1, <1>2, Typed DEF Timer
<1>4. NoTimer \in Timer /\ NoTimer.sequence = 0
  BY DEF NoTimer, Timer
<1>5. \A a \in Addrs : heap'[a] = IF \E e \in expired : e[2] = a /\ Restarts(e)
                                  THEN Restart(heap[a])
                                  ELSE IF \E e \in expired : e[2] = a THEN NoTimer ELSE heap[a]
  BY DEF ResetHeap
<1>6. heap' \in [Addrs -> Timer]
  <2>1. \A a \in Addrs : heap'[a] \in Timer
    BY SMTT(30), <1>1, <1>3, <1>4, <1>5
  <2>2. heap' = [a \in Addrs |-> heap'[a]]
    BY DEF ResetHeap
  <2> QED  BY <2>1, <2>2
<1>7. \A a \in Addrs : ~InBatch(a) => heap'[a] = heap[a]
  BY <1>5 DEF InBatch
<1>8. \A d, e \in expired : d[2] = e[2] => d = e
  BY SMTT(30), Typed DEF BatchInv
<1>9. \A e \in expired : e[2] \in Addrs
  BY Typed
<1>10. \A e \in expired : Restarts(e) => heap'[e[2]] = Restart(heap[e[2]]) /\ heap[e[2]].interval > 0
  BY <1>5, <1>9 DEF Restarts
<1>11. \A e \in expired : ~Restarts(e) => heap'[e[2]] = NoTimer
  BY <1>5, <1>8, <1>9
<1>12. \A e \in expired : Restarts(e) =>
              /\ heap'[e[2]].sequence = heap[e[2]].sequence /\ heap'[e[2]].interval = heap[e[2]].interval
              /\ heap'[e[2]].expiration = now + heap[e[2]].interval
              /\ heap[e[2]].interval > 0
  <2>1. ASSUME NEW a \in Addrs
        PROVE  /\ Restart(heap[a]).sequence = heap[a].sequence
               /\ Restart(heap[a]).interval = heap[a].interval
               /\ Restart(heap[a]).expiration = now + heap[a].interval
    BY <1>1 DEF Restart, Timer
  <2> QED  BY <2>1, <1>9, <1>10
<1> QED  BY <1>4, <1>6, <1>7, <1>11, <1>12

\* Reset(): a timer of the batch goes back to the indexes or is deleted, and it
\* goes back only if nobody has cancelled it.
LEMMA ResetKeeps == IInv /\ Reset => IInv'
<1> SUFFICES ASSUME IInv, Reset
             PROVE  IInv'
  OBVIOUS
<1> USE DEF IInv
<1> DEFINE R == {x \in expired : Restarts(x)}
           entry(e) == <<Restart(heap[e[2]]).expiration, e[2]>>
<1>1. /\ calling_expired_timers_ /\ to_run = {} /\ calling_expired_timers_' = FALSE
      /\ heap' = ResetHeap /\ RearmTimerfd /\ expired' = {} /\ now' = 0
      /\ timers_' = timers_ \cup {entry(e) : e \in R}
      /\ active_timers_' = active_timers_ \cup {<<e[2], heap[e[2]].sequence>> : e \in R}
      /\ UNCHANGED <<s_num_created_, canceling_timers_, to_run, active, pending, adding, ids,
                     clock, ran, cancelled, jumps>>
  BY DEF Reset
<1>2. /\ heap' \in [Addrs -> Timer]
      /\ \A a \in Addrs : ~InBatch(a) => heap'[a] = heap[a]
      /\ \A e \in expired : Restarts(e) =>
           /\ heap'[e[2]].sequence = heap[e[2]].sequence /\ heap'[e[2]].interval = heap[e[2]].interval
           /\ heap'[e[2]].expiration = now + heap[e[2]].interval
           /\ heap[e[2]].interval > 0
      /\ \A e \in expired : ~Restarts(e) => heap'[e[2]].sequence = 0
  BY <1>1, ResetTimers
<1>3. \A e \in R : entry(e) = <<heap'[e[2]].expiration, e[2]>>
  <2>1. \A e \in R : Restart(heap[e[2]]).expiration = now + heap[e[2]].interval
    BY Typed DEF Restart, TypeInv, Timer
  <2> QED  BY <2>1, <1>2
<1>4. /\ R \subseteq expired /\ \A e \in R : e[2] \in Addrs /\ InBatch(e[2]) /\ Restarts(e)
      /\ \A e \in expired : e[2] \in Addrs /\ InBatch(e[2]) /\ (e \in R <=> Restarts(e))
  BY Typed DEF InBatch
<1> HIDE DEF R, entry
<1>5. \A e \in timers_ : e[2] \in Addrs /\ e = <<e[1], e[2]>> /\ heap'[e[2]] = heap[e[2]]
  BY <1>2, Typed DEF InTimers, OwnedOnce
<1>6. \A e \in timers_' : \/ e \in timers_
                          \/ \E d \in R : e = <<heap'[d[2]].expiration, d[2]>>
  BY <1>1, <1>3
<1>7. timers_ \subseteq timers_' /\ \A d \in R : <<heap'[d[2]].expiration, d[2]>> \in timers_'
  BY <1>1, <1>3
<1>8. timers_' \subseteq Nat \X Addrs
  BY SMTT(30), <1>2, <1>4, <1>6 DEF TypeInv, Timer
<1>9. IndexesAgree'
  <2>1. \A e \in timers_' : Allocated(e[2])' /\ heap'[e[2]].expiration = e[1]
    <3> SUFFICES ASSUME NEW e \in timers_'
                 PROVE  heap'[e[2]].sequence # 0 /\ heap'[e[2]].expiration = e[1]
      BY DEF Allocated
    <3>1. CASE e \in timers_
      BY <3>1, <1>5 DEF IndexesAgree, Allocated
    <3>2. CASE e \notin timers_
      <4>1. PICK d \in R : e = <<heap'[d[2]].expiration, d[2]>>
        BY <3>2, <1>6
      <4>2. heap[d[2]].sequence # 0
        BY <1>4 DEF OwnedOnce, Allocated
      <4> QED  BY <4>1, <4>2, <1>2, <1>4
    <3> QED  BY <3>1, <3>2
  <2>2. \A e \in timers_' : <<e[2], heap'[e[2]].sequence>> \in active_timers_'
    <3> SUFFICES ASSUME NEW e \in timers_'
                 PROVE  <<e[2], heap'[e[2]].sequence>> \in active_timers_'
      OBVIOUS
    <3>1. CASE e \in timers_
      BY <3>1, <1>1, <1>5 DEF IndexesAgree
    <3>2. CASE e \notin timers_
      <4>1. PICK d \in R : e = <<heap'[d[2]].expiration, d[2]>>
        BY <3>2, <1>6
      <4> QED  BY <4>1, <1>1, <1>2, <1>4
    <3> QED  BY <3>1, <3>2
  <2>3. \A x \in active_timers_' : \E e \in timers_' : x = <<e[2], heap'[e[2]].sequence>>
    <3> SUFFICES ASSUME NEW x \in active_timers_'
                 PROVE  \E e \in timers_' : x = <<e[2], heap'[e[2]].sequence>>
      OBVIOUS
    <3>1. CASE x \in active_timers_
      BY <3>1, <1>5, <1>7 DEF IndexesAgree
    <3>2. CASE x \notin active_timers_
      <4>1. PICK d \in R : x = <<d[2], heap[d[2]].sequence>>
        BY <3>2, <1>1
      <4>2. x = <<d[2], heap'[d[2]].sequence>>
        BY <4>1, <1>2, <1>4
      <4>3. <<heap'[d[2]].expiration, d[2]>> \in timers_' /\ <<heap'[d[2]].expiration, d[2]>>[2] = d[2]
        BY <1>7
      <4> QED  BY <4>2, <4>3
    <3> QED  BY <3>1, <3>2
  <2>4. active_timers_' = {<<e[2], heap'[e[2]].sequence>> : e \in timers_'}
    BY <2>2, <2>3
  <2> QED  BY <2>1, <2>4 DEF IndexesAgree
<1>10. \A a \in Addrs : InTimers(a)' <=> InTimers(a) \/ \E d \in R : d[2] = a
  <2>1. ASSUME NEW a \in Addrs, NEW d \in R, d[2] = a
        PROVE  InTimers(a)'
    <3>1. <<heap'[a].expiration, a>> \in timers_' /\ <<heap'[a].expiration, a>>[2] = a
      BY <2>1, <1>7
    <3> QED  BY <3>1 DEF InTimers
  <2>2. \A a \in Addrs : InTimers(a) => InTimers(a)'
    BY <1>7 DEF InTimers
  <2>3. \A a \in Addrs : InTimers(a)' => InTimers(a) \/ \E d \in R : d[2] = a
    BY SMTT(30), <1>6 DEF InTimers
  <2> QED  BY <2>1, <2>2, <2>3
<1>11. OwnedOnce'
  <2>1. \A a \in Addrs : ~InBatch(a)'
    BY <1>1 DEF InBatch
  <2>2. \A a \in Addrs : InBatch(a) => (Allocated(a)' <=> \E d \in R : d[2] = a)
    <3> SUFFICES ASSUME NEW a \in Addrs, InBatch(a)
                 PROVE  heap'[a].sequence # 0 <=> \E d \in R : d[2] = a
      BY DEF Allocated
    <3>1. PICK e \in expired : e[2] = a
      BY DEF InBatch
    <3>2. heap[a].sequence # 0
      BY DEF OwnedOnce, Allocated
    <3>3. \A d \in R : d[2] = a => heap'[a].sequence # 0
      BY <3>2, <1>2, <1>4
    <3>4. heap'[a].sequence # 0 => Restarts(e)
      BY <3>1, <1>2
    <3> QED  BY <3>1, <3>3, <3>4, <1>4
  <2>3. \A a \in Addrs : ~InBatch(a) => (Allocated(a)' <=> Allocated(a))
    BY <1>2 DEF Allocated
  <2>4. \A a \in Addrs : (\E d \in R : d[2] = a) => InBatch(a)
    BY <1>4
  <2>5. pending' = pending
    BY <1>1
  <2> QED  BY <2>1, <2>2, <2>3, <2>4, <2>5, <1>10, InFunctors
<1>12. CancelIsFinal'
  <2> SUFFICES ASSUME NEW e \in timers_'
               PROVE  /\ heap'[e[2]].sequence \notin cancelled
                      /\ heap'[e[2]].interval = 0 => heap'[e[2]].sequence \notin ran
    BY <1>1 DEF CancelIsFinal
  <2>1. CASE e \in timers_
    BY <2>1, <1>5 DEF CancelIsFinal
  <2>2. CASE e \notin timers_
    <3>1. PICK d \in R : e = <<heap'[d[2]].expiration, d[2]>>
      BY <2>2, <1>6
    <3>2. heap[d[2]].sequence \notin cancelled
      BY <1>4 DEF FinalInv, Restarts
    <3>3. heap'[d[2]].interval # 0
      BY SMTT(30), <1>2, <1>4, Typed
    <3> QED  BY <3>1, <3>2, <3>3, <1>2, <1>4
  <2> QED  BY <2>1, <2>2
<1>13. FinalInv'
  <2>1. \A a \in Addrs : HasAdd(pending', a) => heap'[a].sequence \notin cancelled' \cup ran'
    BY <1>1, <1>2, InFunctors DEF FinalInv
  <2> QED  BY <2>1, <1>1, InFunctors DEF FinalInv
<1>14. \A a \in Addrs : \/ heap'[a].sequence = heap[a].sequence
                        \/ heap'[a].sequence = 0 /\ heap[a].sequence \in ran
  <2>1. \A a \in Addrs : InBatch(a) => heap'[a].sequence = 0 \/ heap'[a].sequence = heap[a].sequence
    BY <1>2 DEF InBatch
  <2>2. \A a \in Addrs : InBatch(a) => heap[a].sequence \in ran
    BY <1>1 DEF InBatch, BatchInv
  <2> QED  BY <2>1, <2>2, <1>2
<1>15. OnlyCancelDrops'
  BY <1>1, <1>14 DEF OnlyCancelDrops
<1>16. SequenceInv'
  <2>1. \A a \in Addrs : heap'[a].sequence <= s_num_created_'
    BY SMTT(30), <1>1, <1>14 DEF SequenceInv, TypeInv
  <2>2. \A a, b \in Addrs : Allocated(a)' /\ heap'[a].sequence = heap'[b].sequence => a = b
    BY <1>14 DEF SequenceInv, Allocated
  <2>3. \A s \in ran' \cup cancelled' : s \in Nat /\ s <= s_num_created_'
    BY <1>1 DEF SequenceInv
  <2> QED  BY <2>1, <2>2, <2>3 DEF SequenceInv
<1>17. BatchInv' /\ InvalidArmed'
  BY <1>1 DEF BatchInv, InvalidArmed
<1>18. \A e \in timers_' : e[1] = 0 => e \in timers_
  <2> SUFFICES ASSUME NEW e \in timers_', e \notin timers_
               PROVE  e[1] # 0
    OBVIOUS
  <2>1. PICK d \in R : e = <<heap'[d[2]].expiration, d[2]>>
    BY <1>6
  <2>2. heap'[d[2]].expiration = now + heap[d[2]].interval /\ heap[d[2]].interval > 0
    BY <1>2, <1>4
  <2>3. now \in Nat /\ heap[d[2]].interval \in Nat
    BY <1>4, Typed DEF TypeInv
  <2> QED  BY SMTT(30), <2>1, <2>2, <2>3
<1>19. EarliestIsArmed'
  <2>1. CASE timers_' = {}
    BY <2>1 DEF EarliestIsArmed
  <2>2. CASE timers_' # {}
    BY <2>2, <1>1, <1>8, <1>18, Rearmed DEF EarliestIsArmed
  <2> QED  BY <2>1, <2>2
<1>20. TypeInv'
  <2>1. timerfd_' \in [left : Nat, readable : BOOLEAN]
    <3>1. CASE timers_' = {}
      BY <3>1, <1>1 DEF RearmTimerfd, Expirations, TypeInv
    <3>2. CASE timers_' # {}
      BY <3>2, <1>1, <1>8, <1>18, Rearmed
    <3> QED  BY <3>1, <3>2
  <2> QED  BY <1>1, <1>2, <1>8, <2>1 DEF TypeInv
<1> QED  BY <1>9, <1>11, <1>12, <1>13, <1>15, <1>16, <1>17, <1>19, <1>20

------------------------------------------------------------------------------
(* Theorems.                                                                 *)

\* A TimerQueue as its constructor leaves it.
LEMMA InitEstablishes == Init => IInv
<1> SUFFICES ASSUME Init
             PROVE  IInv
  OBVIOUS
<1>1. TypeInv
  BY SMTT(30) DEF Init, TypeInv, Timer, NoTimer
<1>2. SequenceInv /\ BatchInv /\ IndexesAgree /\ OwnedOnce /\ FinalInv
  BY SMTT(30) DEF Init, SequenceInv, BatchInv, IndexesAgree, OwnedOnce, FinalInv, Allocated, NoTimer,
         InTimers, InBatch, InFunctor
<1>3. CancelIsFinal /\ OnlyCancelDrops /\ InvalidArmed /\ EarliestIsArmed
  BY SMTT(30) DEF Init, CancelIsFinal, OnlyCancelDrops, InvalidArmed, EarliestIsArmed
<1> QED  BY <1>1, <1>2, <1>3 DEF IInv

\* Every step of the loop, of another thread and of time keeps the invariant.
LEMMA NextKeeps == IInv /\ [Next]_vars => IInv'
<1> SUFFICES ASSUME IInv, [Next]_vars
             PROVE  IInv'
  OBVIOUS
<1>1. CASE LoopStep
  BY <1>1, RunAddKeeps, RunCancelKeeps, PollTimerfdKeeps, HandleReadKeeps, RunTimerKeeps, ResetKeeps
     DEF LoopStep
<1>2. CASE Tick \/ SetClock
  BY <1>2, TickKeeps, SetClockKeeps
<1>3. ASSUME NEW a \in Addrs, NEW when \in 0..MaxTime, NEW interval \in Intervals,
             AddTimer(a, when, interval) \/ \E t \in Threads : AddTimerFrom(t, a, when, interval)
      PROVE  IInv'
  BY <1>3, AddTimerKeeps, AddTimerFromKeeps
<1>4. ASSUME NEW t \in Threads, AddTimerReturns(t)
      PROVE  IInv'
  BY <1>4, AddTimerReturnsKeeps
<1>5. ASSUME NEW id \in ids, Cancel(id) \/ \E t \in Threads : CancelFrom(t, id)
      PROVE  IInv'
  BY <1>5, CancelKeeps, CancelFromKeeps
<1>6. CASE UNCHANGED vars
  <2>1. UNCHANGED held
    BY <1>6 DEF vars, held, indexes, batch
  <2>2. OwnInv'
    BY <2>1, HeldKeeps DEF IInv, OwnInv
  <2>3. TypeInv' /\ BatchInv' /\ InvalidArmed' /\ EarliestIsArmed'
    BY <1>6 DEF IInv, TypeInv, BatchInv, InvalidArmed, EarliestIsArmed, vars, indexes, batch
  <2> QED  BY <2>2, <2>3 DEF IInv, OwnInv
<1> QED  BY <1>1, <1>2, <1>3, <1>4, <1>5, <1>6 DEF Next

\* The invariants hold together, in every reachable state.
LEMMA Invariance == Spec => []IInv
BY InitEstablishes, NextKeeps, PTL DEF Spec

\* timers_ and active_timers_ hold the same timers, each filed under its own
\* expiration and sequence (the asserts of Insert(), GetExpired() and
\* CancelInLoop()), for any threads, addresses, intervals and bounds.
THEOREM IndexesAlwaysAgree == Spec => []IndexesAgree
<1>1. IInv => IndexesAgree
  BY DEF IInv
<1> QED  BY <1>1, Invariance, PTL

\* Every Timer has one owner who deletes it, an index, the batch or a functor,
\* although AddTimer(), CancelInLoop() and Reset() pass raw pointers around.
THEOREM TimersOwnedOnce == Spec => []OwnedOnce
<1>1. IInv => OwnedOnce
  BY DEF IInv
<1> QED  BY <1>1, Invariance, PTL

\* Outside HandleRead() the timerfd is armed, in time for the earliest timer
\* unless the wall clock was set (AddTimerInLoop(), Reset()).
THEOREM TimerfdArmed == Spec => []EarliestIsArmed
<1>1. IInv => EarliestIsArmed
  BY DEF IInv
<1> QED  BY <1>1, Invariance, PTL

\* A timer that was cancelled, also by its own callback, is never filed again,
\* nor is one without interval that has run (CancelInLoop(), Reset()).
THEOREM CancelsAreFinal == Spec => []CancelIsFinal
<1>1. IInv => CancelIsFinal
  BY DEF IInv
<1> QED  BY <1>1, Invariance, PTL

\* A timer goes only by running or by a Cancel() of its own id, whatever stale
\* ids are cancelled (CancelInLoop()).
THEOREM OnlyCancelsDrop == Spec => []OnlyCancelDrops
<1>1. IInv => OnlyCancelDrops
  BY DEF IInv
<1> QED  BY <1>1, Invariance, PTL
=============================================================================
