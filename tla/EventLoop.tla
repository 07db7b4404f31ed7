------------------------------ MODULE EventLoop ------------------------------
(***************************************************************************)
(* net/event_loop.cpp: the reactor's loop and the calls that other threads *)
(* make on it.  One thread, LoopThread, runs Loop(); every thread may call *)
(* RunInLoop(), QueueInLoop() and Quit().  Work crosses threads through    *)
(* pending_functors_ (guarded by mutex_) and through wakeup_fd_, an        *)
(* eventfd whose counter makes the loop return from Poll().                *)
(*                                                                         *)
(* A functor is a number, given in the order of hand-in.  User code (the   *)
(* handlers of the I/O channels, the functors, whatever LoopThread does    *)
(* outside Loop()) may make any sequence of calls before it returns.  The  *)
(* kernel's answer to Poll() is any set of ready I/O channels, and         *)
(* wakeup_channel_ exactly when the eventfd's counter is positive.         *)
(***************************************************************************)
EXTENDS Naturals, Sequences

CONSTANTS LoopThread,     \* the thread that constructed the loop
          Threads,        \* the other threads that hold a pointer to the loop
          WakeupChannel,  \* wakeup_channel_
          Channels,       \* the other channels registered with the loop
          MaxFunctors,    \* bound: callbacks handed in
          MaxQuits        \* bound: calls of Quit()

ASSUME ThreadsAssumption == LoopThread \notin Threads
ASSUME ChannelsAssumption == WakeupChannel \notin Channels
ASSUME BoundsAssumption == MaxFunctors \in Nat /\ MaxQuits \in Nat

VARIABLES
  pc,                         \* where LoopThread is
  looping_, quit_, event_handling_, calling_pending_functors_,
  wakeup_fd_,                 \* the eventfd's counter
  active_channels_,           \* returned by Poll() and not yet handled
  pending_functors_,          \* queued, guarded by mutex_
  functors,                   \* DoPendingFunctors()'s local vector, still to run
  call,                       \* per thread: the call it is in the middle of
  issued, ran, early, quits   \* history: callbacks handed in, callbacks run,
                              \* those queued by LoopThread outside Loop(),
                              \* calls of Quit()

flags == <<looping_, quit_, event_handling_, calling_pending_functors_>>
queues == <<pending_functors_, functors>>
history == <<issued, ran, early, quits>>
vars == <<pc, flags, wakeup_fd_, active_channels_, queues, call, history>>

Callers == Threads \cup {LoopThread}

Init ==
  /\ pc = "outside"
  /\ looping_ = FALSE
  /\ quit_ = FALSE
  /\ event_handling_ = FALSE
  /\ calling_pending_functors_ = FALSE
  /\ wakeup_fd_ = 0
  /\ active_channels_ = {}
  /\ pending_functors_ = <<>>
  /\ functors = <<>>
  /\ call = [t \in Callers |-> "none"]
  /\ issued = 0 /\ ran = <<>> /\ early = {} /\ quits = 0

IsInLoopThread(t) == t = LoopThread

------------------------------------------------------------------------------
(* Calls on the loop.  A call by another thread takes two steps: the change *)
(* other threads see first, then the decision to wake the loop up.          *)

\* The thread runs user code and is not inside a call.
InUserCode(t) ==
  /\ call[t] = "none"
  /\ IsInLoopThread(t) => pc \in {"outside", "handler", "functor"}

\* QueueInLoop() up to the end of the block that holds mutex_.
QueueInLoop(t) ==
  /\ InUserCode(t)
  /\ issued < MaxFunctors
  /\ issued' = issued + 1
  /\ pending_functors_' = Append(pending_functors_, issued + 1)
  /\ call' = [call EXCEPT ![t] = "queued"]
  /\ early' = IF IsInLoopThread(t) /\ pc = "outside"
              THEN early \cup {issued + 1} ELSE early
  /\ UNCHANGED <<pc, flags, wakeup_fd_, active_channels_, functors, ran, quits>>

\* The callback is called on the spot: it is user code of the same thread.
CallDirectly(t) ==
  /\ InUserCode(t)
  /\ issued < MaxFunctors
  /\ issued' = issued + 1
  /\ ran' = Append(ran, issued + 1)
  /\ UNCHANGED <<pc, flags, wakeup_fd_, active_channels_, queues, call, early, quits>>

RunInLoop(t) ==
  \/ IsInLoopThread(t) /\ CallDirectly(t)
  \/ ~IsInLoopThread(t) /\ QueueInLoop(t)

QuitSilently(t) == "none"

\* What Quit() has left to do: on another thread, to wake the loop up.
AfterQuit(t) == IF IsInLoopThread(t) THEN "none" ELSE "quit"

\* Quit() up to its test of the calling thread.
Quit(t) ==
  /\ InUserCode(t)
  /\ quits < MaxQuits
  /\ quits' = quits + 1
  /\ quit_' = TRUE
  /\ call' = [call EXCEPT ![t] = AfterQuit(t)]
  /\ UNCHANGED <<pc, looping_, event_handling_, calling_pending_functors_, wakeup_fd_,
                 active_channels_, queues, issued, ran, early>>

MustWakeupOnlyOthers(t) == ~IsInLoopThread(t)

MustWakeupOnlyInBatch(t) == calling_pending_functors_

\* The condition on which QueueInLoop() calls Wakeup().
MustWakeup(t) == ~IsInLoopThread(t) \/ calling_pending_functors_

\* Wakeup(): the write adds one to the eventfd's counter.
Wakeup == wakeup_fd_' = wakeup_fd_ + 1

\* The end of QueueInLoop() and of Quit().
FinishCall(t) ==
  /\ call[t] # "none"
  /\ call' = [call EXCEPT ![t] = "none"]
  /\ IF call[t] = "quit" \/ MustWakeup(t) THEN Wakeup ELSE UNCHANGED wakeup_fd_
  /\ UNCHANGED <<pc, flags, active_channels_, queues, history>>

------------------------------------------------------------------------------
(* The loop thread. *)

\* Loop() up to its while statement.
EnterLoop ==
  /\ pc = "outside"
  /\ call[LoopThread] = "none"
  /\ looping_' = TRUE
  /\ quit_' = FALSE
  /\ pc' = "while"
  /\ UNCHANGED <<event_handling_, calling_pending_functors_, wakeup_fd_,
                 active_channels_, queues, call, history>>

\* The test of the while statement, and Loop()'s return when it fails.
TestQuit ==
  /\ pc = "while"
  /\ IF quit_
     THEN pc' = "outside" /\ looping_' = FALSE
     ELSE pc' = "poll" /\ UNCHANGED looping_
  /\ active_channels_' = {}
  /\ UNCHANGED <<quit_, event_handling_, calling_pending_functors_, wakeup_fd_,
                 queues, call, history>>

\* Poll() returns: the eventfd is level-triggered.
Poll ==
  /\ pc = "poll"
  /\ \E ready \in SUBSET Channels :
       active_channels_' = ready \cup (IF wakeup_fd_ > 0 THEN {WakeupChannel} ELSE {})
  /\ event_handling_' = TRUE
  /\ pc' = "dispatch"
  /\ UNCHANGED <<looping_, quit_, calling_pending_functors_, wakeup_fd_, queues, call, history>>

\* EventLoop::HandleRead(): the read resets the eventfd's counter.
HandleRead ==
  /\ wakeup_fd_' = 0
  /\ pc' = "dispatch"

\* HandleEvent() of one active channel; the poller reports them in any order.
HandleEvent(c) ==
  /\ pc = "dispatch"
  /\ c \in active_channels_
  /\ active_channels_' = active_channels_ \ {c}
  /\ IF c = WakeupChannel THEN HandleRead ELSE pc' = "handler" /\ UNCHANGED wakeup_fd_
  /\ UNCHANGED <<flags, queues, call, history>>

HandlerReturns ==
  /\ pc = "handler"
  /\ call[LoopThread] = "none"
  /\ pc' = "dispatch"
  /\ UNCHANGED <<flags, wakeup_fd_, active_channels_, queues, call, history>>

EndOfDispatch ==
  /\ pc = "dispatch"
  /\ active_channels_ = {}
  /\ event_handling_' = FALSE
  /\ pc' = "pending"
  /\ UNCHANGED <<looping_, quit_, calling_pending_functors_, wakeup_fd_,
                 active_channels_, queues, call, history>>

CopyFunctors == functors' = pending_functors_ /\ UNCHANGED pending_functors_

\* The block of DoPendingFunctors() that holds mutex_.
SwapFunctors == functors' = pending_functors_ /\ pending_functors_' = <<>>

\* DoPendingFunctors() up to the end of that block.
DoPendingFunctors ==
  /\ pc = "pending"
  /\ calling_pending_functors_' = TRUE
  /\ SwapFunctors
  /\ pc' = "functors"
  /\ UNCHANGED <<looping_, quit_, event_handling_, wakeup_fd_, active_channels_, call, history>>

RunFunctor ==
  /\ pc = "functors"
  /\ functors # <<>>
  /\ ran' = Append(ran, Head(functors))
  /\ functors' = Tail(functors)
  /\ pc' = "functor"
  /\ UNCHANGED <<flags, wakeup_fd_, active_channels_, pending_functors_, call, issued, early, quits>>

FunctorReturns ==
  /\ pc = "functor"
  /\ call[LoopThread] = "none"
  /\ pc' = "functors"
  /\ UNCHANGED <<flags, wakeup_fd_, active_channels_, queues, call, history>>

EndOfFunctors ==
  /\ pc = "functors"
  /\ functors = <<>>
  /\ calling_pending_functors_' = FALSE
  /\ pc' = "while"
  /\ UNCHANGED <<looping_, quit_, event_handling_, wakeup_fd_, active_channels_,
                 queues, call, history>>

LoopStep ==
  \/ TestQuit \/ HandlerReturns \/ EndOfDispatch
  \/ DoPendingFunctors \/ RunFunctor \/ FunctorReturns \/ EndOfFunctors
  \/ \E c \in Channels \cup {WakeupChannel} : HandleEvent(c)

Next ==
  \/ EnterLoop \/ Poll \/ LoopStep
  \/ \E t \in Callers : QueueInLoop(t) \/ RunInLoop(t) \/ Quit(t) \/ FinishCall(t)

\* The loop thread is scheduled and user code returns; a call under way is
\* finished; Poll() returns when the eventfd is readable.  Nothing is assumed
\* of the I/O channels, of the timeout of Poll() or of who makes which call.
Fairness ==
  /\ WF_vars(LoopStep)
  /\ WF_vars(Poll /\ wakeup_fd_ > 0)
  /\ \A t \in Callers : WF_vars(FinishCall(t))

Spec == Init /\ [][Next]_vars

FairSpec == Spec /\ Fairness
------------------------------------------------------------------------------
(* Properties. *)

PCs == {"outside", "while", "poll", "dispatch", "handler", "pending", "functors", "functor"}

\* Every variable has its type, and each flag of the loop says where the loop
\* thread is: looping_ inside Loop(), event_handling_ while channels are
\* handled, calling_pending_functors_ from the swap to the end of the batch.
TypeOK ==
  /\ pc \in PCs
  /\ looping_ \in BOOLEAN /\ quit_ \in BOOLEAN
  /\ event_handling_ \in BOOLEAN /\ calling_pending_functors_ \in BOOLEAN
  /\ looping_ <=> pc # "outside"
  /\ event_handling_ <=> pc \in {"dispatch", "handler"}
  /\ calling_pending_functors_ <=> pc \in {"functors", "functor"}
  /\ wakeup_fd_ \in Nat
  /\ active_channels_ \subseteq Channels \cup {WakeupChannel}
  /\ pending_functors_ \in Seq(Nat)
  /\ functors \in Seq(Nat)
  /\ call \in [Callers -> {"none", "queued", "quit"}]
  /\ issued \in Nat /\ quits \in Nat
  /\ ran \in Seq(Nat)
  /\ early \subseteq Nat

\* A queued functor whose queuing had to make itself noticed.
Unnoticed == \E i \in 1..Len(pending_functors_) : pending_functors_[i] \notin early

\* No lost wakeup (QueueInLoop() and Wakeup() against Poll(), HandleRead() and
\* the swap in DoPendingFunctors()): the loop never waits in Poll() on a silent
\* eventfd while a functor is queued, unless the thread that queued it is
\* about to write to the eventfd.  Functors that the loop's own thread queues
\* outside Loop() are left out: QueueInLoop() wakes nobody up for them, and
\* they wait for the first event or for the timeout of Poll().
NoLostWakeup ==
  pc = "poll" /\ Unnoticed
    => wakeup_fd_ > 0 \/ \E t \in Threads : call[t] = "queued"

\* No lost Quit() (Quit() against Poll() and HandleRead()): the loop never
\* waits in Poll() on a silent eventfd with quit_ set, unless the thread that
\* set it is about to write to the eventfd.
NoLostQuit ==
  pc = "poll" /\ quit_
    => wakeup_fd_ > 0 \/ \E t \in Threads : call[t] = "quit"

\* The loop implements TaskQueue: across the lock, the swap and the batch each
\* queued functor runs once, in the order of queuing, and none is dropped.
Tasks == INSTANCE TaskQueue WITH queue <- functors \o pending_functors_

ImplementsTaskQueue == Tasks!Spec

\* A functor queued from another thread, from a handler or from a functor is
\* run without waiting for other I/O or for the 10 s timeout of Poll(), unless
\* the loop is left first (Loop() does not drain pending_functors_).
QueuedFunctorRuns ==
  \A f \in 1..MaxFunctors :
    (\E i \in 1..Len(pending_functors_) : pending_functors_[i] = f) /\ f \notin early
      ~> (\E i \in 1..Len(ran) : ran[i] = f) \/ pc = "outside"
==============================================================================
