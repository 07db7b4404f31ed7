------------------------- MODULE LoopAndHttpProofs -------------------------
(***************************************************************************)
(* Proofs about the bottom of the library and about the top of it.         *)
(*                                                                         *)
(* EventLoop, for any set of threads, any set of channels and any bounds:  *)
(* a loop that has something to do does not sleep, a call of Quit() is not *)
(* lost, and functors run in the order in which they were queued.          *)
(*                                                                         *)
(* HttpServer, for all lines and any number of them: every request is      *)
(* served once all of it has arrived, as it is in the stream, wherever the *)
(* stream was cut, and the peer can tell where every response ends.  The   *)
(* loop of ParseRequest() and the reference are recursive functions; the   *)
(* proofs are by induction on the passes of the loop and on the requests   *)
(* of the stream.                                                          *)
(***************************************************************************)
EXTENDS EventLoop, HttpServer, SequenceTheorems, WellFoundedInduction, TLAPS

\* Zenon proves the leaves that do not name a prover.
USE ZenonT(30)

-----------------------------------------------------------------------------
(* net/event_loop *)


\* The constructor of EventLoop leaves every variable in its type.
LEMMA TypeInit == Init => TypeOK
<1> SUFFICES ASSUME Init PROVE TypeOK
  OBVIOUS
<1>1. /\ looping_ \in BOOLEAN /\ (looping_ <=> pc # "outside")
      /\ quit_ \in BOOLEAN
      /\ event_handling_ \in BOOLEAN /\ (event_handling_ <=> pc \in {"dispatch", "handler"})
      /\ calling_pending_functors_ \in BOOLEAN
      /\ calling_pending_functors_ <=> pc \in {"functors", "functor"}
  BY DEF Init
<1> QED BY SMTT(30), <1>1 DEF Init, TypeOK, PCs

\* No call on the loop and no step of Loop() takes a variable out of its type.
LEMMA TypeStep == TypeOK /\ [Next]_vars => TypeOK'
<1> SUFFICES ASSUME TypeOK, [Next]_vars PROVE TypeOK'
  OBVIOUS
<1> USE DEF TypeOK, PCs, Callers, flags, queues, history
<1>1. ASSUME NEW t \in Callers, QueueInLoop(t) PROVE TypeOK'
  BY SMTT(30), <1>1 DEF QueueInLoop
<1>2. ASSUME NEW t \in Callers, RunInLoop(t) PROVE TypeOK'
  <2>1. CASE CallDirectly(t)
    BY SMTT(30), <2>1 DEF CallDirectly
  <2> QED BY <1>1, <1>2, <2>1 DEF RunInLoop
<1>3. ASSUME NEW t \in Callers, Quit(t) PROVE TypeOK'
  BY SMTT(30), <1>3 DEF Quit, AfterQuit
<1>4. ASSUME NEW t \in Callers, FinishCall(t) PROVE TypeOK'
  BY SMTT(30), <1>4 DEF FinishCall, Wakeup
<1>5. ASSUME EnterLoop PROVE TypeOK'
  BY <1>5 DEF EnterLoop
<1>6. ASSUME TestQuit PROVE TypeOK'
  BY <1>6 DEF TestQuit
<1>7. ASSUME Poll PROVE TypeOK'
  BY <1>7 DEF Poll
<1>8. ASSUME NEW c \in Channels \cup {WakeupChannel}, HandleEvent(c) PROVE TypeOK'
  BY SMTT(30), <1>8 DEF HandleEvent, HandleRead
<1>9. ASSUME HandlerReturns PROVE TypeOK'
  BY <1>9 DEF HandlerReturns
<1>10. ASSUME EndOfDispatch PROVE TypeOK'
  BY <1>10 DEF EndOfDispatch
<1>11. ASSUME DoPendingFunctors PROVE TypeOK'
  BY SMTT(30), <1>11 DEF DoPendingFunctors, SwapFunctors
<1>12. ASSUME RunFunctor PROVE TypeOK'
  <2>1. Head(functors) \in Nat /\ Tail(functors) \in Seq(Nat)
    BY <1>12, HeadTailProperties DEF RunFunctor
  <2> QED BY SMTT(30), <1>12, <2>1 DEF RunFunctor
<1>13. ASSUME FunctorReturns PROVE TypeOK'
  BY <1>13 DEF FunctorReturns
<1>14. ASSUME EndOfFunctors PROVE TypeOK'
  BY <1>14 DEF EndOfFunctors
<1>15. ASSUME UNCHANGED vars PROVE TypeOK'
  BY <1>15 DEF vars
<1> QED
  BY <1>1, <1>2, <1>3, <1>4, <1>5, <1>6, <1>7, <1>8, <1>9, <1>10, <1>11, <1>12,
     <1>13, <1>14, <1>15 DEF Next, LoopStep

\* Every variable keeps its type and every flag agrees with the place of the
\* loop thread (the assignments of Loop(), DoPendingFunctors() and Quit()).
THEOREM TypeCorrect == Spec => []TypeOK
BY TypeInit, TypeStep, PTL DEF Spec

------------------------------------------------------------------------------
(* No lost wakeup.  NoLostWakeup only speaks of Poll().  What carries it     *)
(* through a whole iteration is that, outside the stretch from Poll()'s      *)
(* return to the swap, a queued functor is announced: by the counter, by a   *)
(* thread about to write it, or by the loop thread itself in a batch.        *)

CallsInUserCode ==
  call[LoopThread] # "none"
    => call[LoopThread] = "queued" /\ pc \in {"outside", "handler", "functor"}

Announced ==
  \/ wakeup_fd_ > 0
  \/ \E t \in Threads : call[t] = "queued"
  \/ pc = "functor" /\ call[LoopThread] = "queued"

QueuedIsAnnounced ==
  pc \notin {"dispatch", "handler", "pending"} /\ Unnoticed => Announced

WakeupInv == TypeOK /\ CallsInUserCode /\ QueuedIsAnnounced

\* No call and no step of the loop leaves a queued functor unannounced.
LEMMA WakeupStep == WakeupInv /\ [Next]_vars => WakeupInv'
<1> SUFFICES ASSUME WakeupInv, [Next]_vars PROVE CallsInUserCode' /\ QueuedIsAnnounced'
  BY TypeStep DEF WakeupInv
<1> USE ThreadsAssumption
    DEF WakeupInv, TypeOK, PCs, Callers, CallsInUserCode, QueuedIsAnnounced, Announced, Unnoticed,
        IsInLoopThread, InUserCode, flags, queues, history
<1>1. ASSUME NEW t \in Callers, QueueInLoop(t) PROVE CallsInUserCode' /\ QueuedIsAnnounced'
  BY SMTT(30), <1>1 DEF QueueInLoop
<1>2. ASSUME NEW t \in Callers, CallDirectly(t) PROVE CallsInUserCode' /\ QueuedIsAnnounced'
  BY <1>2 DEF CallDirectly
<1>3. ASSUME NEW t \in Callers, Quit(t) PROVE CallsInUserCode' /\ QueuedIsAnnounced'
  BY <1>3 DEF Quit, AfterQuit
<1>4. ASSUME NEW t \in Callers, FinishCall(t) PROVE CallsInUserCode' /\ QueuedIsAnnounced'
  BY SMTT(30), <1>4 DEF FinishCall, MustWakeup, Wakeup
<1>5. ASSUME EnterLoop \/ TestQuit \/ Poll PROVE CallsInUserCode' /\ QueuedIsAnnounced'
  BY <1>5 DEF EnterLoop, TestQuit, Poll
<1>6. ASSUME NEW c \in Channels \cup {WakeupChannel}, HandleEvent(c)
      PROVE CallsInUserCode' /\ QueuedIsAnnounced'
  BY <1>6 DEF HandleEvent, HandleRead
<1>7. ASSUME HandlerReturns \/ EndOfDispatch PROVE CallsInUserCode' /\ QueuedIsAnnounced'
  BY <1>7 DEF HandlerReturns, EndOfDispatch
<1>8. ASSUME DoPendingFunctors PROVE CallsInUserCode' /\ QueuedIsAnnounced'
  BY SMTT(30), <1>8 DEF DoPendingFunctors, SwapFunctors
<1>9. ASSUME RunFunctor PROVE CallsInUserCode' /\ QueuedIsAnnounced'
  BY <1>9 DEF RunFunctor
<1>10. ASSUME FunctorReturns \/ EndOfFunctors PROVE CallsInUserCode' /\ QueuedIsAnnounced'
  BY <1>10 DEF FunctorReturns, EndOfFunctors
<1>11. ASSUME UNCHANGED vars PROVE CallsInUserCode' /\ QueuedIsAnnounced'
  BY <1>11 DEF vars
<1> QED
  BY <1>1, <1>2, <1>3, <1>4, <1>5, <1>6, <1>7, <1>8, <1>9, <1>10, <1>11
     DEF Next, LoopStep, RunInLoop

\* QueueInLoop() never leaves a functor behind in a loop that sleeps in Poll(),
\* for any number of threads, channels and functors.
THEOREM WakeupNeverLost == Spec => []NoLostWakeup
<1>1. Init => WakeupInv
  BY SMTT(30), TypeInit DEF Init, WakeupInv, CallsInUserCode, QueuedIsAnnounced, Unnoticed, Callers
<1>2. WakeupInv => NoLostWakeup
  BY DEF WakeupInv, QueuedIsAnnounced, Announced, NoLostWakeup
<1> QED BY <1>1, <1>2, WakeupStep, PTL DEF Spec

------------------------------------------------------------------------------
(* No lost Quit(). *)

QuitInv == TypeOK /\ NoLostQuit

\* Quit() from another thread sets quit_ before it writes to the eventfd, and
\* the loop tests quit_ after it has emptied the eventfd, so a loop that was
\* told to quit does not sleep in Poll(), whatever the number of threads.
THEOREM QuitNeverLost == Spec => []NoLostQuit
<1>1. Init => QuitInv
  BY TypeInit DEF Init, QuitInv, NoLostQuit
<1>2. QuitInv /\ [Next]_vars => QuitInv'
  <2> SUFFICES ASSUME QuitInv, [Next]_vars PROVE NoLostQuit'
    BY TypeStep DEF QuitInv
  <2> USE ThreadsAssumption
      DEF QuitInv, TypeOK, PCs, Callers, NoLostQuit, IsInLoopThread, InUserCode, flags, queues, history
  <2>1. ASSUME NEW t \in Callers, QueueInLoop(t) \/ CallDirectly(t) PROVE NoLostQuit'
    BY <2>1 DEF QueueInLoop, CallDirectly
  <2>2. ASSUME NEW t \in Callers, Quit(t) PROVE NoLostQuit'
    BY <2>2 DEF Quit, AfterQuit
  <2>3. ASSUME NEW t \in Callers, FinishCall(t) PROVE NoLostQuit'
    BY SMTT(30), <2>3 DEF FinishCall, MustWakeup, Wakeup
  <2>4. ASSUME EnterLoop \/ TestQuit \/ Poll PROVE NoLostQuit'
    BY <2>4 DEF EnterLoop, TestQuit, Poll
  <2>5. ASSUME NEW c \in Channels \cup {WakeupChannel}, HandleEvent(c) PROVE NoLostQuit'
    BY <2>5 DEF HandleEvent, HandleRead
  <2>6. ASSUME HandlerReturns \/ EndOfDispatch \/ DoPendingFunctors PROVE NoLostQuit'
    BY <2>6 DEF HandlerReturns, EndOfDispatch, DoPendingFunctors
  <2>7. ASSUME RunFunctor \/ FunctorReturns \/ EndOfFunctors PROVE NoLostQuit'
    BY <2>7 DEF RunFunctor, FunctorReturns, EndOfFunctors
  <2>8. ASSUME UNCHANGED vars PROVE NoLostQuit'
    BY <2>8 DEF vars
  <2> QED
    BY <2>1, <2>2, <2>3, <2>4, <2>5, <2>6, <2>7, <2>8 DEF Next, LoopStep, RunInLoop
<1> QED BY <1>1, <1>2, PTL DEF Spec, QuitInv

------------------------------------------------------------------------------
(* The loop implements TaskQueue.  The abstract queue is the rest of the     *)
(* batch followed by pending_functors_; the swap leaves it as it is because  *)
(* the batch is empty whenever DoPendingFunctors() is entered.               *)

BatchEmptyOutside == pc \notin {"functors", "functor"} => functors = <<>>

BatchInv == TypeOK /\ BatchEmptyOutside

\* Pushing to pending_functors_ appends to the abstract queue.
LEMMA AppendAfterBatch ==
  ASSUME NEW s \in Seq(Nat), NEW t \in Seq(Nat), NEW e \in Nat
  PROVE  s \o Append(t, e) = Append(s \o t, e)
<1>1. Append(t, e) = t \o <<e>> /\ Append(s \o t, e) = (s \o t) \o <<e>>
  BY AppendIsConcat, ConcatProperties
<1>2. <<e>> \in Seq(Nat)
  BY SMTT(30)
<1> QED BY SMTT(30), <1>1, <1>2, ConcatAssociative

\* Taking the first functor of the batch takes the head of the abstract queue.
LEMMA HeadOfBatch ==
  ASSUME NEW s \in Seq(Nat), NEW t \in Seq(Nat), s # <<>>
  PROVE  s \o t # <<>> /\ Head(s \o t) = Head(s) /\ Tail(s \o t) = Tail(s) \o t
<1>1. /\ s \o t \in Seq(Nat) /\ Len(s \o t) = Len(s) + Len(t)
      /\ \A i \in 1 .. Len(s) + Len(t) :
           (s \o t)[i] = IF i <= Len(s) THEN s[i] ELSE t[i - Len(s)]
  BY ConcatProperties
<1>2. Len(s) \in Nat /\ Len(t) \in Nat /\ Len(s) > 0
  BY SMTT(30), LenProperties, EmptySeq
<1>3. s \o t # <<>> /\ Head(s \o t) = Head(s)
  BY SMTT(30), <1>1, <1>2, HeadTailProperties, EmptySeq
<1>4. /\ Tail(s) \in Seq(Nat) /\ Len(Tail(s)) = Len(s) - 1
      /\ \A i \in 1 .. Len(Tail(s)) : Tail(s)[i] = s[i + 1]
  BY HeadTailProperties
<1>5. /\ Tail(s \o t) \in Seq(Nat) /\ Len(Tail(s \o t)) = Len(s) + Len(t) - 1
      /\ \A i \in 1 .. Len(Tail(s \o t)) : Tail(s \o t)[i] = (s \o t)[i + 1]
  BY SMTT(30), <1>1, <1>3, HeadTailProperties
<1>6. /\ Tail(s) \o t \in Seq(Nat) /\ Len(Tail(s) \o t) = Len(s) - 1 + Len(t)
      /\ \A i \in 1 .. Len(s) - 1 + Len(t) :
           (Tail(s) \o t)[i] = IF i <= Len(s) - 1 THEN Tail(s)[i] ELSE t[i - (Len(s) - 1)]
  BY SMTT(30), <1>4, ConcatProperties
<1>7. ASSUME NEW i \in 1 .. Len(s) - 1 + Len(t)
      PROVE  Tail(s \o t)[i] = (Tail(s) \o t)[i]
  BY SMTT(30), <1>1, <1>2, <1>4, <1>5, <1>6
<1>8. Tail(s \o t) = Tail(s) \o t
  BY SMTT(30), <1>2, <1>5, <1>6, <1>7, SeqEqual
<1> QED BY <1>3, <1>8

\* DoPendingFunctors() never starts a batch before the last one is finished.
LEMMA BatchStep == BatchInv /\ [Next]_vars => BatchInv'
<1> SUFFICES ASSUME BatchInv, [Next]_vars PROVE BatchEmptyOutside'
  BY TypeStep DEF BatchInv
<1> USE DEF BatchInv, TypeOK, PCs, BatchEmptyOutside, flags, queues, history
<1>1. ASSUME NEW t \in Callers, QueueInLoop(t) \/ CallDirectly(t) \/ Quit(t) \/ FinishCall(t)
      PROVE BatchEmptyOutside'
  BY <1>1 DEF QueueInLoop, CallDirectly, Quit, FinishCall
<1>2. ASSUME EnterLoop \/ TestQuit \/ Poll \/ HandlerReturns \/ EndOfDispatch PROVE BatchEmptyOutside'
  BY <1>2 DEF EnterLoop, TestQuit, Poll, HandlerReturns, EndOfDispatch
<1>3. ASSUME NEW c \in Channels \cup {WakeupChannel}, HandleEvent(c) PROVE BatchEmptyOutside'
  BY <1>3 DEF HandleEvent, HandleRead
<1>4. ASSUME DoPendingFunctors \/ RunFunctor \/ FunctorReturns \/ EndOfFunctors PROVE BatchEmptyOutside'
  BY <1>4 DEF DoPendingFunctors, RunFunctor, FunctorReturns, EndOfFunctors
<1>5. ASSUME UNCHANGED vars PROVE BatchEmptyOutside'
  BY <1>5 DEF vars
<1> QED BY <1>1, <1>2, <1>3, <1>4, <1>5 DEF Next, LoopStep, RunInLoop

\* Each step of the loop and of its callers is a step of TaskQueue or leaves
\* the abstract queue, the callbacks run and their number as they were.
LEMMA TaskQueueStep == BatchInv /\ [Next]_vars => [Tasks!Next]_(Tasks!vars)
<1> SUFFICES ASSUME BatchInv, [Next]_vars PROVE [Tasks!Next]_(Tasks!vars)
  OBVIOUS
<1> USE DEF BatchInv, TypeOK, flags, queues, history
<1>1. ASSUME NEW t \in Callers, QueueInLoop(t) PROVE Tasks!Enqueue
  <2>1. functors \o pending_functors_' = Append(functors \o pending_functors_, issued + 1)
    BY SMTT(30), <1>1, AppendAfterBatch DEF QueueInLoop
  <2> QED BY <1>1, <2>1 DEF QueueInLoop, Tasks!Enqueue
<1>2. ASSUME NEW t \in Callers, CallDirectly(t) PROVE Tasks!RunNow
  BY <1>2 DEF CallDirectly, Tasks!RunNow
<1>3. ASSUME RunFunctor PROVE Tasks!RunNext
  BY <1>3, HeadOfBatch DEF RunFunctor, Tasks!RunNext
<1>4. ASSUME DoPendingFunctors PROVE UNCHANGED Tasks!vars
  <2>1. functors = <<>> /\ functors' = pending_functors_ /\ pending_functors_' = <<>>
    BY <1>4 DEF DoPendingFunctors, SwapFunctors, BatchEmptyOutside
  <2>2. functors' \o pending_functors_' = functors \o pending_functors_
    BY <2>1, ConcatEmptySeq
  <2> QED BY <1>4, <2>2 DEF DoPendingFunctors, Tasks!vars
<1>5. ASSUME NEW t \in Callers, Quit(t) \/ FinishCall(t) PROVE UNCHANGED Tasks!vars
  BY <1>5 DEF Quit, FinishCall, Tasks!vars
<1>6. ASSUME EnterLoop \/ TestQuit \/ Poll \/ HandlerReturns \/ EndOfDispatch PROVE UNCHANGED Tasks!vars
  BY <1>6 DEF EnterLoop, TestQuit, Poll, HandlerReturns, EndOfDispatch, Tasks!vars
<1>7. ASSUME NEW c \in Channels \cup {WakeupChannel}, HandleEvent(c) PROVE UNCHANGED Tasks!vars
  BY <1>7 DEF HandleEvent, HandleRead, Tasks!vars
<1>8. ASSUME FunctorReturns \/ EndOfFunctors PROVE UNCHANGED Tasks!vars
  BY <1>8 DEF FunctorReturns, EndOfFunctors, Tasks!vars
<1>9. ASSUME UNCHANGED vars PROVE UNCHANGED Tasks!vars
  BY <1>9 DEF vars, Tasks!vars
<1> QED
  BY <1>1, <1>2, <1>3, <1>4, <1>5, <1>6, <1>7, <1>8, <1>9 DEF Next, LoopStep, RunInLoop, Tasks!Next

\* The loop implements TaskQueue: each queued functor runs once and in the order
\* of queuing, across QueueInLoop()'s lock, the swap and the local vector.
THEOREM TaskQueueImplemented == Spec => ImplementsTaskQueue
<1>1. Init => BatchInv /\ Tasks!Init
  BY SMTT(30), TypeInit DEF Init, BatchInv, BatchEmptyOutside, Tasks!Init
<1> QED BY <1>1, BatchStep, TaskQueueStep, PTL DEF Spec, ImplementsTaskQueue, Tasks!Spec

-----------------------------------------------------------------------------
(* Sequences, induction over numbers, and the recursive functions of HttpServer. *)

\* Dropping the first n elements of a sequence, as Retrieve() does.
LEMMA DropFrom ==
  ASSUME NEW S, NEW p \in Seq(S), NEW n \in 0 .. Len(p)
  PROVE  /\ SubSeq(p, n + 1, Len(p)) \in Seq(S)
         /\ Len(SubSeq(p, n + 1, Len(p))) = Len(p) - n
         /\ \A i \in 1 .. Len(p) - n : SubSeq(p, n + 1, Len(p))[i] = p[n + i]
<1>1. Len(p) \in Nat /\ n \in Nat /\ n + 1 \in Int
  BY SMTT(30)
<1>2. \A i \in n + 1 .. Len(p) : p[i] \in S
  BY SMTT(30), <1>1, ElementOfSeq
<1> DEFINE m == n + 1
           t == SubSeq(p, m, Len(p))
<1>3. /\ t \in Seq(S)
      /\ Len(t) = IF m <= Len(p) THEN Len(p) - m + 1 ELSE 0
      /\ \A i \in 1 .. Len(p) - m + 1 : t[i] = p[m + i - 1]
  BY SMTT(30), <1>1, <1>2, SubSeqProperties
<1> HIDE DEF t
<1>4. Len(t) = Len(p) - n
  BY SMTT(30), <1>1, <1>3
<1>5. ASSUME NEW i \in 1 .. Len(p) - n
      PROVE  t[i] = p[n + i]
  <2>1. i \in 1 .. Len(p) - m + 1 /\ m + i - 1 = n + i
    BY SMTT(30), <1>1
  <2> QED  BY <1>3, <2>1
<1> QED  BY <1>3, <1>4, <1>5 DEF t

\* A set of numbers has a least one.  The proofs by induction below rest on it: on
\* the passes of the loop of ParseRequest(), and on the requests of a stream.
LEMMA Least ==
  ASSUME NEW S, S \subseteq Nat, S # {}
  PROVE  \E m \in S : \A k \in S : m <= k
<1> DEFINE R == {pair \in Nat \X Nat : pair[1] < pair[2]}
<1>1. IsWellFoundedOn(R, Nat)
  BY NatLessThanWellFounded DEF OpToRel
<1>2. PICK m \in S : \A k \in S : ~(<<k, m>> \in R)
  <2> HIDE DEF R
  <2> QED BY <1>1, WFMin
<1>3. \A k \in S : <<k, m>> \in R <=> k < m
  BY SMTT(30)
<1>4. \A k \in S : ~(k < m)
  BY <1>2, <1>3
<1> HIDE DEF R
<1> QED BY <1>4, SMTT(30)

\* Induction up to a bound: a set that has 0, and with k also k + 1, has them all.
LEMMA UpTo ==
  ASSUME NEW S, NEW n \in Nat, 0 \in S, \A k \in 0 .. n - 1 : k \in S => k + 1 \in S
  PROVE  \A k \in 0 .. n : k \in S
<1> DEFINE T == {k \in 0 .. n : k \notin S}
<1> SUFFICES ASSUME T # {} PROVE FALSE
  OBVIOUS
<1>1. T \subseteq Nat
  BY SMTT(30)
<1>2. PICK m \in T : \A k \in T : m <= k
  <2> HIDE DEF T
  <2> QED BY <1>1, Least
<1>3. m \in 0 .. n /\ m \notin S /\ m # 0
  OBVIOUS
<1>4. m - 1 \in 0 .. n - 1 /\ m - 1 \in 0 .. n /\ (m - 1) + 1 = m /\ ~(m <= m - 1)
  BY <1>3, SMTT(30)
<1>5. m - 1 \notin T
  <2> HIDE DEF T
  <2> QED BY <1>2, <1>4
<1>6. m - 1 \in S
  BY <1>4, <1>5
<1> QED BY <1>3, <1>4, <1>6

\* The recursive function of Passes() satisfies the equation that defines it: the
\* state of the loop of ParseRequest() after n passes is that of one more pass
\* after n - 1.
LEMMA PassesDef ==
  ASSUME NEW c, NEW b \in Seq(Lines)
  PROVE  Passes(c, b) =
           [n \in 0 .. Len(b) |->
              IF n = 0 THEN Stage(c, 0, TRUE, TRUE) ELSE Pass(Passes(c, b)[n - 1], b[n])]
<1> DEFINE Is(g, m) == g = [n \in 0 .. m |->
              IF n = 0 THEN Stage(c, 0, TRUE, TRUE) ELSE Pass(g[n - 1], b[n])]
           S == {m \in Nat : \E g : Is(g, m)}
<1>0. Len(b) \in Nat
  BY SMTT(30)
<1>1. 0 \in S
  <2> DEFINE g == [n \in 0 .. 0 |-> Stage(c, 0, TRUE, TRUE)]
  <2>1. \A n \in 0 .. 0 : n = 0
    BY SMTT(30)
  <2>2. Is(g, 0)
    BY <2>1
  <2> HIDE DEF Is
  <2>3. \E h : Is(h, 0)
    BY <2>2
  <2>4. 0 \in Nat
    BY SMTT(30)
  <2> QED BY <2>3, <2>4
<1>2. \A k \in 0 .. Len(b) - 1 : k \in S => k + 1 \in S
  <2> SUFFICES ASSUME NEW k \in 0 .. Len(b) - 1, k \in S
               PROVE  k + 1 \in S
    OBVIOUS
  <2>1. PICK g : Is(g, k)
    OBVIOUS
  <2> DEFINE h == [n \in 0 .. k + 1 |-> IF n = k + 1 THEN Pass(g[k], b[k + 1]) ELSE g[n]]
             F(f, n) == IF n = 0 THEN Stage(c, 0, TRUE, TRUE) ELSE Pass(f[n - 1], b[n])
  <2>2. /\ k \in Nat /\ k + 1 \in Nat /\ k + 1 # 0 /\ (k + 1) - 1 = k /\ k # k + 1
        /\ k \in 0 .. k + 1 /\ k \in 0 .. k
        /\ \A n \in 0 .. k + 1 : n # k + 1 => n \in 0 .. k /\ n - 1 # k + 1
        /\ \A n \in 0 .. k + 1 : n # 0 => n - 1 \in 0 .. k + 1
    BY SMTT(30)
  <2>3. \A n \in 0 .. k + 1 : h[n] = F(h, n)
    <3> SUFFICES ASSUME NEW n \in 0 .. k + 1 PROVE h[n] = F(h, n)
      OBVIOUS
    <3>1. CASE n = k + 1
      <4>1. h[k] = g[k]
        BY <2>2
      <4>2. h[n] = Pass(g[k], b[k + 1])
        BY <3>1
      <4> QED BY <3>1, <4>1, <4>2, <2>2
    <3>2. CASE n # k + 1
      <4>1. h[n] = g[n] /\ n \in 0 .. k
        BY <3>2, <2>2
      <4>2. g[n] = F(g, n)
        BY <2>1, <4>1
      <4>3. n # 0 => h[n - 1] = g[n - 1]
        BY <2>2, <3>2
      <4> QED BY <4>1, <4>2, <4>3
    <3> QED BY <3>1, <3>2
  <2>4. Is(h, k + 1)
    <3>1. h = [n \in 0 .. k + 1 |-> h[n]]
      OBVIOUS
    <3> HIDE DEF h
    <3> QED BY <3>1, <2>3
  <2> HIDE DEF Is
  <2> QED BY <2>4, <2>2
<1>3. Len(b) \in S
  <2> HIDE DEF S
  <2>1. Len(b) \in 0 .. Len(b)
    BY <1>0, SMTT(30)
  <2> QED BY <1>0, <1>1, <1>2, <2>1, UpTo
<1>4. \E g : Is(g, Len(b))
  BY <1>3
<1>5. Passes(c, b) = CHOOSE g : Is(g, Len(b))
  BY DEF Passes
<1>6. Is(Passes(c, b), Len(b))
  <2> HIDE DEF Is
  <2> QED BY <1>4, <1>5
<1> QED BY <1>6
-----------------------------------------------------------------------------
(* net/http.  The states of a connection between two calls of OnMessage(), and *)
(* those of ParseRequest() between two passes of its loop.                     *)

HttpRequests ==
  [method_ : STRING \cup {"kInvalid"}, version_ : STRING \cup {"kUnknown"},
   query_ : BOOLEAN, remote_addr_ : BOOLEAN, headers_ : [Fields -> STRING \cup {None}]]
HttpContexts ==
  [state_ : {"kExpectRequestLine", "kExpectHeaders", "kGotAll"}, request_ : HttpRequests]
HttpResponses == [status : Nat, close : BOOLEAN, length : BOOLEAN]

HttpTypeOK ==
  /\ input_buffer \in Seq(Lines) /\ input \in Seq(Lines)
  /\ context \in HttpContexts
  /\ conn \in {"kConnected", "kDisconnecting"}
  /\ sent \in Seq(HttpResponses) /\ handled \in Seq(HttpRequests)

\* The reading of a stream in which the headers of a request end at the first line
\* of the set stops.  ParseRequest() stops at a line without a colon, the
\* reference of HttpServer at an empty line.
HeaderEndsAt(stops, lines, p) == {i \in p + 2 .. Len(lines) : lines[i] \in stops}
FollowsAt(stops, lines, p) == HeaderEndsAt(stops, lines, p) # {} /\ Succeeds(lines[p + 1])
EndAt(stops, lines, p) ==
  CHOOSE i \in HeaderEndsAt(stops, lines, p) : \A j \in HeaderEndsAt(stops, lines, p) : i <= j
EndsAt(stops, lines) ==
  LET ends[k \in 0 .. Len(lines)] ==
        IF k = 0 THEN 0
        ELSE LET p == ends[k - 1]
             IN IF FollowsAt(stops, lines, p) THEN EndAt(stops, lines, p) ELSE p
  IN ends
HasRequestAt(stops, lines, k) ==
  k <= Len(lines) /\ FollowsAt(stops, lines, EndsAt(stops, lines)[k - 1])
RequestAt(stops, lines, k) ==
  RequestIn(lines, EndsAt(stops, lines)[k - 1], EndsAt(stops, lines)[k])
NoColon == {line \in Lines : ~HasColon(line)}

\* The parser waits for the request line that follows place p: the request has
\* nothing of an earlier one but its version, or the line is there and is bad.
AtRequestLine(c, lines, p) ==
  /\ ExpectRequestLine(c)
  /\ \/ c.request_.query_ = FALSE /\ c.request_.headers_["Connection"] = None
     \/ p < Len(lines) /\ ~Succeeds(lines[p + 1])

\* It has read the request line and the header lines up to place q.
InHeaders(c, lines, p, q) ==
  /\ ExpectHeaders(c) /\ p < q /\ q <= Len(lines)
  /\ Succeeds(lines[p + 1])
  /\ \A i \in p + 2 .. q : lines[i] \notin NoColon
  /\ Described(c.request_) = RequestIn(lines, p, q + 1)

\* After n passes that began at place q.
StageOK(r, lines, p, q, n) ==
  /\ r \in [c : HttpContexts, n : Nat, ok : BOOLEAN, has_more : BOOLEAN]
  /\ \/ /\ r.has_more /\ r.ok /\ r.n = 0 /\ n = 0
        /\ q = p /\ AtRequestLine(r.c, lines, p)
     \/ /\ r.has_more /\ r.ok /\ r.n = n
        /\ InHeaders(r.c, lines, p, q + n)
     \/ /\ ~r.has_more /\ ~r.ok /\ r.n = 0
        /\ q = p /\ ExpectRequestLine(r.c) /\ p < Len(lines) /\ ~Succeeds(lines[p + 1])
     \/ /\ ~r.has_more /\ r.ok /\ r.n \in 1 .. n
        /\ GotAll(r.c) /\ FollowsAt(NoColon, lines, p) /\ EndAt(NoColon, lines, p) = q + r.n
        /\ Described(r.c.request_) = RequestIn(lines, p, q + r.n)

\* b is what follows place q of lines.
Follows(b, lines, q) ==
  q + Len(b) = Len(lines) /\ \A i \in 1 .. Len(b) : b[i] = lines[q + i]

ServedUpTo == EndsAt(NoColon, input)[Len(handled)]
ReadUpTo == Len(input) - Len(input_buffer)

ParserInv ==
  /\ Len(handled) <= Len(input)
  /\ Len(handled) <= ServedUpTo /\ ServedUpTo <= ReadUpTo
  /\ Follows(input_buffer, input, ReadUpTo)
  /\ \/ ReadUpTo = ServedUpTo /\ AtRequestLine(context, input, ServedUpTo)
     \/ ReadUpTo = Len(input) /\ InHeaders(context, input, ServedUpTo, ReadUpTo)
  /\ \A k \in DOMAIN handled :
       /\ HasRequestAt(NoColon, input, k)
       /\ Described(handled[k]) = RequestAt(NoColon, input, k)

\* Every response but the last has a length, and the last one has while the
\* connection is kept; each of them answers the request of its number.
ResponseOK(state, out, served, i) ==
  /\ i # Len(out) \/ state = "kConnected" => out[i].length
  /\ out[i].status # 400 => i <= Len(served)
  /\ out[i].length => out[i].status # 400 /\ ~Close(served[i])
ResponsesOK(state, out, served) ==
  /\ state = "kConnected" => Len(out) = Len(served)
  /\ state = "kDisconnecting" => out # <<>> /\ ~out[Len(out)].length
  /\ \A i \in 1 .. Len(out) : ResponseOK(state, out, served, i)

HttpInv == HttpTypeOK /\ ParserInv /\ ResponsesOK(conn, sent, handled)

\* The recursive function of EndsAt() satisfies the equation that defines it.
LEMMA EndsDef ==
  ASSUME NEW stops, NEW lines \in Seq(Lines)
  PROVE  EndsAt(stops, lines) =
           [k \in 0 .. Len(lines) |->
              IF k = 0 THEN 0
              ELSE LET p == EndsAt(stops, lines)[k - 1]
                   IN IF FollowsAt(stops, lines, p) THEN EndAt(stops, lines, p) ELSE p]
<1> DEFINE F(f, k) == IF k = 0 THEN 0
                      ELSE IF FollowsAt(stops, lines, f[k - 1])
                           THEN EndAt(stops, lines, f[k - 1]) ELSE f[k - 1]
           Is(g, m) == g = [k \in 0 .. m |-> F(g, k)]
           S == {m \in Nat : \E g : Is(g, m)}
<1>0. Len(lines) \in Nat
  BY SMTT(30)
<1>1. 0 \in S
  <2> DEFINE g == [k \in 0 .. 0 |-> 0]
  <2>1. \A k \in 0 .. 0 : k = 0
    BY SMTT(30)
  <2>2. Is(g, 0)
    BY <2>1
  <2> HIDE DEF Is
  <2>3. \E h : Is(h, 0)
    BY <2>2
  <2>4. 0 \in Nat
    BY SMTT(30)
  <2> QED BY <2>3, <2>4
<1>2. \A k \in 0 .. Len(lines) - 1 : k \in S => k + 1 \in S
  <2> SUFFICES ASSUME NEW k \in 0 .. Len(lines) - 1, k \in S
               PROVE  k + 1 \in S
    OBVIOUS
  <2>1. PICK g : Is(g, k)
    OBVIOUS
  <2> DEFINE h == [n \in 0 .. k + 1 |-> IF n = k + 1 THEN F(g, k + 1) ELSE g[n]]
  <2>2. /\ k + 1 \in Nat /\ k + 1 # 0 /\ (k + 1) - 1 = k /\ k # k + 1
        /\ k \in 0 .. k + 1
        /\ \A n \in 0 .. k + 1 : n # k + 1 => n \in 0 .. k /\ n - 1 # k + 1
        /\ \A n \in 0 .. k + 1 : n # 0 => n - 1 \in 0 .. k + 1
    BY SMTT(30)
  <2>3. \A n \in 0 .. k + 1 : h[n] = F(h, n)
    <3> SUFFICES ASSUME NEW n \in 0 .. k + 1 PROVE h[n] = F(h, n)
      OBVIOUS
    <3>1. CASE n = k + 1
      <4>1. h[k] = g[k]
        BY <2>2
      <4>2. h[n] = F(g, k + 1)
        BY <3>1
      <4> HIDE DEF h
      <4>3. F(g, k + 1) = F(h, k + 1)
        BY <4>1, <2>2
      <4> QED BY <3>1, <4>2, <4>3
    <3>2. CASE n # k + 1
      <4>1. h[n] = g[n] /\ n \in 0 .. k
        BY <3>2, <2>2
      <4>2. g[n] = F(g, n)
        BY <2>1, <4>1
      <4>3. n # 0 => h[n - 1] = g[n - 1]
        BY <2>2, <3>2
      <4> HIDE DEF h
      <4>4. F(g, n) = F(h, n)
        BY <4>3
      <4> QED BY <4>1, <4>2, <4>4
    <3> QED BY <3>1, <3>2
  <2>4. Is(h, k + 1)
    <3>1. h = [n \in 0 .. k + 1 |-> h[n]]
      OBVIOUS
    <3> HIDE DEF h, F
    <3> QED BY <3>1, <2>3
  <2> HIDE DEF Is
  <2> QED BY <2>4, <2>2
<1>3. Len(lines) \in S
  <2> HIDE DEF S
  <2>1. Len(lines) \in 0 .. Len(lines)
    BY <1>0, SMTT(30)
  <2> QED BY <1>0, <1>1, <1>2, <2>1, UpTo
<1>4. \E g : Is(g, Len(lines))
  BY <1>3
<1>5. EndsAt(stops, lines) = CHOOSE g : Is(g, Len(lines))
  BY DEF EndsAt
<1>6. Is(EndsAt(stops, lines), Len(lines))
  <2> HIDE DEF Is
  <2> QED BY <1>4, <1>5
<1> QED BY <1>6

\* One by one: where the next request ends.
LEMMA EndsStep ==
  ASSUME NEW stops, NEW lines \in Seq(Lines)
  PROVE  /\ EndsAt(stops, lines)[0] = 0
         /\ \A k \in 1 .. Len(lines) :
              EndsAt(stops, lines)[k] =
                LET p == EndsAt(stops, lines)[k - 1]
                IN IF FollowsAt(stops, lines, p) THEN EndAt(stops, lines, p) ELSE p
<1>1. 0 \in 0 .. Len(lines) /\ \A k \in 1 .. Len(lines) : k \in 0 .. Len(lines) /\ k # 0
  BY SMTT(30)
<1> DEFINE G(k) == IF k = 0 THEN 0
                   ELSE LET p == EndsAt(stops, lines)[k - 1]
                        IN IF FollowsAt(stops, lines, p) THEN EndAt(stops, lines, p) ELSE p
<1>2. EndsAt(stops, lines) = [k \in 0 .. Len(lines) |-> G(k)]
  BY EndsDef
<1>3. \A k \in 0 .. Len(lines) : EndsAt(stops, lines)[k] = G(k)
  <2> HIDE DEF G
  <2> QED BY <1>2
<1> QED BY <1>1, <1>3

\* One by one: what the next pass of the loop does.
LEMMA PassesStep ==
  ASSUME NEW c, NEW b \in Seq(Lines)
  PROVE  /\ Passes(c, b)[0] = Stage(c, 0, TRUE, TRUE)
         /\ \A n \in 1 .. Len(b) : Passes(c, b)[n] = Pass(Passes(c, b)[n - 1], b[n])
<1>1. 0 \in 0 .. Len(b) /\ \A n \in 1 .. Len(b) : n \in 0 .. Len(b) /\ n # 0
  BY SMTT(30)
<1> DEFINE G(n) == IF n = 0 THEN Stage(c, 0, TRUE, TRUE) ELSE Pass(Passes(c, b)[n - 1], b[n])
<1>2. Passes(c, b) = [n \in 0 .. Len(b) |-> G(n)]
  BY PassesDef
<1>3. \A n \in 0 .. Len(b) : Passes(c, b)[n] = G(n)
  <2> HIDE DEF G
  <2> QED BY <1>2
<1> QED BY <1>1, <1>3

\* EndAt() is the first line that ends the headers.
LEMMA EndAtFirst ==
  ASSUME NEW stops, NEW lines \in Seq(Lines), NEW p \in Nat, HeaderEndsAt(stops, lines, p) # {}
  PROVE  /\ EndAt(stops, lines, p) \in HeaderEndsAt(stops, lines, p)
         /\ \A j \in HeaderEndsAt(stops, lines, p) : EndAt(stops, lines, p) <= j
<1>1. HeaderEndsAt(stops, lines, p) \subseteq Nat
  BY SMTT(30) DEF HeaderEndsAt
<1>2. \E m \in HeaderEndsAt(stops, lines, p) : \A k \in HeaderEndsAt(stops, lines, p) : m <= k
  BY <1>1, Least
<1> QED BY <1>2 DEF EndAt

\* The first line that ends the headers is EndAt().
LEMMA EndAtIs ==
  ASSUME NEW stops, NEW lines \in Seq(Lines), NEW p \in Nat,
         NEW e \in HeaderEndsAt(stops, lines, p),
         \A j \in HeaderEndsAt(stops, lines, p) : e <= j
  PROVE  EndAt(stops, lines, p) = e
<1>1. /\ EndAt(stops, lines, p) \in HeaderEndsAt(stops, lines, p)
      /\ \A j \in HeaderEndsAt(stops, lines, p) : EndAt(stops, lines, p) <= j
  BY EndAtFirst
<1>2. EndAt(stops, lines, p) <= e /\ e <= EndAt(stops, lines, p)
  BY <1>1
<1>3. EndAt(stops, lines, p) \in Nat /\ e \in Nat
  BY <1>1, SMTT(30) DEF HeaderEndsAt
<1> QED BY <1>2, <1>3, SMTT(30)

\* A request ends after its request line, in the stream.
LEMMA EndAtBounds ==
  ASSUME NEW stops, NEW lines \in Seq(Lines), NEW p \in Nat, HeaderEndsAt(stops, lines, p) # {}
  PROVE  EndAt(stops, lines, p) \in p + 2 .. Len(lines) /\ EndAt(stops, lines, p) \in Nat
<1>1. EndAt(stops, lines, p) \in p + 2 .. Len(lines)
  BY EndAtFirst DEF HeaderEndsAt
<1> QED BY <1>1, SMTT(30)

\* A set of places has a last one.
LEMMA Greatest ==
  ASSUME NEW n \in Nat, NEW S, S \subseteq 0 .. n, S # {}
  PROVE  \E m \in S : \A k \in S : k <= m
<1> DEFINE T == {n - k : k \in S}
<1>1. T \subseteq Nat /\ T # {}
  <2>1. \A k \in S : n - k \in Nat
    BY SMTT(30)
  <2> QED BY <2>1
<1>2. PICK l \in T : \A k \in T : l <= k
  <2> HIDE DEF T
  <2> QED BY <1>1, Least
<1>3. PICK m \in S : l = n - m
  OBVIOUS
<1>4. \A k \in S : n - m <= n - k
  BY <1>2, <1>3
<1> HIDE DEF T
<1> QED BY <1>4, SMTT(30)

\* More lines do not change the ones that are there.
LEMMA ConcatLines ==
  ASSUME NEW lines \in Seq(Lines), NEW more \in Seq(Lines)
  PROVE  /\ lines \o more \in Seq(Lines)
         /\ Len(lines) \in Nat /\ Len(more) \in Nat
         /\ Len(lines \o more) = Len(lines) + Len(more)
         /\ \A i \in 1 .. Len(lines) : (lines \o more)[i] = lines[i]
         /\ \A j \in 1 .. Len(more) : (lines \o more)[Len(lines) + j] = more[j]
<1> DEFINE all == lines \o more
<1>1. Len(lines) \in Nat /\ Len(more) \in Nat
  BY LenProperties
<1>2. /\ all \in Seq(Lines) /\ Len(all) = Len(lines) + Len(more)
      /\ \A i \in 1 .. Len(lines) + Len(more) :
           all[i] = IF i <= Len(lines) THEN lines[i] ELSE more[i - Len(lines)]
  BY ConcatProperties
<1> HIDE DEF all
<1>3. /\ \A i \in 1 .. Len(lines) : i \in 1 .. Len(lines) + Len(more) /\ i <= Len(lines)
      /\ \A j \in 1 .. Len(more) : /\ Len(lines) + j \in 1 .. Len(lines) + Len(more)
                                   /\ ~(Len(lines) + j <= Len(lines))
                                   /\ (Len(lines) + j) - Len(lines) = j
  BY <1>1, SMTT(30)
<1>4. \A i \in 1 .. Len(lines) : all[i] = lines[i]
  BY <1>2, <1>3
<1>5. \A j \in 1 .. Len(more) : all[Len(lines) + j] = more[j]
  BY <1>2, <1>3
<1> QED BY <1>1, <1>2, <1>4, <1>5 DEF all

\* The lines with a Connection field, and the last of them.
ConnectionLines(lines, first, last) ==
  {i \in first .. last : lines[i].field = "Connection"}

\* LastValue() is the value of the last of those lines.
LEMMA LastValueIs ==
  ASSUME NEW lines, NEW first \in Nat, NEW last \in Nat,
         NEW i \in ConnectionLines(lines, first, last),
         \A j \in ConnectionLines(lines, first, last) : j <= i
  PROVE  LastValue(lines, first, last) = lines[i].value
<1> DEFINE at == ConnectionLines(lines, first, last)
           c == CHOOSE k \in at : \A j \in at : j <= k
<1>1. c \in at /\ \A j \in at : j <= c
  <2>1. \E k \in at : \A j \in at : j <= k
    OBVIOUS
  <2> HIDE DEF at
  <2> QED BY <2>1
<1>2. c <= i /\ i <= c
  BY <1>1
<1>3. at \subseteq Nat
  BY SMTT(30) DEF ConnectionLines
<1>4. c \in Nat /\ i \in Nat
  BY <1>1, <1>3
<1>5. c = i
  <2> HIDE DEF c
  <2> QED BY <1>2, <1>4, SMTT(30)
<1>6. LastValue(lines, first, last) = lines[c].value
  BY DEF LastValue, ConnectionLines
<1> HIDE DEF c
<1> QED BY <1>5, <1>6

\* LastValue() without such a line.
LEMMA LastValueNone ==
  ASSUME NEW lines, NEW first, NEW last, ConnectionLines(lines, first, last) = {}
  PROVE  LastValue(lines, first, last) = None
BY DEF LastValue, ConnectionLines

\* There is a last Connection line when there is one.
LEMMA LastConnectionLine ==
  ASSUME NEW lines, NEW first \in Nat, NEW last \in Nat,
         ConnectionLines(lines, first, last) # {}
  PROVE  \E i \in ConnectionLines(lines, first, last) :
           \A j \in ConnectionLines(lines, first, last) : j <= i
<1>1. ConnectionLines(lines, first, last) \subseteq 0 .. last
  BY SMTT(30) DEF ConnectionLines
<1> QED BY <1>1, Greatest

\* Two streams with the same lines from first to last have the same last value.
LEMMA SameValue ==
  ASSUME NEW s, NEW t, NEW first \in Nat, NEW last \in Nat,
         \A i \in first .. last : s[i] = t[i]
  PROVE  LastValue(s, first, last) = LastValue(t, first, last)
<1>1. ConnectionLines(s, first, last) = ConnectionLines(t, first, last)
  BY DEF ConnectionLines
<1>2. CASE ConnectionLines(s, first, last) = {}
  BY <1>1, <1>2, LastValueNone
<1>3. CASE ConnectionLines(s, first, last) # {}
  <2>1. PICK i \in ConnectionLines(s, first, last) :
          \A j \in ConnectionLines(s, first, last) : j <= i
    BY <1>3, LastConnectionLine
  <2>2. LastValue(s, first, last) = s[i].value
    BY <2>1, LastValueIs
  <2>3. LastValue(t, first, last) = t[i].value
    BY <1>1, <2>1, LastValueIs
  <2>4. s[i] = t[i]
    BY DEF ConnectionLines
  <2> QED BY <2>2, <2>3, <2>4
<1> QED BY <1>2, <1>3

\* One more header line: a Connection line gives the value, another leaves it.
LEMMA LastValueNext ==
  ASSUME NEW lines, NEW first \in Nat, NEW last \in Nat, first <= last + 1
  PROVE  LastValue(lines, first, last + 1) =
           IF lines[last + 1].field = "Connection"
           THEN lines[last + 1].value ELSE LastValue(lines, first, last)
<1>1. /\ last + 1 \in Nat /\ last + 1 \in first .. last + 1
      /\ \A j \in first .. last + 1 : j <= last + 1
      /\ \A j \in first .. last + 1 : j # last + 1 => j \in first .. last
      /\ \A j \in first .. last : j \in first .. last + 1
  BY SMTT(30)
<1>2. CASE lines[last + 1].field = "Connection"
  <2>1. /\ last + 1 \in ConnectionLines(lines, first, last + 1)
        /\ \A j \in ConnectionLines(lines, first, last + 1) : j <= last + 1
    BY <1>1, <1>2 DEF ConnectionLines
  <2> QED BY <1>1, <1>2, <2>1, LastValueIs
<1>3. CASE lines[last + 1].field # "Connection"
  <2>1. ConnectionLines(lines, first, last + 1) = ConnectionLines(lines, first, last)
    BY <1>1, <1>3 DEF ConnectionLines
  <2>2. CASE ConnectionLines(lines, first, last) = {}
    BY <1>3, <2>1, <2>2, LastValueNone
  <2>3. CASE ConnectionLines(lines, first, last) # {}
    <3>1. PICK i \in ConnectionLines(lines, first, last) :
            \A j \in ConnectionLines(lines, first, last) : j <= i
      BY <2>3, LastConnectionLine
    <3>2. LastValue(lines, first, last) = lines[i].value
      BY <3>1, LastValueIs
    <3>3. /\ i \in ConnectionLines(lines, first, last + 1)
          /\ \A j \in ConnectionLines(lines, first, last + 1) : j <= i
      BY <2>1, <3>1
    <3>4. LastValue(lines, first, last + 1) = lines[i].value
      BY <1>1, <3>3, LastValueIs
    <3> QED BY <1>3, <3>2, <3>4
  <2> QED BY <2>2, <2>3
<1> QED BY <1>2, <1>3

\* A request that is in the stream is there when more lines have come, with the
\* same lines.
LEMMA RequestStays ==
  ASSUME NEW stops, NEW lines \in Seq(Lines), NEW more \in Seq(Lines), NEW p \in Nat,
         FollowsAt(stops, lines, p)
  PROVE  /\ FollowsAt(stops, lines \o more, p)
         /\ EndAt(stops, lines \o more, p) = EndAt(stops, lines, p)
<1> DEFINE all == lines \o more
<1>1. /\ all \in Seq(Lines) /\ Len(lines) \in Nat /\ Len(more) \in Nat
      /\ Len(all) = Len(lines) + Len(more)
      /\ \A i \in 1 .. Len(lines) : all[i] = lines[i]
  BY ConcatLines
<1> HIDE DEF all
<1>2. /\ EndAt(stops, lines, p) \in HeaderEndsAt(stops, lines, p)
      /\ \A j \in HeaderEndsAt(stops, lines, p) : EndAt(stops, lines, p) <= j
      /\ EndAt(stops, lines, p) \in p + 2 .. Len(lines) /\ EndAt(stops, lines, p) \in Nat
  BY EndAtFirst, EndAtBounds DEF FollowsAt
<1> DEFINE e == EndAt(stops, lines, p)
<1> HIDE DEF e
<1>3. e \in p + 2 .. Len(lines) /\ e \in Nat
  BY <1>2 DEF e
<1>4. /\ e \in 1 .. Len(lines) /\ p + 1 \in 1 .. Len(lines)
      /\ e \in p + 2 .. Len(all)
      /\ \A j \in p + 2 .. Len(all) :
           (j \in p + 2 .. Len(lines) /\ j \in 1 .. Len(lines)) \/ e <= j
  BY <1>1, <1>3, SMTT(30)
<1>5. lines[e] \in stops
  BY <1>2 DEF e, HeaderEndsAt
<1>6. e \in HeaderEndsAt(stops, all, p)
  BY <1>1, <1>4, <1>5 DEF HeaderEndsAt
<1>7. \A j \in HeaderEndsAt(stops, all, p) : e <= j
  <2> SUFFICES ASSUME NEW j \in HeaderEndsAt(stops, all, p) PROVE e <= j
    OBVIOUS
  <2>1. j \in p + 2 .. Len(all) /\ all[j] \in stops
    BY DEF HeaderEndsAt
  <2>2. CASE j \in p + 2 .. Len(lines) /\ j \in 1 .. Len(lines)
    <3>1. j \in HeaderEndsAt(stops, lines, p)
      BY <1>1, <2>1, <2>2 DEF HeaderEndsAt
    <3> QED BY <1>2, <3>1 DEF e
  <2> QED BY <1>4, <2>1, <2>2
<1>8. EndAt(stops, all, p) = e
  BY <1>1, <1>6, <1>7, EndAtIs
<1>9. Succeeds(all[p + 1])
  BY <1>1, <1>4 DEF FollowsAt
<1> QED BY <1>6, <1>8, <1>9 DEF FollowsAt, e, all

\* What is read of a request before place e does not change when more lines come.
LEMMA SameRequest ==
  ASSUME NEW lines \in Seq(Lines), NEW more \in Seq(Lines), NEW p \in Nat, NEW e \in Nat,
         p + 1 < e, e <= Len(lines) + 1
  PROVE  RequestIn(lines \o more, p, e) = RequestIn(lines, p, e)
<1> DEFINE all == lines \o more
<1>1. Len(lines) \in Nat /\ \A i \in 1 .. Len(lines) : all[i] = lines[i]
  BY ConcatLines
<1> HIDE DEF all
<1>2. /\ p + 1 \in 1 .. Len(lines) /\ p + 2 \in Nat /\ e - 1 \in Nat
      /\ \A i \in p + 2 .. e - 1 : i \in 1 .. Len(lines)
  BY <1>1, SMTT(30)
<1>3. LastValue(all, p + 2, e - 1) = LastValue(lines, p + 2, e - 1)
  <2>1. \A i \in p + 2 .. e - 1 : all[i] = lines[i]
    BY <1>1, <1>2
  <2> QED BY <1>2, <2>1, SameValue
<1>4. all[p + 1] = lines[p + 1]
  BY <1>1, <1>2
<1> QED BY <1>3, <1>4 DEF RequestIn, all

\* The requests that are in the stream end where they did when more lines have
\* come.
LEMMA EndsStay ==
  ASSUME NEW stops, NEW lines \in Seq(Lines), NEW more \in Seq(Lines), NEW n \in Nat,
         n <= Len(lines), \A k \in 1 .. n : HasRequestAt(stops, lines, k)
  PROVE  \A k \in 0 .. n :
           /\ EndsAt(stops, lines \o more)[k] = EndsAt(stops, lines)[k]
           /\ EndsAt(stops, lines)[k] \in Nat
<1> DEFINE all == lines \o more
           S == {k \in 0 .. n : /\ EndsAt(stops, all)[k] = EndsAt(stops, lines)[k]
                                /\ EndsAt(stops, lines)[k] \in Nat}
<1>1. /\ all \in Seq(Lines) /\ Len(lines) \in Nat /\ Len(more) \in Nat
      /\ Len(all) = Len(lines) + Len(more)
  BY ConcatLines
<1>2. 0 \in S
  <2>1. EndsAt(stops, all)[0] = 0 /\ EndsAt(stops, lines)[0] = 0
    BY <1>1, EndsStep
  <2>2. 0 \in Nat /\ 0 \in 0 .. n
    BY SMTT(30)
  <2> QED BY <2>1, <2>2
<1>3. \A k \in 0 .. n - 1 : k \in S => k + 1 \in S
  <2> SUFFICES ASSUME NEW k \in 0 .. n - 1, k \in S PROVE k + 1 \in S
    OBVIOUS
  <2> DEFINE p == EndsAt(stops, lines)[k]
  <2>1. p \in Nat /\ EndsAt(stops, all)[k] = p
    OBVIOUS
  <2> HIDE DEF all, S
  <2>2. /\ (k + 1) - 1 = k /\ k + 1 \in 1 .. n /\ k + 1 \in 0 .. n
        /\ k + 1 \in 1 .. Len(lines) /\ k + 1 \in 1 .. Len(all)
    BY <1>1, SMTT(30)
  <2>3. FollowsAt(stops, lines, p)
    BY <2>2 DEF HasRequestAt
  <2>4. EndsAt(stops, lines)[k + 1] = EndAt(stops, lines, p)
    BY <2>2, <2>3, EndsStep
  <2>5. FollowsAt(stops, all, p) /\ EndAt(stops, all, p) = EndAt(stops, lines, p)
    BY <2>1, <2>3, RequestStays DEF all
  <2>6. EndsAt(stops, all)[k + 1] = EndAt(stops, all, p)
    <3>1. EndsAt(stops, all)[k + 1] =
            LET x == EndsAt(stops, all)[k]
            IN IF FollowsAt(stops, all, x) THEN EndAt(stops, all, x) ELSE x
      BY <1>1, <2>2, EndsStep
    <3> QED BY <2>1, <2>5, <3>1
  <2>7. EndAt(stops, lines, p) \in Nat
    BY <2>1, <2>3, EndAtBounds DEF FollowsAt
  <2> QED BY <2>2, <2>4, <2>5, <2>6, <2>7 DEF S
<1>4. \A k \in 0 .. n : k \in S
  <2> HIDE DEF S
  <2> QED BY <1>2, <1>3, UpTo
<1> QED BY <1>4

\* The requests that are in the stream are the same when more lines have come.
LEMMA RequestsStay ==
  ASSUME NEW stops, NEW lines \in Seq(Lines), NEW more \in Seq(Lines), NEW n \in Nat,
         n <= Len(lines), \A k \in 1 .. n : HasRequestAt(stops, lines, k), NEW k \in 1 .. n
  PROVE  /\ HasRequestAt(stops, lines \o more, k)
         /\ RequestAt(stops, lines \o more, k) = RequestAt(stops, lines, k)
<1> DEFINE all == lines \o more
           p == EndsAt(stops, lines)[k - 1]
           e == EndsAt(stops, lines)[k]
<1>1. /\ all \in Seq(Lines) /\ Len(lines) \in Nat /\ Len(more) \in Nat
      /\ Len(all) = Len(lines) + Len(more)
  BY ConcatLines
<1> HIDE DEF all
<1>2. k - 1 \in 0 .. n /\ k \in 0 .. n /\ k \in 1 .. Len(lines) /\ k <= Len(all)
  BY <1>1, SMTT(30)
<1>3. EndsAt(stops, all)[k - 1] = p /\ p \in Nat /\ EndsAt(stops, all)[k] = e
  BY <1>2, EndsStay DEF all
<1>4. FollowsAt(stops, lines, p)
  BY DEF HasRequestAt
<1>5. e = EndAt(stops, lines, p)
  BY <1>2, <1>4, EndsStep
<1>6. e \in p + 2 .. Len(lines) /\ e \in Nat
  BY <1>3, <1>4, <1>5, EndAtBounds DEF FollowsAt
<1>7. p + 1 < e /\ e <= Len(lines) + 1
  <2> HIDE DEF p, e
  <2> QED BY <1>1, <1>3, <1>6, SMTT(30)
<1>8. RequestIn(all, p, e) = RequestIn(lines, p, e)
  BY <1>3, <1>6, <1>7, SameRequest DEF all
<1>9. FollowsAt(stops, all, p)
  BY <1>3, <1>4, RequestStays DEF all
<1> QED BY <1>2, <1>3, <1>8, <1>9 DEF HasRequestAt, RequestAt, all

\* HttpServer's reference is the reading that stops at an empty line.
LEMMA ReferenceReading ==
  ASSUME NEW lines
  PROVE  /\ Ends(lines) = EndsAt(EmptyLines, lines)
         /\ \A k : HasRequest(lines, k) <=> HasRequestAt(EmptyLines, lines, k)
         /\ \A k : Request(lines, k) = RequestAt(EmptyLines, lines, k)
<1>1. Ends(lines) = EndsAt(EmptyLines, lines)
  BY DEF Ends, EndsAt, RequestFollows, FollowsAt, EndOf, EndAt, HeaderEnds, HeaderEndsAt
<1>2. \A p : RequestFollows(lines, p) <=> FollowsAt(EmptyLines, lines, p)
  BY DEF RequestFollows, FollowsAt, HeaderEnds, HeaderEndsAt
<1> QED BY <1>1, <1>2 DEF HasRequest, HasRequestAt, Request, RequestAt

\* The two readings agree on a request whose header lines have a colon: the first
\* line without one is the empty line.
LEMMA SameReading ==
  ASSUME NEW lines \in Seq(Lines), NEW p \in Nat,
         \A i \in HeaderLines(lines, p) : HasColon(lines[i])
  PROVE  /\ FollowsAt(EmptyLines, lines, p) <=> FollowsAt(NoColon, lines, p)
         /\ FollowsAt(EmptyLines, lines, p) =>
              EndAt(EmptyLines, lines, p) = EndAt(NoColon, lines, p)
<1>1. CASE ~Succeeds(lines[p + 1])
  BY <1>1 DEF FollowsAt
<1>2. CASE Succeeds(lines[p + 1])
  <2>1. HeaderEndsAt(EmptyLines, lines, p) \subseteq HeaderEndsAt(NoColon, lines, p)
    <3>1. EmptyLines \subseteq NoColon
      BY HttpAssumption DEF EmptyLines, NoColon
    <3> QED BY <3>1 DEF HeaderEndsAt
  <2>2. ASSUME NEW j \in HeaderEndsAt(NoColon, lines, p)
        PROVE  \E i \in HeaderEndsAt(EmptyLines, lines, p) : i <= j
    <3>1. j \in p + 2 .. Len(lines) /\ ~HasColon(lines[j])
      BY <2>2 DEF HeaderEndsAt, NoColon
    <3>2. PICK i \in p + 2 .. j : lines[i] \in EmptyLines
      BY <1>2, <3>1 DEF HeaderLines
    <3>3. i \in p + 2 .. Len(lines) /\ i <= j
      BY <3>1, <3>2, SMTT(30)
    <3> QED BY <3>2, <3>3 DEF HeaderEndsAt
  <2>3. FollowsAt(EmptyLines, lines, p) <=> FollowsAt(NoColon, lines, p)
    BY <2>1, <2>2 DEF FollowsAt
  <2>4. ASSUME FollowsAt(EmptyLines, lines, p)
        PROVE  EndAt(EmptyLines, lines, p) = EndAt(NoColon, lines, p)
    <3> DEFINE e == EndAt(EmptyLines, lines, p)
    <3>1. /\ e \in HeaderEndsAt(EmptyLines, lines, p) /\ e \in Nat
          /\ \A i \in HeaderEndsAt(EmptyLines, lines, p) : e <= i
      BY <2>4, EndAtFirst, EndAtBounds DEF FollowsAt
    <3> HIDE DEF e
    <3>2. ASSUME NEW j \in HeaderEndsAt(NoColon, lines, p) PROVE e <= j
      <4>1. PICK i \in HeaderEndsAt(EmptyLines, lines, p) : i <= j
        BY <2>2, <3>2
      <4>2. i \in Nat /\ j \in Nat
        BY <3>2, <4>1, SMTT(30) DEF HeaderEndsAt
      <4>3. e <= i
        BY <3>1, <4>1
      <4> QED BY <3>1, <4>1, <4>2, <4>3, SMTT(30)
    <3>3. e \in HeaderEndsAt(NoColon, lines, p)
      BY <2>1, <3>1
    <3>4. EndAt(NoColon, lines, p) = e
      BY <3>2, <3>3, EndAtIs
    <3> QED BY <3>4 DEF e
  <2> QED BY <2>3, <2>4
<1> QED BY <1>1, <1>2

\* Where the requests end, in both readings, while the header lines have a colon.
LEMMA SameEnds ==
  ASSUME NEW lines \in Seq(Lines), NEW n \in Nat, n <= Len(lines), WellFormed(lines, n)
  PROVE  \A k \in 0 .. n : Ends(lines)[k] = EndsAt(NoColon, lines)[k] /\ Ends(lines)[k] \in Nat
<1> DEFINE S == {k \in 0 .. n : Ends(lines)[k] = EndsAt(NoColon, lines)[k]
                                /\ Ends(lines)[k] \in Nat}
<1>1. Ends(lines) = EndsAt(EmptyLines, lines)
  BY ReferenceReading
<1>2. 0 \in S
  <2>1. Ends(lines)[0] = 0 /\ EndsAt(NoColon, lines)[0] = 0
    BY <1>1, EndsStep
  <2>2. 0 \in Nat /\ 0 \in 0 .. n
    BY SMTT(30)
  <2> QED BY <2>1, <2>2
<1>3. ASSUME NEW k \in 0 .. n - 1, k \in S PROVE k + 1 \in S
  <2> DEFINE p == Ends(lines)[k]
  <2>1. p \in Nat /\ EndsAt(NoColon, lines)[k] = p /\ EndsAt(EmptyLines, lines)[k] = p
    BY <1>1, <1>3
  <2>2. \A i \in HeaderLines(lines, p) : HasColon(lines[i])
    BY DEF WellFormed
  <2> HIDE DEF S, p
  <2>3. (k + 1) - 1 = k /\ k + 1 \in 0 .. n /\ k + 1 \in 1 .. Len(lines)
    <3>1. Len(lines) \in Nat
      BY LenProperties
    <3> QED BY <3>1, SMTT(30)
  <2>4. /\ EndsAt(NoColon, lines)[k + 1] =
             IF FollowsAt(NoColon, lines, p) THEN EndAt(NoColon, lines, p) ELSE p
        /\ EndsAt(EmptyLines, lines)[k + 1] =
             IF FollowsAt(EmptyLines, lines, p) THEN EndAt(EmptyLines, lines, p) ELSE p
    BY <2>1, <2>3, EndsStep
  <2>5. EndsAt(NoColon, lines)[k + 1] = EndsAt(EmptyLines, lines)[k + 1]
    BY <2>1, <2>2, <2>4, SameReading
  <2>6. FollowsAt(EmptyLines, lines, p) => EndAt(EmptyLines, lines, p) \in Nat
    BY <2>1, EndAtBounds DEF FollowsAt
  <2> QED BY <1>1, <2>1, <2>3, <2>4, <2>5, <2>6 DEF S
<1>4. \A k \in 0 .. n : k \in S
  <2> HIDE DEF S
  <2> QED BY <1>2, <1>3, UpTo
<1> QED BY <1>4

\* So both readings find the same requests.
LEMMA SameRequests ==
  ASSUME NEW lines \in Seq(Lines), NEW k \in Nat, k # 0, WellFormed(lines, k)
  PROVE  /\ HasRequest(lines, k) <=> HasRequestAt(NoColon, lines, k)
         /\ k <= Len(lines) => Request(lines, k) = RequestAt(NoColon, lines, k)
<1>1. CASE ~(k <= Len(lines))
  BY <1>1 DEF HasRequest, HasRequestAt
<1>2. CASE k <= Len(lines)
  <2>1. k \in 0 .. k /\ k - 1 \in 0 .. k /\ k - 1 \in 0 .. k - 1
    BY SMTT(30)
  <2>2. /\ Ends(lines)[k] = EndsAt(NoColon, lines)[k]
        /\ Ends(lines)[k - 1] = EndsAt(NoColon, lines)[k - 1] /\ Ends(lines)[k - 1] \in Nat
    BY <1>2, <2>1, SameEnds
  <2>3. \A i \in HeaderLines(lines, Ends(lines)[k - 1]) : HasColon(lines[i])
    BY <2>1 DEF WellFormed
  <2>4. /\ FollowsAt(EmptyLines, lines, Ends(lines)[k - 1])
             <=> FollowsAt(NoColon, lines, Ends(lines)[k - 1])
        /\ Ends(lines) = EndsAt(EmptyLines, lines)
        /\ HasRequest(lines, k) <=> HasRequestAt(EmptyLines, lines, k)
    BY <2>2, <2>3, SameReading, ReferenceReading
  <2> QED BY <2>2, <2>4 DEF HasRequestAt, Request, RequestAt
<1> QED BY <1>1, <1>2

\* The three cases of a pass of the loop: it has ended, it is on a request line,
\* or it is on a header line.
LEMMA PassCases ==
  ASSUME NEW r, NEW line \in Lines
  PROVE  /\ ~r.has_more => Pass(r, line) = r
         /\ r.has_more /\ ExpectRequestLine(r.c) =>
              LET d == [r.c EXCEPT !.request_ = ProcessRequestLine(@, line)] IN
              Pass(r, line) = IF Succeeds(line)
                              THEN Stage(ReceiveRequestLine(d), r.n + 1, TRUE, TRUE)
                              ELSE Stage(d, r.n, FALSE, FALSE)
         /\ r.has_more /\ ExpectHeaders(r.c) =>
              Pass(r, line) =
                IF line \in NoColon
                THEN Stage(ReceiveHeaders(r.c), r.n + 1, r.ok, ~GotAll(ReceiveHeaders(r.c)))
                ELSE Stage([r.c EXCEPT !.request_ = AddHeader(@, line)], r.n + 1, r.ok, TRUE)
<1>1. ExpectRequestLine(r.c) => ~ExpectHeaders(r.c)
  BY DEF ExpectRequestLine, ExpectHeaders
<1> QED BY <1>1 DEF Pass, NoColon

\* A request after its request line; of an earlier one it may have the version.
LEMMA ProcessedRequest ==
  ASSUME NEW request \in HttpRequests, NEW line \in Lines
  PROVE  /\ ProcessRequestLine(request, line) \in HttpRequests
         /\ Succeeds(line) =>
              /\ ProcessRequestLine(request, line).method_ = line.method
              /\ ProcessRequestLine(request, line).version_ = line.version
              /\ ProcessRequestLine(request, line).query_ = (request.query_ \/ line.query)
              /\ ProcessRequestLine(request, line).headers_ = request.headers_
<1>1. line \in [method : STRING, parts : Nat, query : BOOLEAN, version : STRING,
                field : STRING, value : STRING]
  BY HttpAssumption
<1> DEFINE m == IF line.parts >= 2 THEN set_method(request, line.method) ELSE request
           p == IF HasMethod(line) /\ line.parts >= 3
                THEN [m EXCEPT !.query_ = @ \/ line.query] ELSE m
<1>2. m \in HttpRequests /\ m.query_ = request.query_ /\ m.headers_ = request.headers_
  <2> DEFINE x == IF line.method \in Methods THEN line.method ELSE "kInvalid"
  <2>1. x \in STRING \cup {"kInvalid"}
    <3>1. line.method \in STRING
      BY <1>1
    <3> QED BY <3>1
  <2> HIDE DEF x
  <2>2. LET s == [request EXCEPT !.method_ = x] IN
        s \in HttpRequests /\ s.query_ = request.query_ /\ s.headers_ = request.headers_
    BY <2>1, SMTT(30) DEF HttpRequests
  <2> QED BY <2>2 DEF set_method, x
<1>3. HasMethod(line) => m.method_ = line.method
  BY <1>1, SMTT(30) DEF set_method, HttpRequests, HasMethod
<1> HIDE DEF m
<1>4. /\ p \in HttpRequests /\ p.method_ = m.method_ /\ p.headers_ = request.headers_
      /\ HasMethod(line) /\ line.parts >= 3 => p.query_ = (request.query_ \/ line.query)
  BY <1>1, <1>2, SMTT(30) DEF HttpRequests
<1>5. ProcessRequestLine(request, line) =
        IF Succeeds(line) THEN [p EXCEPT !.version_ = line.version] ELSE p
  BY DEF ProcessRequestLine, m
<1> HIDE DEF p
<1>6. Succeeds(line) => HasMethod(line) /\ line.parts >= 3
  BY <1>1, SMTT(30) DEF Succeeds
<1> QED BY <1>1, <1>3, <1>4, <1>5, <1>6, SMTT(30) DEF HttpRequests

\* A request with one more header.
LEMMA AddedHeader ==
  ASSUME NEW request \in HttpRequests, NEW line \in Lines
  PROVE  /\ AddHeader(request, line) \in HttpRequests
         /\ AddHeader(request, line).method_ = request.method_
         /\ AddHeader(request, line).version_ = request.version_
         /\ AddHeader(request, line).query_ = request.query_
         /\ AddHeader(request, line).headers_["Connection"] =
              IF line.field = "Connection" THEN line.value ELSE request.headers_["Connection"]
<1>1. line.field \in Fields /\ "Connection" \in Fields
  BY DEF Fields
<1>2. line.value \in STRING
  BY HttpAssumption
<1> QED BY <1>1, <1>2, SMTT(30) DEF AddHeader, HttpRequests

\* The first pass: on the request line.
LEMMA PassRequestLine ==
  ASSUME NEW r, NEW lines \in Seq(Lines), NEW p \in Nat, p < Len(lines),
         r \in [c : HttpContexts, n : Nat, ok : BOOLEAN, has_more : BOOLEAN],
         r.has_more, r.ok, r.n = 0, AtRequestLine(r.c, lines, p)
  PROVE  StageOK(Pass(r, lines[p + 1]), lines, p, p, 1)
<1> DEFINE line == lines[p + 1]
           request == ProcessRequestLine(r.c.request_, line)
           d == [r.c EXCEPT !.request_ = request]
<1>1. line \in Lines /\ Len(lines) \in Nat
  BY SMTT(30)
<1>2. r.c \in HttpContexts /\ r.c.request_ \in HttpRequests /\ ExpectRequestLine(r.c)
  BY DEF HttpContexts, AtRequestLine
<1> HIDE DEF line
<1>3. request \in HttpRequests
  BY <1>1, <1>2, ProcessedRequest
<1>4. Pass(r, line) = IF Succeeds(line) THEN Stage(ReceiveRequestLine(d), r.n + 1, TRUE, TRUE)
                      ELSE Stage(d, r.n, FALSE, FALSE)
  BY <1>1, <1>2, PassCases
<1>5. CASE ~Succeeds(line)
  <2>1. d \in HttpContexts /\ ExpectRequestLine(d)
    <3> HIDE DEF request
    <3> QED BY <1>2, <1>3, SMTT(30) DEF HttpContexts, ExpectRequestLine
  <2> HIDE DEF d
  <2>2. Pass(r, line) = Stage(d, 0, FALSE, FALSE)
    BY <1>4, <1>5
  <2>3. /\ Stage(d, 0, FALSE, FALSE)
             \in [c : HttpContexts, n : Nat, ok : BOOLEAN, has_more : BOOLEAN]
        /\ Stage(d, 0, FALSE, FALSE).c = d /\ Stage(d, 0, FALSE, FALSE).n = 0
        /\ ~Stage(d, 0, FALSE, FALSE).ok /\ ~Stage(d, 0, FALSE, FALSE).has_more
    BY <2>1, SMTT(30) DEF Stage
  <2> QED BY <1>5, <2>1, <2>2, <2>3 DEF StageOK, line
<1>6. CASE Succeeds(line)
  <2> DEFINE c == ReceiveRequestLine(d)
             s == Stage(c, 1, TRUE, TRUE)
  <2>1. c \in HttpContexts /\ ExpectHeaders(c) /\ c.request_ = request
    <3>1. d \in HttpContexts /\ d.request_ = request
      <4> HIDE DEF request
      <4> QED BY <1>2, <1>3, SMTT(30) DEF HttpContexts
    <3> HIDE DEF d, request
    <3> QED BY <3>1, SMTT(30) DEF HttpContexts, ExpectHeaders, ReceiveRequestLine
  <2>2. c.request_.query_ = line.query /\ c.request_.headers_["Connection"] = None
    <3>1. r.c.request_.query_ = FALSE /\ r.c.request_.headers_["Connection"] = None
      BY <1>6 DEF AtRequestLine, line
    <3>2. request.query_ = (FALSE \/ line.query) /\ request.headers_ = r.c.request_.headers_
      BY <1>1, <1>2, <1>6, <3>1, ProcessedRequest
    <3>3. line.query \in BOOLEAN
      BY <1>1, HttpAssumption
    <3> HIDE DEF c, request
    <3> QED BY <2>1, <3>1, <3>2, <3>3
  <2>3. c.request_.method_ = line.method /\ c.request_.version_ = line.version
    <3> HIDE DEF c
    <3> QED BY <1>1, <1>2, <1>6, <2>1, ProcessedRequest
  <2> HIDE DEF c
  <2>4. LastValue(lines, p + 2, (p + 2) - 1) = None
    <3>1. p + 2 .. (p + 2) - 1 = {}
      BY SMTT(30)
    <3> QED BY <3>1, LastValueNone DEF ConnectionLines
  <2>5. Described(c.request_) = RequestIn(lines, p, p + 2)
    BY <2>2, <2>3, <2>4 DEF Described, RequestIn, line
  <2>6. /\ p < p + 1 /\ p + 1 <= Len(lines) /\ (p + 1) + 1 = p + 2
        /\ p + 2 .. p + 1 = {} /\ r.n + 1 = 1
    BY <1>1, SMTT(30)
  <2>7. InHeaders(c, lines, p, p + 1)
    BY <1>6, <2>1, <2>5, <2>6 DEF InHeaders, line
  <2>8. Pass(r, line) = s
    BY <1>4, <1>6, <2>6 DEF c
  <2>9. /\ s \in [c : HttpContexts, n : Nat, ok : BOOLEAN, has_more : BOOLEAN]
        /\ s.c = c /\ s.n = 1 /\ s.ok /\ s.has_more
    BY <2>1, SMTT(30) DEF Stage
  <2> HIDE DEF s
  <2> QED BY <2>7, <2>8, <2>9 DEF StageOK, line
<1> QED BY <1>5, <1>6

\* A pass on a header line, or on the line that ends the headers.
LEMMA PassHeader ==
  ASSUME NEW r, NEW lines \in Seq(Lines), NEW p \in Nat, NEW q \in Nat, NEW n \in Nat,
         q + n < Len(lines),
         r \in [c : HttpContexts, n : Nat, ok : BOOLEAN, has_more : BOOLEAN],
         r.has_more, r.ok, r.n = n, InHeaders(r.c, lines, p, q + n)
  PROVE  StageOK(Pass(r, lines[q + n + 1]), lines, p, q, n + 1)
<1> DEFINE m == q + n
           line == lines[m + 1]
<1>1. line \in Lines /\ Len(lines) \in Nat /\ m \in Nat /\ m + 1 = q + (n + 1)
  BY SMTT(30)
<1>2. r.c \in HttpContexts /\ r.c.request_ \in HttpRequests /\ r.n + 1 = n + 1
  BY DEF HttpContexts
<1>3. InHeaders(r.c, lines, p, m)
  OBVIOUS
<1> HIDE DEF line, m
<1>4. /\ ExpectHeaders(r.c) /\ p < m /\ Succeeds(lines[p + 1])
      /\ \A i \in p + 2 .. m : lines[i] \notin NoColon
      /\ Described(r.c.request_) = RequestIn(lines, p, m + 1)
  BY <1>3 DEF InHeaders
<1>5. m + 1 <= Len(lines) /\ m + 1 \in p + 2 .. Len(lines) /\ m + 1 \in Nat
  BY <1>1, <1>4, SMTT(30) DEF m
<1>6. Pass(r, line) =
        IF line \in NoColon
        THEN Stage(ReceiveHeaders(r.c), n + 1, r.ok, ~GotAll(ReceiveHeaders(r.c)))
        ELSE Stage([r.c EXCEPT !.request_ = AddHeader(@, line)], n + 1, r.ok, TRUE)
  BY <1>1, <1>2, <1>4, PassCases
<1>7. CASE line \in NoColon
  <2> DEFINE c == ReceiveHeaders(r.c)
             s == Stage(c, n + 1, r.ok, ~GotAll(c))
  <2>1. c \in HttpContexts /\ GotAll(c) /\ c.request_ = r.c.request_
    BY <1>2, SMTT(30) DEF HttpContexts, ReceiveHeaders, GotAll
  <2>2. Pass(r, line) = s
    BY <1>6, <1>7
  <2> HIDE DEF c
  <2>3. /\ s \in [c : HttpContexts, n : Nat, ok : BOOLEAN, has_more : BOOLEAN]
        /\ s.c = c /\ s.n = n + 1 /\ s.ok /\ ~s.has_more
    <3>1. ~GotAll(c) <=> FALSE
      BY <2>1
    <3>2. s = Stage(c, n + 1, TRUE, FALSE)
      BY <3>1
    <3> QED BY <2>1, <3>2, SMTT(30) DEF Stage
  <2> HIDE DEF s
  <2>4. m + 1 \in HeaderEndsAt(NoColon, lines, p)
    BY <1>5, <1>7 DEF HeaderEndsAt, line
  <2>5. \A j \in HeaderEndsAt(NoColon, lines, p) : m + 1 <= j
    <3>1. \A j \in p + 2 .. Len(lines) : j \in p + 2 .. m \/ m + 1 <= j
      BY <1>1, SMTT(30)
    <3> QED BY <1>4, <3>1 DEF HeaderEndsAt
  <2>6. EndAt(NoColon, lines, p) = m + 1 /\ FollowsAt(NoColon, lines, p)
    BY <1>4, <2>4, <2>5, EndAtIs DEF FollowsAt
  <2>7. n + 1 \in 1 .. n + 1
    BY SMTT(30)
  <2> QED BY <1>1, <1>4, <2>1, <2>2, <2>3, <2>6, <2>7 DEF StageOK, line, m
<1>8. CASE line \notin NoColon
  <2> DEFINE request == AddHeader(r.c.request_, line)
             c == [r.c EXCEPT !.request_ = request]
             s == Stage(c, n + 1, r.ok, TRUE)
  <2>1. request \in HttpRequests
    BY <1>1, <1>2, AddedHeader
  <2>2. c \in HttpContexts /\ ExpectHeaders(c) /\ c.request_ = request
    <3> HIDE DEF request
    <3> QED BY <1>2, <1>4, <2>1, SMTT(30) DEF HttpContexts, ExpectHeaders
  <2>3. Pass(r, line) = s
    BY <1>6, <1>8
  <2> HIDE DEF c
  <2>4. /\ s \in [c : HttpContexts, n : Nat, ok : BOOLEAN, has_more : BOOLEAN]
        /\ s.c = c /\ s.n = n + 1 /\ s.ok /\ s.has_more
    BY <2>2, SMTT(30) DEF Stage
  <2> HIDE DEF s
  <2>5. p + 2 \in Nat /\ p + 2 <= m + 1 /\ (m + 1) - 1 = m /\ ((m + 1) + 1) - 1 = m + 1
    BY <1>1, <1>4, SMTT(30)
  <2>6. LastValue(lines, p + 2, m + 1) =
          IF line.field = "Connection" THEN line.value ELSE LastValue(lines, p + 2, m)
    BY <1>1, <2>5, LastValueNext DEF line
  <2>7. /\ r.c.request_.method_ = lines[p + 1].method
        /\ r.c.request_.version_ = lines[p + 1].version
        /\ r.c.request_.query_ = lines[p + 1].query
        /\ r.c.request_.headers_["Connection"] = LastValue(lines, p + 2, m)
    <3>1. Described(r.c.request_) =
            [method |-> lines[p + 1].method, version |-> lines[p + 1].version,
             query |-> lines[p + 1].query, connection |-> LastValue(lines, p + 2, m)]
      BY <1>4, <2>5 DEF RequestIn
    <3> QED BY <3>1, SMTT(30) DEF Described
  <2>8. /\ request.method_ = lines[p + 1].method
        /\ request.version_ = lines[p + 1].version
        /\ request.query_ = lines[p + 1].query
        /\ request.headers_["Connection"] = LastValue(lines, p + 2, m + 1)
    BY <1>1, <1>2, <2>6, <2>7, AddedHeader
  <2> HIDE DEF request
  <2>9. Described(c.request_) = RequestIn(lines, p, (m + 1) + 1)
    BY <2>2, <2>5, <2>8 DEF Described, RequestIn
  <2>10. /\ \A i \in p + 2 .. m + 1 : lines[i] \notin NoColon
         /\ p < m + 1
    <3>1. (\A i \in p + 2 .. m + 1 : i \in p + 2 .. m \/ i = m + 1) /\ p < m + 1
      BY <1>1, <1>4, SMTT(30)
    <3> QED BY <1>4, <1>8, <3>1 DEF line
  <2>11. InHeaders(c, lines, p, q + (n + 1))
    BY <1>1, <1>4, <1>5, <2>2, <2>9, <2>10 DEF InHeaders
  <2> QED BY <2>3, <2>4, <2>11 DEF StageOK, line, m
<1> QED BY <1>7, <1>8 DEF line, m

\* Every pass of the loop of ParseRequest() keeps StageOK.
LEMMA PassOK ==
  ASSUME NEW r, NEW lines \in Seq(Lines), NEW p \in Nat, NEW q \in Nat, NEW n \in Nat,
         q + n < Len(lines), StageOK(r, lines, p, q, n)
  PROVE  StageOK(Pass(r, lines[q + n + 1]), lines, p, q, n + 1)
<1>0. lines[q + n + 1] \in Lines
  <2>1. q + n + 1 \in 1 .. Len(lines)
    BY LenProperties, SMTT(30)
  <2> QED BY <2>1, ElementOfSeq
<1>1. r \in [c : HttpContexts, n : Nat, ok : BOOLEAN, has_more : BOOLEAN]
  BY DEF StageOK
<1>2. CASE r.has_more /\ r.ok /\ r.n = 0 /\ n = 0 /\ q = p /\ AtRequestLine(r.c, lines, p)
  <2>1. q + n + 1 = p + 1 /\ p < Len(lines) /\ n + 1 = 1
    BY <1>2, SMTT(30)
  <2> QED BY <1>1, <1>2, <2>1, PassRequestLine
<1>3. CASE r.has_more /\ r.ok /\ r.n = n /\ InHeaders(r.c, lines, p, q + n)
  BY <1>1, <1>3, PassHeader
<1>4. CASE /\ ~r.has_more /\ ~r.ok /\ r.n = 0
           /\ q = p /\ ExpectRequestLine(r.c) /\ p < Len(lines) /\ ~Succeeds(lines[p + 1])
  <2>1. Pass(r, lines[q + n + 1]) = r
    BY <1>4, <1>0, PassCases
  <2> QED BY <1>1, <1>4, <2>1 DEF StageOK
<1>5. CASE /\ ~r.has_more /\ r.ok /\ r.n \in 1 .. n
           /\ GotAll(r.c) /\ FollowsAt(NoColon, lines, p) /\ EndAt(NoColon, lines, p) = q + r.n
           /\ Described(r.c.request_) = RequestIn(lines, p, q + r.n)
  <2>1. Pass(r, lines[q + n + 1]) = r
    BY <1>5, <1>0, PassCases
  <2>2. r.n \in 1 .. n + 1
    BY <1>5, SMTT(30)
  <2> QED BY <1>1, <1>5, <2>1, <2>2 DEF StageOK
<1> QED BY <1>2, <1>3, <1>4, <1>5 DEF StageOK

\* The places in buffer and stream of the line of pass n + 1.
LEMMA PassPlaces ==
  ASSUME NEW b \in Nat, NEW q \in Nat, NEW n \in 0 .. b - 1
  PROVE  /\ n \in Nat /\ n + 1 \in Nat /\ n + 1 \in 1 .. b /\ (n + 1) - 1 = n
         /\ q + (n + 1) = q + n + 1 /\ q + n < q + b
BY SMTT(30)

\* The whole loop keeps StageOK, over the lines of the stream that follow place q.
LEMMA PassesOK ==
  ASSUME NEW c \in HttpContexts, NEW lines \in Seq(Lines), NEW b \in Seq(Lines),
         NEW p \in Nat, NEW q \in Nat, Follows(b, lines, q),
         StageOK(Stage(c, 0, TRUE, TRUE), lines, p, q, 0)
  PROVE  StageOK(Passes(c, b)[Len(b)], lines, p, q, Len(b))
<1> DEFINE S == {n \in Nat : StageOK(Passes(c, b)[n], lines, p, q, n)}
<1>0. Len(b) \in Nat /\ Len(b) \in 0 .. Len(b) /\ 0 \in Nat
  BY SMTT(30)
<1>1. 0 \in S
  BY <1>0, PassesStep
<1>2. \A n \in 0 .. Len(b) - 1 : n \in S => n + 1 \in S
  <2> SUFFICES ASSUME NEW n \in 0 .. Len(b) - 1, n \in S PROVE n + 1 \in S
    OBVIOUS
  <2>1. /\ n \in Nat /\ n + 1 \in Nat /\ n + 1 \in 1 .. Len(b) /\ (n + 1) - 1 = n
        /\ q + (n + 1) = q + n + 1 /\ q + n < q + Len(b)
    <3> HIDE DEF S
    <3> QED BY <1>0, PassPlaces
  <2>2. Passes(c, b)[n + 1] = Pass(Passes(c, b)[n], lines[q + n + 1])
    <3>1. Passes(c, b)[n + 1] = Pass(Passes(c, b)[(n + 1) - 1], b[n + 1])
      BY <2>1, PassesStep
    <3>2. b[n + 1] = lines[q + (n + 1)]
      BY <2>1 DEF Follows
    <3> QED BY <2>1, <3>1, <3>2
  <2>3. StageOK(Passes(c, b)[n + 1], lines, p, q, n + 1)
    <3>1. q + n < Len(lines)
      BY <2>1 DEF Follows
    <3>2. StageOK(Passes(c, b)[n], lines, p, q, n)
      OBVIOUS
    <3> HIDE DEF S
    <3> QED BY <2>1, <2>2, <3>1, <3>2, PassOK
  <2> QED BY <2>1, <2>3
<1>3. \A n \in 0 .. Len(b) : n \in S
  <2> HIDE DEF S
  <2> QED BY <1>0, <1>1, <1>2, UpTo
<1> QED BY <1>0, <1>3

\* The context is as the next call of OnMessage() needs it, with more lines.
LEMMA FirstStage ==
  ASSUME NEW c \in HttpContexts, NEW lines \in Seq(Lines), NEW more \in Seq(Lines),
         NEW p \in Nat, NEW q \in Nat,
         \/ q = p /\ AtRequestLine(c, lines, p)
         \/ q = Len(lines) /\ InHeaders(c, lines, p, q)
  PROVE  StageOK(Stage(c, 0, TRUE, TRUE), lines \o more, p, q, 0)
<1> DEFINE all == lines \o more
           s == Stage(c, 0, TRUE, TRUE)
<1>1. /\ all \in Seq(Lines) /\ Len(lines) \in Nat /\ Len(more) \in Nat
      /\ Len(all) = Len(lines) + Len(more)
      /\ \A i \in 1 .. Len(lines) : all[i] = lines[i]
  BY ConcatLines
<1> HIDE DEF all
<1>2. /\ s \in [c : HttpContexts, n : Nat, ok : BOOLEAN, has_more : BOOLEAN]
      /\ s.c = c /\ s.n = 0 /\ s.ok /\ s.has_more
  BY SMTT(30) DEF Stage
<1> HIDE DEF s
<1>3. CASE q = p /\ AtRequestLine(c, lines, p)
  <2>1. p < Len(lines) => p < Len(all) /\ p + 1 \in 1 .. Len(lines)
    BY <1>1, SMTT(30)
  <2>2. AtRequestLine(c, all, p)
    BY <1>1, <1>3, <2>1 DEF AtRequestLine
  <2> QED BY <1>2, <1>3, <2>2 DEF StageOK, s, all
<1>4. CASE q = Len(lines) /\ InHeaders(c, lines, p, q)
  <2>1. /\ q + 0 = q /\ q <= Len(all) /\ p < q
        /\ p + 1 \in 1 .. Len(lines) /\ \A i \in p + 2 .. q : i \in 1 .. Len(lines)
        /\ q + 1 \in Nat /\ p + 1 < q + 1 /\ q + 1 <= Len(lines) + 1
    <3>1. p < q
      BY <1>4 DEF InHeaders
    <3> QED BY <1>1, <1>4, <3>1, SMTT(30)
  <2>2. RequestIn(all, p, q + 1) = RequestIn(lines, p, q + 1)
    BY <2>1, SameRequest DEF all
  <2>3. InHeaders(c, all, p, q + 0)
    BY <1>1, <1>4, <2>1, <2>2 DEF InHeaders
  <2> QED BY <1>2, <2>3 DEF StageOK, s, all
<1> QED BY <1>3, <1>4

\* Places in a stream whose last b lines, after place q, are in the buffer.
LEMMA BufferPlaces ==
  ASSUME NEW b \in Nat, NEW q \in Nat
  PROVE  \A i \in 1 .. b : q + i \in 1 .. q + b
BY SMTT(30)

\* The buffer is the end of the stream when a message comes.
LEMMA BufferIsEnd ==
  ASSUME NEW lines \in Seq(Lines), NEW more \in Seq(Lines), NEW b \in Seq(Lines),
         NEW q \in Nat, Follows(b, lines, q)
  PROVE  /\ b \o more \in Seq(Lines)
         /\ Follows(b \o more, lines \o more, q)
<1> DEFINE all == lines \o more
           bm == b \o more
<1>1. /\ all \in Seq(Lines) /\ Len(lines) \in Nat /\ Len(more) \in Nat
      /\ Len(all) = Len(lines) + Len(more)
      /\ \A i \in 1 .. Len(lines) : all[i] = lines[i]
      /\ \A j \in 1 .. Len(more) : all[Len(lines) + j] = more[j]
  BY ConcatLines
<1>2. /\ bm \in Seq(Lines) /\ Len(b) \in Nat
      /\ Len(bm) = Len(b) + Len(more)
      /\ \A i \in 1 .. Len(b) : bm[i] = b[i]
      /\ \A j \in 1 .. Len(more) : bm[Len(b) + j] = more[j]
  BY ConcatLines
<1> HIDE DEF all, bm
<1>3. q + Len(bm) = Len(all)
  <2>1. Len(lines) \in Nat /\ Len(b) \in Nat /\ Len(more) \in Nat
    BY <1>1, <1>2
  <2>2. q + (Len(b) + Len(more)) = (q + Len(b)) + Len(more)
    BY <2>1, SMTT(30)
  <2>3. q + Len(b) = Len(lines)
    BY DEF Follows
  <2> QED BY <1>1, <1>2, <2>2, <2>3
<1>5. ASSUME NEW i \in 1 .. Len(bm) PROVE bm[i] = all[q + i]
  <2>1. CASE i \in 1 .. Len(b)
    <3>1. q + i \in 1 .. q + Len(b)
      BY <1>2, <2>1, BufferPlaces
    <3>2. q + Len(b) = Len(lines) /\ b[i] = lines[q + i]
      BY <2>1 DEF Follows
    <3>3. bm[i] = b[i]
      BY <1>2, <2>1
    <3>4. q + i \in 1 .. Len(lines)
      BY <3>1, <3>2
    <3>5. all[q + i] = lines[q + i]
      BY <1>1, <3>4
    <3> QED BY <3>2, <3>3, <3>5
  <2>2. CASE i \notin 1 .. Len(b)
    <3>1. PICK j \in 1 .. Len(more) : i = Len(b) + j /\ q + i = Len(lines) + j
      <4>1. i \in 1 .. Len(b) + Len(more)
        BY <1>2
      <4>2. Len(lines) \in Nat /\ Len(b) \in Nat /\ Len(more) \in Nat
        BY <1>1, <1>2
      <4>3. \A k \in 1 .. Len(b) + Len(more) : k \in 1 .. Len(b)
              \/ \E j \in 1 .. Len(more) : k = Len(b) + j /\ q + k = (q + Len(b)) + j
        <5>1. \A k \in 1 .. Len(b) + Len(more) : k \in 1 .. Len(b)
                \/ /\ k - Len(b) \in 1 .. Len(more) /\ k = Len(b) + (k - Len(b))
                   /\ q + k = (q + Len(b)) + (k - Len(b))
          BY <4>2, SMTT(30)
        <5> QED BY <5>1
      <4>4. q + Len(b) = Len(lines)
        BY DEF Follows
      <4> QED BY <2>2, <4>1, <4>3, <4>4
    <3> QED BY <1>1, <1>2, <3>1
  <2> QED BY <2>1, <2>2
<1> QED BY <1>2, <1>3, <1>5 DEF Follows, all, bm

\* Lines retrieved from the end of a stream leave a shorter end.
LEMMA EndOfEnd ==
  ASSUME NEW lines \in Seq(Lines), NEW b \in Seq(Lines), NEW q \in Nat,
         NEW n \in 0 .. Len(b), Follows(b, lines, q)
  PROVE  /\ SubSeq(b, n + 1, Len(b)) \in Seq(Lines)
         /\ Len(lines) - Len(SubSeq(b, n + 1, Len(b))) = q + n
         /\ Follows(SubSeq(b, n + 1, Len(b)), lines, q + n)
<1> DEFINE left == SubSeq(b, n + 1, Len(b))
<1>1. Len(b) \in Nat /\ Len(lines) \in Nat
  BY LenProperties
<1>2. /\ left \in Seq(Lines) /\ Len(left) = Len(b) - n
      /\ \A i \in 1 .. Len(b) - n : left[i] = b[n + i]
  BY DropFrom
<1> HIDE DEF left
<1>3. /\ (q + Len(b)) - (Len(b) - n) = q + n /\ (q + n) + (Len(b) - n) = q + Len(b)
      /\ \A i \in 1 .. Len(b) - n : n + i \in 1 .. Len(b) /\ q + (n + i) = (q + n) + i
  BY <1>1, SMTT(30)
<1>4. ASSUME NEW i \in 1 .. Len(left) PROVE left[i] = lines[(q + n) + i]
  <2>1. i \in 1 .. Len(b) - n
    BY <1>2
  <2>2. left[i] = b[n + i]
    BY <1>2, <2>1
  <2>3. b[n + i] = lines[q + (n + i)]
    BY <1>3, <2>1 DEF Follows
  <2> QED BY <1>3, <2>1, <2>2, <2>3
<1>5. q + Len(b) = Len(lines)
  BY DEF Follows
<1> QED BY <1>2, <1>3, <1>4, <1>5 DEF Follows, left

\* Requests served stay where they are when more lines come, and the next place
\* to look for one is the same.
LEMMA ServedStays ==
  ASSUME HttpInv, NEW more \in Seq(Lines)
  PROVE  LET all == input \o more
             n == Len(handled)
         IN /\ n \in Nat /\ EndsAt(NoColon, all)[n] = ServedUpTo /\ ServedUpTo \in Nat
            /\ \A k \in 1 .. n : /\ HasRequestAt(NoColon, all, k)
                                 /\ Described(handled[k]) = RequestAt(NoColon, all, k)
<1> DEFINE n == Len(handled)
<1>1. input \in Seq(Lines) /\ n \in Nat /\ n \in 0 .. n /\ DOMAIN handled = 1 .. n
  <2>1. n \in Nat /\ DOMAIN handled = 1 .. n
    BY LenProperties DEF HttpInv, HttpTypeOK
  <2>2. n \in 0 .. n
    BY <2>1, SMTT(30)
  <2> QED BY <2>1, <2>2 DEF HttpInv, HttpTypeOK
<1>2. /\ n <= Len(input)
      /\ \A k \in 1 .. n : /\ HasRequestAt(NoColon, input, k)
                           /\ Described(handled[k]) = RequestAt(NoColon, input, k)
  BY <1>1 DEF HttpInv, ParserInv
<1>3. EndsAt(NoColon, input \o more)[n] = ServedUpTo /\ ServedUpTo \in Nat
  BY <1>1, <1>2, EndsStay DEF ServedUpTo
<1>4. ASSUME NEW k \in 1 .. n
      PROVE  /\ HasRequestAt(NoColon, input \o more, k)
             /\ Described(handled[k]) = RequestAt(NoColon, input \o more, k)
  BY <1>1, <1>2, <1>4, RequestsStay
<1> QED BY <1>1, <1>3, <1>4

\* What ParseRequest() leaves when more lines have come: of all lines, those up to
\* place u have been retrieved.  Either the next request of the stream is there and
\* is the one in the context, or it is not and the parser waits for more of it.
ParseLeaves(all, r) ==
  LET n == Len(handled)
      p == ServedUpTo
      u == Len(all) - Len(r.b)
  IN /\ r.c \in HttpContexts /\ r.b \in Seq(Lines) /\ r.ok \in BOOLEAN
     /\ p <= u /\ Follows(r.b, all, u)
     /\ \/ /\ ~GotAll(r.c) /\ ~FollowsAt(NoColon, all, p)
           /\ \/ u = p /\ AtRequestLine(r.c, all, p)
              \/ u = Len(all) /\ InHeaders(r.c, all, p, u)
        \/ /\ GotAll(r.c) /\ r.ok /\ FollowsAt(NoColon, all, p) /\ EndAt(NoColon, all, p) = u
           /\ Described(r.c.request_) = RequestIn(all, p, u)

\* ParseRequest() leaves the buffer and the context so.
LEMMA ParseResult ==
  ASSUME HttpInv, NEW more \in Seq(Lines)
  PROVE  ParseLeaves(input \o more, ParseRequest(context, input_buffer \o more))
<1> DEFINE all == input \o more
           b == input_buffer \o more
           p == ServedUpTo
           q == ReadUpTo
           s == Passes(context, b)[Len(b)]
           r == ParseRequest(context, b)
<1>1. /\ input \in Seq(Lines) /\ input_buffer \in Seq(Lines) /\ context \in HttpContexts
      /\ Len(input) \in Nat /\ Len(input_buffer) \in Nat
  BY LenProperties DEF HttpInv, HttpTypeOK
<1>2. p \in Nat
  BY ServedStays
<1>3. /\ p <= q
      /\ Follows(input_buffer, input, q)
      /\ \/ q = p /\ AtRequestLine(context, input, p)
         \/ q = Len(input) /\ InHeaders(context, input, p, q)
  BY DEF HttpInv, ParserInv
<1> HIDE DEF p
<1>4. q \in Nat
  BY <1>1, <1>2, <1>3, SMTT(30) DEF ReadUpTo
<1> HIDE DEF q
<1>5. b \in Seq(Lines) /\ Follows(b, all, q)
  BY <1>1, <1>3, <1>4, BufferIsEnd
<1>6. all \in Seq(Lines) /\ Len(all) \in Nat /\ Len(b) \in Nat
  BY <1>1, <1>5, ConcatLines, LenProperties
<1>7. StageOK(Stage(context, 0, TRUE, TRUE), all, p, q, 0)
  BY <1>1, <1>2, <1>3, <1>4, FirstStage
<1> HIDE DEF all, b
<1>8. StageOK(s, all, p, q, Len(b))
  BY <1>1, <1>2, <1>4, <1>5, <1>6, <1>7, PassesOK
<1>9. r = [c |-> s.c, b |-> SubSeq(b, s.n + 1, Len(b)), ok |-> s.ok]
  BY DEF ParseRequest
<1> HIDE DEF s, r
<1>10. /\ s.c \in HttpContexts /\ s.n \in Nat /\ s.ok \in BOOLEAN
       /\ s.n \in 0 .. Len(b)
  <2>1. s.c \in HttpContexts /\ s.n \in Nat /\ s.ok \in BOOLEAN
    BY <1>8 DEF StageOK
  <2>2. s.n = 0 \/ s.n = Len(b) \/ s.n \in 1 .. Len(b)
    BY <1>8 DEF StageOK
  <2> QED BY <1>6, <2>1, <2>2, SMTT(30)
<1>11. r.c = s.c /\ r.b = SubSeq(b, s.n + 1, Len(b)) /\ r.ok = s.ok
  BY <1>9
<1> DEFINE u == Len(all) - Len(r.b)
<1>12. r.b \in Seq(Lines) /\ u = q + s.n /\ Follows(r.b, all, u)
  <2> DEFINE left == SubSeq(b, s.n + 1, Len(b))
  <2>1. /\ left \in Seq(Lines) /\ Len(all) - Len(left) = q + s.n
        /\ Follows(left, all, q + s.n)
    <3>1. b \in Seq(Lines) /\ all \in Seq(Lines) /\ q \in Nat /\ s.n \in 0 .. Len(b)
      BY <1>4, <1>5, <1>6, <1>10
    <3>2. ASSUME NEW m \in 0 .. Len(b)
          PROVE  /\ SubSeq(b, m + 1, Len(b)) \in Seq(Lines)
                 /\ Len(all) - Len(SubSeq(b, m + 1, Len(b))) = q + m
                 /\ Follows(SubSeq(b, m + 1, Len(b)), all, q + m)
      <4> HIDE DEF left, u
      <4> QED BY <1>5, <3>1, EndOfEnd
    <3> QED BY <3>1, <3>2
  <2> HIDE DEF left
  <2>2. r.b = left
    BY <1>11 DEF left
  <2> QED BY <2>1, <2>2
<1> HIDE DEF u
<1>13. p <= u
  BY <1>2, <1>3, <1>4, <1>10, <1>12, SMTT(30)
<1>14. \/ /\ ~GotAll(r.c) /\ ~FollowsAt(NoColon, all, p)
          /\ \/ u = p /\ AtRequestLine(r.c, all, p)
             \/ u = Len(all) /\ InHeaders(r.c, all, p, u)
       \/ /\ GotAll(r.c) /\ r.ok /\ FollowsAt(NoColon, all, p) /\ EndAt(NoColon, all, p) = u
          /\ Described(r.c.request_) = RequestIn(all, p, u)
  <2>1. CASE /\ s.has_more /\ s.ok /\ s.n = 0 /\ Len(b) = 0
             /\ q = p /\ AtRequestLine(s.c, all, p)
    <3>1. u = p /\ p = Len(all) /\ p + 2 .. Len(all) = {}
      <4>1. q + Len(b) = Len(all)
        BY <1>5 DEF Follows
      <4> QED BY <1>2, <1>4, <1>6, <1>12, <2>1, <4>1, SMTT(30)
    <3>2. ~FollowsAt(NoColon, all, p)
      BY <3>1 DEF FollowsAt, HeaderEndsAt
    <3>3. ~GotAll(s.c)
      BY <2>1 DEF AtRequestLine, ExpectRequestLine, GotAll
    <3> QED BY <1>11, <2>1, <3>1, <3>2, <3>3
  <2>2. CASE s.has_more /\ s.ok /\ s.n = Len(b) /\ InHeaders(s.c, all, p, q + Len(b))
    <3>1. u = Len(all) /\ InHeaders(s.c, all, p, u)
      <4>1. q + Len(b) = Len(all)
        BY <1>5 DEF Follows
      <4> QED BY <1>12, <2>2, <4>1
    <3>2. ~FollowsAt(NoColon, all, p)
      BY <3>1 DEF FollowsAt, HeaderEndsAt, InHeaders
    <3>3. ~GotAll(s.c)
      BY <2>2 DEF InHeaders, ExpectHeaders, GotAll
    <3> QED BY <1>11, <3>1, <3>2, <3>3
  <2>3. CASE /\ ~s.has_more /\ ~s.ok /\ s.n = 0
             /\ q = p /\ ExpectRequestLine(s.c) /\ p < Len(all) /\ ~Succeeds(all[p + 1])
    <3>1. u = p
      BY <1>2, <1>12, <2>3, SMTT(30)
    <3>2. ~FollowsAt(NoColon, all, p)
      BY <2>3 DEF FollowsAt
    <3>3. ~GotAll(s.c) /\ AtRequestLine(s.c, all, p)
      BY <2>3 DEF AtRequestLine, ExpectRequestLine, GotAll
    <3> QED BY <1>11, <3>1, <3>2, <3>3
  <2>4. CASE /\ ~s.has_more /\ s.ok /\ s.n \in 1 .. Len(b)
             /\ GotAll(s.c) /\ FollowsAt(NoColon, all, p) /\ EndAt(NoColon, all, p) = q + s.n
             /\ Described(s.c.request_) = RequestIn(all, p, q + s.n)
    BY <1>11, <1>12, <2>4
  <2> QED BY <1>8, <2>1, <2>2, <2>3, <2>4 DEF StageOK
<1> QED BY <1>10, <1>11, <1>12, <1>13, <1>14 DEF ParseLeaves, all, b, r, p, u

\* A context that waits for a request line and has a request without headers.
LEMMA WaitingContext ==
  ASSUME NEW y \in HttpRequests, y.query_ = FALSE, y.headers_["Connection"] = None,
         NEW lines, NEW p
  PROVE  /\ [state_ |-> "kExpectRequestLine", request_ |-> y] \in HttpContexts
         /\ AtRequestLine([state_ |-> "kExpectRequestLine", request_ |-> y], lines, p)
<1> DEFINE d == [state_ |-> "kExpectRequestLine", request_ |-> y]
<1>1. d.state_ = "kExpectRequestLine" /\ d.request_ = y /\ d \in HttpContexts
  BY DEF HttpContexts
<1> HIDE DEF d
<1> QED BY <1>1 DEF AtRequestLine, ExpectRequestLine, d

\* OnConnection() has just given the connection its context.
LEMMA HttpInitInv == HttpInit => HttpInv
<1> SUFFICES ASSUME HttpInit PROVE HttpInv
  OBVIOUS
<1>1. NewRequest \in HttpRequests /\ NewRequest.query_ = FALSE
      /\ NewRequest.headers_["Connection"] = None
  BY DEF NewRequest, HttpRequests, Fields
<1> DEFINE x == [NewRequest EXCEPT !.remote_addr_ = TRUE]
<1>2. x \in HttpRequests /\ x.query_ = NewRequest.query_ /\ x.headers_ = NewRequest.headers_
  <2> SUFFICES ASSUME NEW y \in HttpRequests
               PROVE  LET z == [y EXCEPT !.remote_addr_ = TRUE] IN
                      z \in HttpRequests /\ z.query_ = y.query_ /\ z.headers_ = y.headers_
    BY <1>1
  <2> QED BY DEF HttpRequests
<1>3. context \in HttpContexts /\ AtRequestLine(context, input, 0)
  <2>1. context = [state_ |-> "kExpectRequestLine", request_ |-> x]
    BY DEF HttpInit, NewContext
  <2>2. x.query_ = FALSE /\ x.headers_["Connection"] = None
    BY <1>1, <1>2
  <2> HIDE DEF x
  <2> QED BY <1>2, <2>1, <2>2, WaitingContext
<1>4. /\ \A S : <<>> \in Seq(S)
      /\ Len(input) = 0 /\ Len(handled) = 0 /\ Len(input_buffer) = 0
  BY EmptySeq DEF HttpInit
<1>5. EndsAt(NoColon, input)[0] = 0
  BY <1>4, EndsStep DEF HttpInit
<1>6. ServedUpTo = 0 /\ ReadUpTo = 0
  BY <1>4, <1>5, SMTT(30) DEF ServedUpTo, ReadUpTo
<1>7. 0 <= 0 /\ DOMAIN handled = {} /\ DOMAIN sent = {} /\ 1 .. 0 = {} /\ Len(sent) = 0
  BY SMTT(30) DEF HttpInit
<1>8. HttpTypeOK
  BY <1>3, <1>4 DEF HttpTypeOK, HttpInit
<1>9. ParserInv
  <2>1. 0 + 0 = 0
    BY SMTT(30)
  <2> QED BY <1>3, <1>4, <1>6, <1>7, <2>1 DEF ParserInv, HttpInit, Follows
<1>10. ResponsesOK(conn, sent, handled)
  BY <1>4, <1>7 DEF ResponsesOK, HttpInit
<1> QED BY <1>8, <1>9, <1>10 DEF HttpInv

\* The lines of a message, of which HttpNext takes any number, are a sequence.
LEMMA MessageLines ==
  ASSUME NEW m \in Int, NEW n \in 0 .. m, NEW lines \in [1 .. n -> Lines]
  PROVE  lines \in Seq(Lines)
BY SMTT(30)

\* Append() to the requests served, and to what has been sent.
LEMMA OneMore ==
  ASSUME NEW S, NEW s \in Seq(S), NEW x \in S
  PROVE  /\ Append(s, x) \in Seq(S)
         /\ Len(s) \in Nat /\ Len(Append(s, x)) = Len(s) + 1
         /\ \A i \in 1 .. Len(s) : Append(s, x)[i] = s[i]
         /\ Append(s, x)[Len(s) + 1] = x
BY SMTT(30)

\* AppendToBuffer() gives the length of a response that keeps the connection.
LEMMA ResponseIs ==
  ASSUME NEW status \in Nat, NEW keepalive \in BOOLEAN
  PROVE  /\ AppendToBuffer(status, keepalive) \in HttpResponses
         /\ AppendToBuffer(status, keepalive).status = status
         /\ AppendToBuffer(status, keepalive).length = keepalive
BY DEF AppendToBuffer, HttpResponses

\* An answer that http_callback_ may give is not that to a bad request, and keeps
\* the connection only when the request does not close it.
LEMMA AnswerIs ==
  ASSUME NEW request \in HttpRequests, NEW a \in Answers(request)
  PROVE  /\ a.status \in Nat /\ a.status # 400
         /\ a.keepalive \in BOOLEAN /\ (a.keepalive => ~Close(request))
<1>1. Close(request) \in BOOLEAN
  BY DEF Close
<1>2. CASE a = [status |-> 404, keepalive |-> FALSE]
  <2>1. ASSUME NEW s, a = [status |-> s, keepalive |-> FALSE]
        PROVE  a.status = s /\ a.keepalive = FALSE
    BY <2>1
  <2>2. a.status = 404 /\ a.keepalive = FALSE
    BY <1>2, <2>1
  <2>3. a.status \in Nat /\ a.status # 400
    BY <2>2, SMTT(30)
  <2> QED BY <2>2, <2>3
<1>3. CASE a \in [status : {200}, keepalive : {FALSE, ~Close(request)}]
  <2>1. ASSUME NEW s, a \in [status : {s}, keepalive : {FALSE, ~Close(request)}]
        PROVE  a.status = s /\ a.keepalive \in {FALSE, ~Close(request)}
    BY <2>1
  <2>2. a.status = 200 /\ a.keepalive \in {FALSE, ~Close(request)}
    BY <1>3, <2>1
  <2>3. a.status \in Nat /\ a.status # 400
    BY <2>2, SMTT(30)
  <2>4. a.keepalive \in BOOLEAN /\ (a.keepalive => ~Close(request))
    BY <1>1, <2>2
  <2> QED BY <2>3, <2>4
<1>4. \/ a = [status |-> 404, keepalive |-> FALSE]
      \/ a \in [status : {200}, keepalive : {FALSE, ~Close(request)}]
  <2>1. \A x, S : a \in {x} \cup S => a = x \/ a \in S
    OBVIOUS
  <2> QED BY <2>1 DEF Answers
<1> QED BY <1>2, <1>3, <1>4

\* A response that is right stays right when the next request is served.
LEMMA ResponseStays ==
  ASSUME NEW state, NEW out \in Seq(HttpResponses), NEW served \in Seq(HttpRequests),
         NEW request \in HttpRequests, NEW i \in 1 .. Len(out),
         ResponseOK(state, out, served, i)
  PROVE  ResponseOK(state, out, Append(served, request), i)
<1> DEFINE more == Append(served, request)
<1>1. /\ Len(served) \in Nat /\ Len(more) = Len(served) + 1
      /\ \A k \in 1 .. Len(served) : more[k] = served[k]
  BY SMTT(30)
<1> HIDE DEF more
<1>2. i <= Len(served) => i <= Len(more) /\ i \in 1 .. Len(served)
  BY <1>1, SMTT(30)
<1> QED BY <1>1, <1>2 DEF ResponseOK, more

\* So it does when one more response is sent, if it has a length.
LEMMA ResponseKeeps ==
  ASSUME NEW state, NEW other, NEW out \in Seq(HttpResponses), NEW served,
         NEW x \in HttpResponses, NEW i \in 1 .. Len(out),
         ResponseOK(state, out, served, i), out[i].length
  PROVE  ResponseOK(other, Append(out, x), served, i)
<1> DEFINE longer == Append(out, x)
<1>1. longer[i] = out[i] /\ i # Len(longer)
  BY SMTT(30)
<1> HIDE DEF longer
<1> QED BY <1>1 DEF ResponseOK, longer

\* The last response is the one that Send() has just been given.
LEMMA LastResponse ==
  ASSUME NEW S, NEW s \in Seq(S), NEW x \in S
  PROVE  /\ Append(s, x) # <<>> /\ Append(s, x)[Len(Append(s, x))] = x
         /\ \A i \in 1 .. Len(Append(s, x)) : i \in 1 .. Len(s) \/ i = Len(Append(s, x))
BY SMTT(30)

\* RequestDone() sends an answer with a length when it keeps the connection.
LEMMA ResponsesAnswered ==
  ASSUME NEW state \in {"kConnected", "kDisconnecting"}, NEW out \in Seq(HttpResponses),
         NEW served \in Seq(HttpRequests), NEW request \in HttpRequests,
         ResponsesOK(state, out, served), NEW a \in Answers(request)
  PROVE  LET done == RequestDone(state, out, a.status, a.keepalive) IN
         /\ done.out \in Seq(HttpResponses) /\ done.state \in {"kConnected", "kDisconnecting"}
         /\ ResponsesOK(done.state, done.out, Append(served, request))
<1> DEFINE done == RequestDone(state, out, a.status, a.keepalive)
           x == AppendToBuffer(a.status, a.keepalive)
           more == Append(served, request)
           longer == Append(out, x)
<1>2. /\ x \in HttpResponses /\ x.status # 400 /\ x.length = a.keepalive
      /\ a.keepalive \in BOOLEAN /\ (a.keepalive => ~Close(request))
  <2>1. /\ a.status \in Nat /\ a.status # 400
        /\ a.keepalive \in BOOLEAN /\ (a.keepalive => ~Close(request))
    BY AnswerIs
  <2>2. ASSUME NEW status \in Nat, NEW keepalive \in BOOLEAN
        PROVE  LET y == AppendToBuffer(status, keepalive) IN
               y \in HttpResponses /\ y.status = status /\ y.length = keepalive
    <3> HIDE DEF done, x, more, longer
    <3> QED BY ResponseIs
  <2>3. x \in HttpResponses /\ x.status = a.status /\ x.length = a.keepalive
    BY <2>1, <2>2
  <2> HIDE DEF x
  <2> QED BY <2>1, <2>3
<1>3. done.out = SendTo(state, out, x) /\ done.state = AfterShutdown(state, ~a.keepalive)
  BY DEF RequestDone
<1> HIDE DEF done, x
<1>4. /\ Len(served) \in Nat /\ Len(more) = Len(served) + 1
      /\ more[Len(served) + 1] = request
  BY OneMore
<1>5. longer \in Seq(HttpResponses) /\ Len(longer) = Len(out) + 1
  BY <1>2, SMTT(30)
<1>6. /\ longer # <<>> /\ longer[Len(longer)] = x
      /\ \A i \in 1 .. Len(longer) : i \in 1 .. Len(out) \/ i = Len(longer)
  <2>1. x \in HttpResponses
    BY <1>2
  <2> QED BY <2>1, SMTT(30)
<1>7. ASSUME NEW i \in 1 .. Len(out) PROVE ResponseOK(state, out, more, i)
  <2>1. ResponseOK(state, out, served, i)
    BY DEF ResponsesOK
  <2> QED BY <2>1, ResponseStays
<1> HIDE DEF more
<1>8. CASE state = "kConnected"
  <2>1. Len(out) = Len(served)
    BY <1>8 DEF ResponsesOK
  <2>2. ASSUME NEW i \in 1 .. Len(out) PROVE out[i].length
    BY <1>7, <1>8 DEF ResponseOK
  <2>3. done.out = longer
    BY <1>3, <1>8 DEF SendTo
  <2>4. done.state = IF a.keepalive THEN "kConnected" ELSE "kDisconnecting"
    BY <1>2, <1>3, <1>8 DEF AfterShutdown
  <2>5. ASSUME NEW i \in 1 .. Len(out) PROVE ResponseOK(done.state, longer, more, i)
    BY <1>2, <1>7, <2>2, ResponseKeeps
  <2> HIDE DEF longer
  <2>6. Len(longer) = Len(more) /\ Len(longer) <= Len(more) /\ more[Len(longer)] = request
    <3>1. Len(longer) = Len(more) /\ Len(longer) <= Len(more)
      BY <1>4, <1>5, <2>1, SMTT(30)
    <3> QED BY <1>4, <3>1
  <2>7. ResponseOK(done.state, longer, more, Len(longer))
    BY <1>2, <1>6, <2>4, <2>6 DEF ResponseOK
  <2>8. \A i \in 1 .. Len(longer) : ResponseOK(done.state, longer, more, i)
    BY <1>6, <2>5, <2>7
  <2>9. done.state = "kDisconnecting" => ~longer[Len(longer)].length
    BY <1>2, <1>6, <2>4
  <2>10. ResponsesOK(done.state, longer, more)
    BY <1>6, <2>6, <2>8, <2>9 DEF ResponsesOK
  <2> QED BY <1>2, <1>5, <2>3, <2>4, <2>10 DEF done, more
<1>9. CASE state = "kDisconnecting"
  <2>1. done.out = out /\ done.state = state
    BY <1>3, <1>9 DEF SendTo, AfterShutdown
  <2>2. ResponsesOK(state, out, more)
    BY <1>7, <1>9 DEF ResponsesOK
  <2> QED BY <1>9, <2>1, <2>2 DEF done, more
<1> QED BY <1>8, <1>9 DEF done

\* The answer to a bad request has no length, and the connection is shut down.
LEMMA ResponsesBad ==
  ASSUME NEW state \in {"kConnected", "kDisconnecting"}, NEW out \in Seq(HttpResponses),
         NEW served \in Seq(HttpRequests), ResponsesOK(state, out, served)
  PROVE  /\ SendTo(state, out, BadRequest) \in Seq(HttpResponses)
         /\ ResponsesOK("kDisconnecting", SendTo(state, out, BadRequest), served)
<1> DEFINE longer == Append(out, BadRequest)
<1>1. BadRequest \in HttpResponses /\ BadRequest.status = 400 /\ BadRequest.length = FALSE
  <2>1. 400 \in Nat
    BY SMTT(30)
  <2> QED BY <2>1 DEF BadRequest, HttpResponses
<1>2. longer \in Seq(HttpResponses)
  BY <1>1, OneMore
<1>3. /\ longer # <<>> /\ longer[Len(longer)] = BadRequest
      /\ \A i \in 1 .. Len(longer) : i \in 1 .. Len(out) \/ i = Len(longer)
  <2> HIDE DEF longer
  <2>1. ASSUME NEW x \in HttpResponses
        PROVE  /\ Append(out, x) # <<>> /\ Append(out, x)[Len(Append(out, x))] = x
               /\ \A i \in 1 .. Len(Append(out, x)) :
                    i \in 1 .. Len(out) \/ i = Len(Append(out, x))
    BY LastResponse
  <2> QED BY <1>1, <2>1 DEF longer
<1>4. CASE state = "kConnected"
  <2>1. ASSUME NEW i \in 1 .. Len(out) PROVE ResponseOK("kDisconnecting", longer, served, i)
    <3>1. ResponseOK(state, out, served, i)
      BY DEF ResponsesOK
    <3>2. out[i].length
      BY <1>4, <3>1 DEF ResponseOK
    <3>3. ASSUME NEW x \in HttpResponses
          PROVE  ResponseOK("kDisconnecting", Append(out, x), served, i)
      <4> HIDE DEF longer
      <4> QED BY <3>1, <3>2, ResponseKeeps
    <3> QED BY <1>1, <3>3
  <2> HIDE DEF longer
  <2>2. ResponseOK("kDisconnecting", longer, served, Len(longer))
    BY <1>1, <1>3 DEF ResponseOK
  <2>3. \A i \in 1 .. Len(longer) : ResponseOK("kDisconnecting", longer, served, i)
    BY <1>3, <2>1, <2>2
  <2>4. ResponsesOK("kDisconnecting", longer, served)
    BY <1>1, <1>3, <2>3 DEF ResponsesOK
  <2>5. SendTo(state, out, BadRequest) = longer
    BY <1>4 DEF SendTo, longer
  <2> QED BY <1>2, <2>4, <2>5
<1>5. CASE state = "kDisconnecting"
  <2>1. SendTo(state, out, BadRequest) = out
    BY <1>5 DEF SendTo
  <2> QED BY <1>5, <2>1
<1> QED BY <1>4, <1>5

\* Reset() makes the context wait for a request line, with nothing of the request
\* it had but the version.
LEMMA ResetContext ==
  ASSUME NEW c \in HttpContexts, NEW lines, NEW p
  PROVE  Reset(c) \in HttpContexts /\ AtRequestLine(Reset(c), lines, p)
<1> DEFINE x == [NewRequest EXCEPT !.version_ = c.request_.version_]
<1>1. /\ NewRequest \in HttpRequests /\ NewRequest.query_ = FALSE
      /\ NewRequest.headers_["Connection"] = None
  BY DEF NewRequest, HttpRequests, Fields
<1>2. c.request_.version_ \in STRING \cup {"kUnknown"}
  BY DEF HttpContexts, HttpRequests
<1>3. x \in HttpRequests /\ x.query_ = NewRequest.query_ /\ x.headers_ = NewRequest.headers_
  <2> SUFFICES ASSUME NEW y \in HttpRequests, NEW v \in STRING \cup {"kUnknown"}
               PROVE  LET z == [y EXCEPT !.version_ = v] IN
                      z \in HttpRequests /\ z.query_ = y.query_ /\ z.headers_ = y.headers_
    BY <1>1, <1>2
  <2> QED BY DEF HttpRequests
<1>4. Reset(c) = [state_ |-> "kExpectRequestLine", request_ |-> x]
  BY DEF Reset, swap
<1> HIDE DEF x
<1>5. x.query_ = FALSE /\ x.headers_["Connection"] = None
  BY <1>1, <1>3
<1> QED BY <1>3, <1>4, <1>5, WaitingContext

\* The places of the next request in the stream, which has at least two lines.
LEMMA NextPlaces ==
  ASSUME NEW n \in Nat, NEW p \in Nat, NEW l \in Nat, NEW e \in p + 2 .. l, n <= p
  PROVE  /\ n + 1 \in 1 .. l /\ n + 1 <= l /\ (n + 1) - 1 = n /\ n + 1 <= e
         /\ e <= l /\ n + 1 \in Nat
BY SMTT(30)

\* When ParseRequest() has all of a request, it is the next one of the stream.
LEMMA NextRequest ==
  ASSUME HttpInv, NEW more \in Seq(Lines), NEW r, ParseLeaves(input \o more, r), GotAll(r.c)
  PROVE  LET all == input \o more
             next == Len(handled) + 1
             u == Len(all) - Len(r.b)
         IN /\ next <= Len(all) /\ next <= u /\ EndsAt(NoColon, all)[next] = u
            /\ HasRequestAt(NoColon, all, next) /\ Described(r.c.request_) = RequestAt(NoColon, all, next)
<1> DEFINE all == input \o more
           n == Len(handled)
           p == ServedUpTo
           u == Len(all) - Len(r.b)
<1>1. n \in Nat /\ EndsAt(NoColon, all)[n] = p /\ p \in Nat
  BY ServedStays
<1>2. /\ FollowsAt(NoColon, all, p) /\ EndAt(NoColon, all, p) = u
      /\ Described(r.c.request_) = RequestIn(all, p, u)
  BY DEF ParseLeaves
<1>3. n <= p
  BY DEF HttpInv, ParserInv
<1>4. all \in Seq(Lines) /\ Len(all) \in Nat
  <2>1. input \in Seq(Lines)
    BY DEF HttpInv, HttpTypeOK
  <2> QED BY <2>1, ConcatLines, LenProperties
<1> HIDE DEF all, n, p, u
<1>5. u \in p + 2 .. Len(all)
  <2>1. HeaderEndsAt(NoColon, all, p) # {}
    BY <1>2 DEF FollowsAt
  <2>2. EndAt(NoColon, all, p) \in p + 2 .. Len(all)
    BY <1>1, <1>4, <2>1, EndAtBounds
  <2> QED BY <1>2, <2>2
<1>6. n + 1 \in 1 .. Len(all) /\ n + 1 <= Len(all) /\ (n + 1) - 1 = n /\ n + 1 <= u
  BY <1>1, <1>3, <1>4, <1>5, NextPlaces
<1>7. EndsAt(NoColon, all)[n + 1] = u
  <2>1. EndsAt(NoColon, all)[n + 1] =
          LET x == EndsAt(NoColon, all)[(n + 1) - 1]
          IN IF FollowsAt(NoColon, all, x) THEN EndAt(NoColon, all, x) ELSE x
    BY <1>4, <1>6, EndsStep
  <2> QED BY <1>1, <1>2, <1>6, <2>1
<1>8. HasRequestAt(NoColon, all, n + 1) /\ Described(r.c.request_) = RequestAt(NoColon, all, n + 1)
  BY <1>1, <1>2, <1>6, <1>7 DEF HasRequestAt, RequestAt
<1> QED BY <1>6, <1>7, <1>8 DEF all, n, u

\* When it has not, the next one is not in the stream yet.
LEMMA NoRequest ==
  ASSUME HttpInv, NEW more \in Seq(Lines), NEW r, ParseLeaves(input \o more, r), ~GotAll(r.c)
  PROVE  ~HasRequestAt(NoColon, input \o more, Len(handled) + 1)
<1>1. Len(handled) \in Nat /\ EndsAt(NoColon, input \o more)[Len(handled)] = ServedUpTo
  BY ServedStays
<1>2. ~FollowsAt(NoColon, input \o more, ServedUpTo)
  BY DEF ParseLeaves
<1>3. (Len(handled) + 1) - 1 = Len(handled)
  BY <1>1, SMTT(30)
<1> QED BY <1>1, <1>2, <1>3 DEF HasRequestAt

\* One call of OnMessage(): it serves the next request when all of it is there.
LEMMA OnMessageStep ==
  ASSUME HttpInv, NEW lines \in Seq(Lines), NEW p \in BOOLEAN, OnMessage(lines, p)
  PROVE  /\ HttpInv'
         /\ IF HasRequestAt(NoColon, input', Len(handled) + 1)
            THEN /\ Len(handled') = Len(handled) + 1
                 /\ Described(handled'[Len(handled) + 1]) = RequestAt(NoColon, input', Len(handled) + 1)
            ELSE handled' = handled
<1> DEFINE all == input \o lines
           r == ParseRequest(context, input_buffer \o lines)
           n == Len(handled)
           u == Len(all) - Len(r.b)
           state == AfterShutdown(conn, ~r.ok)
           out == IF r.ok THEN sent ELSE SendTo(conn, sent, BadRequest)
<1>1. ParseLeaves(all, r)
  BY ParseResult
<1>2. /\ n \in Nat /\ EndsAt(NoColon, all)[n] = ServedUpTo
      /\ \A k \in 1 .. n : /\ HasRequestAt(NoColon, all, k)
                           /\ Described(handled[k]) = RequestAt(NoColon, all, k)
  BY ServedStays
<1>3. /\ input' = all /\ input_buffer' = r.b
      /\ \/ /\ GotAll(r.c) /\ OnRequest(r.c.request_, state, out) /\ context' = Reset(r.c)
         \/ /\ ~GotAll(r.c) /\ context' = r.c /\ sent' = out /\ conn' = state
            /\ handled' = handled
  BY DEF OnMessage
<1>4. GotAll(r.c) =>
        /\ n + 1 <= Len(all) /\ n + 1 <= u /\ EndsAt(NoColon, all)[n + 1] = u
        /\ HasRequestAt(NoColon, all, n + 1) /\ Described(r.c.request_) = RequestAt(NoColon, all, n + 1)
  BY <1>1, NextRequest
<1>5. ~GotAll(r.c) => ~HasRequestAt(NoColon, all, n + 1)
  BY <1>1, NoRequest
<1>6. /\ input \in Seq(Lines) /\ handled \in Seq(HttpRequests)
      /\ sent \in Seq(HttpResponses) /\ conn \in {"kConnected", "kDisconnecting"}
      /\ ResponsesOK(conn, sent, handled)
      /\ n <= Len(input) /\ n <= ServedUpTo
  BY DEF HttpInv, HttpTypeOK, ParserInv
<1>7. all \in Seq(Lines) /\ Len(all) \in Nat /\ Len(input) \in Nat /\ Len(input) <= Len(all)
  <2>1. /\ all \in Seq(Lines) /\ Len(input) \in Nat /\ Len(lines) \in Nat
        /\ Len(all) = Len(input) + Len(lines)
    BY <1>6, ConcatLines
  <2> HIDE DEF all
  <2> QED BY <2>1, SMTT(30)
<1> HIDE DEF all, r
<1>8. /\ r.c \in HttpContexts /\ r.b \in Seq(Lines) /\ r.ok \in BOOLEAN
      /\ ServedUpTo <= u /\ Follows(r.b, all, u)
      /\ GotAll(r.c) => r.ok
      /\ ~GotAll(r.c) => \/ u = ServedUpTo /\ AtRequestLine(r.c, all, ServedUpTo)
                         \/ u = Len(all) /\ InHeaders(r.c, all, ServedUpTo, u)
  BY <1>1 DEF ParseLeaves
<1>9. ReadUpTo' = u
  BY <1>3 DEF ReadUpTo
<1> HIDE DEF u
<1>10. CASE GotAll(r.c)
  <2>1. r.c.request_ \in HttpRequests
    BY <1>8 DEF HttpContexts
  <2>2. state = conn /\ out = sent
    BY <1>8, <1>10 DEF AfterShutdown
  <2>3. PICK a \in Answers(r.c.request_) :
          LET done == RequestDone(conn, sent, a.status, a.keepalive) IN
          /\ sent' = done.out /\ conn' = done.state
          /\ handled' = Append(handled, r.c.request_)
    BY <1>3, <1>10, <2>2 DEF OnRequest
  <2>4. /\ sent' \in Seq(HttpResponses) /\ conn' \in {"kConnected", "kDisconnecting"}
        /\ ResponsesOK(conn', sent', handled')
    BY <1>6, <2>1, <2>3, ResponsesAnswered
  <2>5. /\ handled' \in Seq(HttpRequests) /\ Len(handled') = n + 1
        /\ \A k \in 1 .. n : handled'[k] = handled[k]
        /\ handled'[n + 1] = r.c.request_
    <3>1. handled' = Append(handled, r.c.request_)
      BY <2>3
    <3>2. ASSUME NEW x \in HttpRequests, NEW s \in Seq(HttpRequests)
          PROVE  /\ Append(s, x) \in Seq(HttpRequests) /\ Len(Append(s, x)) = Len(s) + 1
                 /\ \A k \in 1 .. Len(s) : Append(s, x)[k] = s[k]
                 /\ Append(s, x)[Len(s) + 1] = x
      BY SMTT(30)
    <3> QED BY <1>6, <2>1, <3>1, <3>2
  <2>6. context' \in HttpContexts /\ AtRequestLine(context', all, u)
    BY <1>3, <1>8, <1>10, ResetContext
  <2>7. HttpTypeOK'
    BY <1>3, <1>7, <1>8, <2>4, <2>5, <2>6 DEF HttpTypeOK
  <2>8. ServedUpTo' = u
    BY <1>3, <1>4, <1>10, <2>5 DEF ServedUpTo
  <2>9. ASSUME NEW k \in 1 .. n + 1
        PROVE  /\ HasRequestAt(NoColon, all, k)
               /\ Described(handled'[k]) = RequestAt(NoColon, all, k)
    <3>1. k \in 1 .. n \/ k = n + 1
      BY <1>2, SMTT(30)
    <3> QED BY <1>2, <1>4, <1>10, <2>5, <3>1
  <2>10. u <= u /\ DOMAIN handled' = 1 .. n + 1
    <3>1. u \in Int
      BY <1>7, <1>8, SMTT(30) DEF u
    <3>2. u <= u
      BY <3>1, SMTT(30)
    <3> QED BY <2>5, <3>2, LenProperties
  <2>11. ParserInv'
    BY <1>3, <1>4, <1>8, <1>9, <1>10, <2>5, <2>6, <2>8, <2>9, <2>10 DEF ParserInv
  <2> QED BY <1>3, <1>4, <1>10, <2>4, <2>5, <2>7, <2>11 DEF HttpInv
<1>11. CASE ~GotAll(r.c)
  <2>1. /\ context' = r.c /\ sent' = out /\ conn' = state /\ handled' = handled
    BY <1>3, <1>11
  <2>2. /\ sent' \in Seq(HttpResponses) /\ conn' \in {"kConnected", "kDisconnecting"}
        /\ ResponsesOK(conn', sent', handled')
    <3>1. CASE r.ok
      BY <1>6, <2>1, <3>1 DEF AfterShutdown
    <3>2. CASE ~r.ok
      <4>1. sent' = SendTo(conn, sent, BadRequest) /\ conn' = "kDisconnecting"
        BY <2>1, <3>2 DEF AfterShutdown
      <4>2. /\ SendTo(conn, sent, BadRequest) \in Seq(HttpResponses)
            /\ ResponsesOK("kDisconnecting", SendTo(conn, sent, BadRequest), handled)
        BY <1>6, ResponsesBad
      <4> QED BY <2>1, <4>1, <4>2
    <3> QED BY <3>1, <3>2
  <2>3. HttpTypeOK'
    BY <1>3, <1>6, <1>7, <1>8, <2>1, <2>2 DEF HttpTypeOK
  <2>4. ServedUpTo' = ServedUpTo
    BY <1>2, <1>3, <2>1 DEF ServedUpTo
  <2>5. n <= Len(all) /\ DOMAIN handled = 1 .. n
    <3>1. n <= Len(all)
      BY <1>2, <1>6, <1>7, SMTT(30)
    <3> QED BY <1>6, <3>1, LenProperties
  <2>6. ParserInv'
    BY <1>2, <1>3, <1>6, <1>8, <1>9, <1>11, <2>1, <2>4, <2>5 DEF ParserInv
  <2> QED BY <1>3, <1>5, <1>11, <2>1, <2>2, <2>3, <2>6 DEF HttpInv
<1> QED BY <1>10, <1>11

\* Every step of a connection: HttpNext is a call of OnMessage().
LEMMA HttpStep ==
  ASSUME HttpInv, HttpNext
  PROVE  /\ HttpInv'
         /\ IF HasRequestAt(NoColon, input', Len(handled) + 1)
            THEN /\ Len(handled') = Len(handled) + 1
                 /\ Described(handled'[Len(handled) + 1]) = RequestAt(NoColon, input', Len(handled) + 1)
            ELSE handled' = handled
<1>1. MaxLines - Len(input) \in Int
  <2>1. Len(input) \in Nat
    BY LenProperties DEF HttpInv, HttpTypeOK
  <2> QED BY <2>1, HttpAssumption, SMTT(30)
<1>2. PICK n \in 0 .. MaxLines - Len(input) :
        \E lines \in [1 .. n -> Lines], p \in BOOLEAN : OnMessage(lines, p)
  BY DEF HttpNext
<1>3. PICK lines \in [1 .. n -> Lines], p \in BOOLEAN : OnMessage(lines, p)
  BY <1>2
<1>4. lines \in Seq(Lines)
  BY <1>1, MessageLines
<1> QED BY <1>3, <1>4, OnMessageStep

\* A step outside of the connection keeps the invariant.
LEMMA HttpStutter ==
  ASSUME HttpInv, UNCHANGED http_vars
  PROVE  HttpInv'
<1>1. /\ input' = input /\ input_buffer' = input_buffer /\ context' = context
      /\ conn' = conn /\ sent' = sent /\ handled' = handled
  BY DEF http_vars
<1>2. HttpTypeOK' /\ ServedUpTo' = ServedUpTo /\ ReadUpTo' = ReadUpTo
  BY <1>1 DEF HttpInv, HttpTypeOK, ServedUpTo, ReadUpTo
<1>3. ParserInv'
  BY <1>1, <1>2 DEF HttpInv, ParserInv
<1> QED BY <1>1, <1>2, <1>3 DEF HttpInv

\* The parser and the responses of a connection, between any two calls of
\* OnMessage(): what is left in the buffer is the end of the stream, the context
\* describes the lines retrieved since the last request that was served, all
\* requests up to that one were served as they are in the stream, and every
\* response so far has a length unless it is the last.
THEOREM HttpInvariant == HttpSpec => []HttpInv
<1>1. HttpInit => HttpInv
  BY HttpInitInv
<1>2. HttpInv /\ [HttpNext]_http_vars => HttpInv'
  BY HttpStep, HttpStutter
<1> QED BY <1>1, <1>2, PTL DEF HttpSpec

\* OnMessage() serves the next request of the stream when all of it has arrived,
\* as it is in the stream, and none otherwise: for any lines that have a colon in
\* every header line, cut anywhere.
THEOREM EveryRequestServed == HttpSpec => ServesNextRequest
<1>1. HttpInv /\ [HttpNext]_http_vars
      => [LET next == Len(handled) + 1
          IN WellFormed(input', next) =>
               IF HasRequest(input', next)
               THEN Len(handled') = next /\ Described(handled'[next]) = Request(input', next)
               ELSE handled' = handled]_http_vars
  <2> SUFFICES ASSUME HttpInv, HttpNext, WellFormed(input', Len(handled) + 1)
               PROVE  IF HasRequest(input', Len(handled) + 1)
                      THEN /\ Len(handled') = Len(handled) + 1
                           /\ Described(handled'[Len(handled) + 1])
                                = Request(input', Len(handled) + 1)
                      ELSE handled' = handled
    OBVIOUS
  <2>1. /\ HttpInv'
        /\ IF HasRequestAt(NoColon, input', Len(handled) + 1)
           THEN /\ Len(handled') = Len(handled) + 1
                /\ Described(handled'[Len(handled) + 1])
                     = RequestAt(NoColon, input', Len(handled) + 1)
           ELSE handled' = handled
    BY HttpStep
  <2>2. input' \in Seq(Lines)
    BY <2>1 DEF HttpInv, HttpTypeOK
  <2>3. Len(handled) + 1 \in Nat /\ Len(handled) + 1 # 0
    <3>1. Len(handled) \in Nat
      BY LenProperties DEF HttpInv, HttpTypeOK
    <3> QED BY <3>1, SMTT(30)
  <2>4. HasRequest(input', Len(handled) + 1) => Len(handled) + 1 <= Len(input')
    BY DEF HasRequest
  <2> QED BY <2>1, <2>2, <2>3, <2>4, SameRequests
<1> QED BY <1>1, HttpInvariant, PTL DEF HttpSpec, ServesNextRequest

\* A response with a length answers a request that does not close its connection.
LEMMA KeptConnection ==
  ASSUME NEW request, ~Close(request), NEW x, Described(request) = x
  PROVE  x.connection # "close" /\ (x.version = "HTTP/1.0" => x.connection = "Keep-Alive")
<1>1. x.connection = request.headers_["Connection"] /\ x.version = request.version_
  BY DEF Described
<1> QED BY <1>1 DEF Close, GetHeader

\* What RequestDone() and the answer to a bad request have sent is delimited.
LEMMA DelimitedByInv == HttpInv => ResponsesDelimited
<1> SUFFICES ASSUME HttpInv PROVE ResponsesDelimited
  OBVIOUS
<1>1. /\ ResponsesOK(conn, sent, handled) /\ conn \in {"kConnected", "kDisconnecting"}
      /\ DOMAIN sent = 1 .. Len(sent) /\ DOMAIN handled = 1 .. Len(handled)
      /\ Len(handled) \in Nat /\ Len(sent) \in Nat
  BY LenProperties DEF HttpInv, HttpTypeOK
<1>2. \A k \in 1 .. Len(handled) : Described(handled[k]) = RequestAt(NoColon, input, k)
  BY <1>1 DEF HttpInv, ParserInv
<1>3. ASSUME NEW i \in 1 .. Len(sent)
      PROVE  /\ sent[i].length \/ (i = Len(sent) /\ conn = "kDisconnecting")
             /\ sent[i].status # 400 => i <= Len(handled)
             /\ sent[i].length /\ WellFormed(input, i) =>
                  LET r == Request(input, i) IN
                  r.connection # "close" /\ (r.version = "HTTP/1.0" => r.connection = "Keep-Alive")
  <2>1. ResponseOK(conn, sent, handled, i)
    BY <1>1 DEF ResponsesOK
  <2>2. /\ sent[i].length \/ (i = Len(sent) /\ conn = "kDisconnecting")
        /\ sent[i].status # 400 => i <= Len(handled)
    BY <1>1, <2>1 DEF ResponseOK
  <2>3. ASSUME sent[i].length, WellFormed(input, i)
        PROVE  LET r == Request(input, i) IN
               r.connection # "close" /\ (r.version = "HTTP/1.0" => r.connection = "Keep-Alive")
    <3>1. i <= Len(handled) /\ ~Close(handled[i])
      BY <2>1, <2>3 DEF ResponseOK
    <3>2. i \in 1 .. Len(handled)
      BY <1>1, <3>1, SMTT(30)
    <3>3. Described(handled[i]) = Request(input, i)
      <4>1. input \in Seq(Lines) /\ Len(input) \in Nat /\ Len(handled) <= Len(input)
        BY LenProperties DEF HttpInv, HttpTypeOK, ParserInv
      <4>2. i \in Nat /\ i # 0 /\ i <= Len(input)
        BY <1>1, <3>2, <4>1, SMTT(30)
      <4> QED BY <1>2, <2>3, <3>2, <4>1, <4>2, SameRequests
    <3> QED BY <3>1, <3>3, KeptConnection
  <2> QED BY <2>2, <2>3
<1> QED BY <1>1, <1>3 DEF ResponsesDelimited, ResponsesOK

\* The peer can tell where every response ends, whatever lines it sends: it has a
\* length, or it is the last and the connection is shut down.  A connection is
\* kept only when the request asked for that.
THEOREM ResponseEnds == HttpSpec => []ResponsesDelimited
BY HttpInvariant, DelimitedByInv, PTL
=============================================================================
