--------------------------- MODULE TcpClientProofs ---------------------------
(***************************************************************************)
(* What TcpClient.tla says of the client and its connector, for any number *)
(* of threads, of calls of Disconnect() and Stop() and of retries, when    *)
(* Connect() is called once.                                               *)
(*                                                                         *)
(* The invariant says which one thing is under way, and for each piece of  *)
(* state that outlives it (the channel, the functors, the flags of a       *)
(* Stop(), the end of the client) when it may be seen.                     *)
(***************************************************************************)
EXTENDS TcpClient, FiniteSetTheorems, TLAPS

\* Zenon proves the leaves that do not name a prover.
USE ZenonT(30)

------------------------------------------------------------------------------
(* The invariant. *)

\* Connect() is called at most once: a second call meets the asserts of
\* StartInLoop() and Connecting() while the first is under way.
ConnectsOnce == MaxConnects <= 1

Functors == {"StartInLoop", "StopInLoop", "ResetChannel"}
CallStates == {NoCall} \cup ({"Connect", "Stop"} \X {"assign", "queue"})

\* functor is in the queue q; it is among the first n functors of q.
Has(q, functor) == \E i \in DOMAIN q : q[i] = functor
HasFirst(q, n, functor) == \E i \in 1 .. n : q[i] = functor

\* A StopInLoop() is queued.
Stopping == Has(pending, "StopInLoop")

\* What can be under way: nothing, a StartInLoop() handed in, a retry timer, an
\* attempt, a connection, RemoveConnection() calling Restart().
Works == {"nothing", "handed in", "timer", "attempt", "connection", "restart"}
Doing(work) ==
  /\ Queued("StartInLoop") = One(work = "handed in")
  /\ timers = One(work = "timer")
  /\ state_ = "kConnecting" <=> work = "attempt"
  /\ connection_ <=> work = "connection"
  /\ restarting # "no" <=> work = "restart"
  /\ sockets = One(work \in {"attempt", "connection"})

\* The loop runs functors of the queue.
QueueTypes == pending \in Seq(Functors) /\ batch \in 0 .. Len(pending)

\* The values the proofs need of the other variables.
FlagTypes ==
  /\ state_ \in {"kDisconnected", "kConnecting", "kConnected"}
  /\ channel_ \in {"none", "watching", "removed"}
  /\ call \in [Threads -> CallStates]
  /\ destructed \in {"no", "connected", "stopping"}
  /\ stopped \in BOOLEAN /\ connects \in {0, 1}

\* What Poll() reported is still there when its handler runs.
ReadyInv ==
  /\ phase # "dispatch" => ready = {}
  /\ restarting # "no" => phase = "dispatch"
  /\ "close" \in ready => connection_
  /\ "timer" \in ready => timers = 1 /\ channel_ = "none"
  /\ "keeper" \in ready => keeper /\ pending = <<>> /\ channel_ = "none"

\* The channel is in the loop exactly during the attempt; its ResetChannel() is
\* queued once and has run before StartInLoop() is called again: before a
\* connection that HandleWrite() made can close, since it is in the batch that
\* follows the handlers.
ChannelInv ==
  /\ channel_ = "watching" <=> state_ = "kConnecting"
  /\ ConnectorAlive => Queued("ResetChannel") = One(channel_ = "removed")
  /\ ~ConnectorAlive /\ channel_ = "removed" => destructed = "connected"
  /\ ~started \/ Queued("StartInLoop") = 1 \/ restarting # "no" => channel_ = "none"
  /\ connection_ /\ channel_ = "removed" /\ destructed = "no" =>
       \/ phase = "dispatch" /\ "close" \notin ready
       \/ phase = "functors" /\ HasFirst(pending, batch, "ResetChannel")

\* After ~TcpClient() nobody calls the client; with a connection nothing else is
\* under way, without one connect_ is false and StopInLoop() is queued before the
\* connector is let go.
LifeInv ==
  /\ keeper => destructed = "stopping"
  /\ destructed # "no" => restarting = "no" /\ \A t \in Threads : call[t] = NoCall
  /\ destructed = "connected" => timers = 0 /\ state_ # "kConnecting"
  /\ destructed = "stopping" => ~connect_ /\ ~connection_ /\ (state_ = "kConnecting" => keeper /\ Stopping)

\* Before StartInLoop() is handed in nothing is under way; one thread at most is
\* in Connect().
ConnectInv ==
  /\ connects = 0 => ~started
  /\ ~started => Doing("nothing")
  /\ \A t \in Threads : call[t][1] = "Connect" => ~started /\ connects = 1
  /\ \A t, u \in Threads : call[t][1] = "Connect" /\ call[u][1] = "Connect" => t = u
  /\ \A t \in Threads : call[t][1] = "Connect" /\ call[t][2] = "queue" => connect_

\* The connect_ of the client and of the connector against Stop(): until one of
\* the two is told to stop both are true, and once StopInLoop() is queued the
\* connector's is false, unless Restart() came in between.
StopInv ==
  /\ ~started => client_connect_
  /\ client_connect_ /\ destructed = "no" =>
       /\ ~Stopping /\ ~stopped /\ \A t \in Threads : call[t][1] # "Stop"
       /\ started => connect_
  /\ ~raced /\ (Stopping \/ stopped \/ \E t \in Threads : call[t][1] = "Stop" /\ call[t][2] = "queue") => ~connect_
  /\ stopped /\ ~raced => state_ # "kConnecting"

\* One thing at a time is under way.
WorkInv == \E work \in Works : Doing(work)

\* A client that retries always has something under way.
GoesOn == retry_ /\ client_connect_ /\ started /\ ~gave_up /\ destructed = "no" => ~Doing("nothing")

\* The inductive invariant.
IInv == QueueTypes /\ FlagTypes /\ WorkInv /\ ReadyInv /\ ChannelInv /\ LifeInv /\ ConnectInv /\ StopInv /\ GoesOn

------------------------------------------------------------------------------
(* The queue of functors. *)

\* How often a functor is queued is a number, 0 exactly when it is not there.
LEMMA Occurrences ==
  ASSUME NEW q \in Seq(Functors), NEW f
  PROVE  /\ IsFiniteSet({i \in DOMAIN q : q[i] = f}) /\ CountIn(q, f) \in Nat
         /\ CountIn(q, f) = 0 <=> ~Has(q, f)
<1> DEFINE A == {i \in DOMAIN q : q[i] = f}
<1>1. DOMAIN q = 1 .. Len(q) /\ Len(q) \in Int /\ 1 \in Int
  BY SMTT(30)
<1>2. IsFiniteSet(1 .. Len(q))
  BY <1>1, FS_Interval
<1>3. A \in SUBSET (1 .. Len(q))
  BY <1>1
<1> HIDE DEF A
<1>4. IsFiniteSet(A)
  BY <1>2, <1>3, FS_Subset
<1>5. Cardinality(A) \in Nat /\ (Cardinality(A) = 0 <=> A = {})
  BY <1>4, FS_CardinalityType, FS_EmptySet
<1> QED  BY <1>4, <1>5 DEF A, CountIn, Has

\* QueueInLoop() adds one occurrence of the functor it is given and of no other.
LEMMA CountAppend ==
  ASSUME NEW q \in Seq(Functors), NEW f, NEW g \in Functors
  PROVE  CountIn(Append(q, g), f) = IF g = f THEN CountIn(q, f) + 1 ELSE CountIn(q, f)
<1> DEFINE A == {i \in DOMAIN q : q[i] = f}
           B == {i \in DOMAIN Append(q, g) : Append(q, g)[i] = f}
           n == Len(q) + 1
<1>1. n \notin A
  BY SMTT(30)
<1>2. CASE g = f
  <2>1. B = A \cup {n}
    BY <1>2, SMTT(30)
  <2>2. IsFiniteSet(A)
    BY Occurrences
  <2> HIDE DEF A, n
  <2>3. Cardinality(A \cup {n}) = Cardinality(A) + 1
    BY <1>1, <2>2, FS_AddElement
  <2> QED  BY <1>2, <2>1, <2>3 DEF CountIn, A
<1>3. CASE g # f
  <2>1. B = A
    BY <1>3, SMTT(30)
  <2> QED  BY <1>3, <2>1 DEF CountIn
<1> QED  BY <1>2, <1>3

\* Taking the first functor off removes one occurrence of it and of no other.
LEMMA CountTail ==
  ASSUME NEW q \in Seq(Functors), q # <<>>, NEW f
  PROVE  CountIn(Tail(q), f) = IF Head(q) = f THEN CountIn(q, f) - 1 ELSE CountIn(q, f)
<1> DEFINE A == {i \in DOMAIN q : q[i] = f}
           B == {i \in DOMAIN Tail(q) : Tail(q)[i] = f}
           D == A \ {1}
           h == [i \in B |-> i + 1]
<1>1. /\ DOMAIN q = 1 .. Len(q) /\ Len(q) \in Nat \ {0} /\ Tail(q) \in Seq(Functors) /\ Head(q) = q[1]
      /\ DOMAIN Tail(q) = 1 .. (Len(q) - 1) /\ \A i \in 1 .. (Len(q) - 1) : Tail(q)[i] = q[i+1]
  BY SMTT(30)
<1>2. IsFiniteSet(A) /\ IsFiniteSet(B)
  BY <1>1, Occurrences
<1>3. h \in Bijection(B, D)
  <2>1. \A i \in B : i + 1 \in D /\ i \in Int
    BY <1>1, SMTT(30)
  <2>2. \A j \in D : j - 1 \in B /\ h[j - 1] = j
    BY <1>1, SMTT(30)
  <2>3. h \in [B -> D]
    BY <2>1
  <2>4. \A i, j \in B : h[i] = h[j] => i = j
    BY <2>1, SMTT(30)
  <2> HIDE DEF h, B, D
  <2> QED  BY <2>2, <2>3, <2>4 DEF Bijection, Injection, Surjection, IsInjective
<1>4. ExistsBijection(B, D)
  BY <1>3 DEF ExistsBijection
<1>5. 1 \in A <=> Head(q) = f
  BY <1>1, SMTT(30)
<1>6. Cardinality(A) = CountIn(q, f) /\ Cardinality(B) = CountIn(Tail(q), f)
  BY DEF CountIn
<1> HIDE DEF A, B
<1>7. Cardinality(D) = Cardinality(B)
  BY <1>2, <1>4, FS_Bijection
<1>8. Cardinality(D) = IF 1 \in A THEN Cardinality(A) - 1 ELSE Cardinality(A)
  BY <1>2, FS_RemoveElement
<1> QED  BY <1>5, <1>6, <1>7, <1>8

\* Appending a functor keeps the others, and those of the batch, where they are.
LEMMA Appended ==
  ASSUME NEW q \in Seq(Functors), NEW g \in Functors, NEW f, NEW b \in 0 .. Len(q)
  PROVE  /\ Append(q, g) \in Seq(Functors) /\ b \in 0 .. Len(Append(q, g))
         /\ Append(q, g) # <<>>
         /\ Has(Append(q, g), f) <=> Has(q, f) \/ g = f
         /\ HasFirst(Append(q, g), b, f) <=> HasFirst(q, b, f)
<1>1. /\ Append(q, g) \in Seq(Functors) /\ b \in 0 .. Len(Append(q, g)) /\ Append(q, g) # <<>>
      /\ DOMAIN Append(q, g) = 1 .. (Len(q) + 1) /\ DOMAIN q = 1 .. Len(q) /\ Len(q) \in Nat
      /\ \A i \in 1 .. Len(q) : Append(q, g)[i] = q[i]
      /\ Append(q, g)[Len(q) + 1] = g
  BY SMTT(30)
<1>2. Has(Append(q, g), f) <=> Has(q, f) \/ g = f
  BY <1>1, SMTT(30) DEF Has
<1>3. HasFirst(Append(q, g), b, f) <=> HasFirst(q, b, f)
  BY <1>1, SMTT(30) DEF HasFirst
<1> QED  BY <1>1, <1>2, <1>3

\* Taking the first functor off keeps the others, and those of the batch, in place.
LEMMA Taken ==
  ASSUME NEW q \in Seq(Functors), NEW f, NEW b \in 1 .. Len(q)
  PROVE  /\ Tail(q) \in Seq(Functors) /\ b - 1 \in 0 .. Len(Tail(q))
         /\ q # <<>> /\ Head(q) \in Functors /\ Has(q, Head(q))
         /\ Has(q, f) <=> Has(Tail(q), f) \/ Head(q) = f
         /\ HasFirst(q, b, f) <=> HasFirst(Tail(q), b - 1, f) \/ Head(q) = f
<1>1. /\ Tail(q) \in Seq(Functors) /\ b - 1 \in 0 .. Len(Tail(q)) /\ q # <<>> /\ Head(q) \in Functors
      /\ DOMAIN Tail(q) = 1 .. (Len(q) - 1) /\ DOMAIN q = 1 .. Len(q) /\ Len(q) \in Nat
      /\ \A i \in 1 .. (Len(q) - 1) : Tail(q)[i] = q[i + 1]
      /\ Head(q) = q[1]
  BY SMTT(30)
<1>2. \A i \in 2 .. Len(q) : q[i] = Tail(q)[i - 1] /\ i - 1 \in 1 .. (Len(q) - 1)
  BY <1>1, SMTT(30)
<1>3. Has(q, f) <=> Has(Tail(q), f) \/ Head(q) = f
  <2>1. ASSUME Has(q, f), Head(q) # f PROVE Has(Tail(q), f)
    <3>1. PICK i \in 1 .. Len(q) : q[i] = f
      BY <1>1, <2>1 DEF Has
    <3>2. i - 1 \in DOMAIN Tail(q) /\ Tail(q)[i - 1] = f
      BY <1>1, <1>2, <2>1, <3>1, SMTT(30)
    <3> QED  BY <3>2 DEF Has
  <2>2. ASSUME Has(Tail(q), f) PROVE Has(q, f)
    <3>1. PICK i \in 1 .. (Len(q) - 1) : Tail(q)[i] = f
      BY <1>1, <2>2 DEF Has
    <3>2. i + 1 \in DOMAIN q /\ q[i + 1] = f
      BY <1>1, <3>1, SMTT(30)
    <3> QED  BY <3>2 DEF Has
  <2>3. 1 \in DOMAIN q
    BY <1>1, SMTT(30)
  <2> QED  BY <1>1, <2>1, <2>2, <2>3 DEF Has
<1>4. HasFirst(q, b, f) <=> HasFirst(Tail(q), b - 1, f) \/ Head(q) = f
  <2>1. ASSUME HasFirst(q, b, f), Head(q) # f PROVE HasFirst(Tail(q), b - 1, f)
    <3>1. PICK i \in 1 .. b : q[i] = f
      BY <2>1 DEF HasFirst
    <3>2. i - 1 \in 1 .. (b - 1) /\ Tail(q)[i - 1] = f
      BY <1>1, <1>2, <2>1, <3>1, SMTT(30)
    <3> QED  BY <3>2 DEF HasFirst
  <2>2. ASSUME HasFirst(Tail(q), b - 1, f) PROVE HasFirst(q, b, f)
    <3>1. PICK i \in 1 .. (b - 1) : Tail(q)[i] = f
      BY <2>2 DEF HasFirst
    <3>2. i + 1 \in 1 .. b /\ q[i + 1] = f
      BY <1>1, <3>1, SMTT(30)
    <3> QED  BY <3>2 DEF HasFirst
  <2>3. 1 \in 1 .. b
    BY SMTT(30)
  <2> QED  BY <1>1, <2>1, <2>2, <2>3 DEF HasFirst
<1>5. Has(q, Head(q))
  <2>1. 1 \in DOMAIN q
    BY <1>1, SMTT(30)
  <2> QED  BY <1>1, <2>1 DEF Has
<1> QED  BY <1>1, <1>3, <1>4, <1>5

------------------------------------------------------------------------------
(* What is under way. *)

\* The arithmetic on 0 and 1 that the proofs need.
LEMMA Numbers == 0 # 1 /\ 0 + 1 = 1 /\ 1 - 1 = 0 /\ ~(0 > 0) /\ 1 > 0 /\ One(TRUE) = 1 /\ One(FALSE) = 0
BY SMTT(30) DEF One

\* No two things are under way at once.
LEMMA OneWork ==
  ASSUME NEW v \in Works, NEW w \in Works, Doing(v), Doing(w)
  PROVE  v = w
BY Numbers DEF Works, Doing, One

\* What StartInLoop() leaves under way.
Begins(work) ==
  /\ work \in {"nothing", "timer", "attempt"}
  /\ timers' = One(work = "timer") /\ sockets' = One(work = "attempt")
  /\ state_' \in {"kDisconnected", "kConnecting", "kConnected"}
  /\ state_' = "kConnecting" <=> work = "attempt"
  /\ channel_' = IF work = "attempt" THEN "watching" ELSE channel_
  /\ IF work = "nothing" THEN gave_up' \/ ~connect_' ELSE connect_'

\* StartInLoop(), called when nothing else is under way and no retry timer is left:
\* an attempt, a retry timer, or nothing, and then only since Connect() gave up or
\* connect_ is false.
LEMMA Starts ==
  ASSUME FlagTypes, NEW due, due = 0, StartInLoop(due), state_ # "kConnecting", sockets = 0
  PROVE  \E work : Begins(work)
<1>1. CASE connect_' /\ Connecting /\ sockets' = sockets + 1 /\ timers' = due /\ UNCHANGED gave_up
  <2>1. Begins("attempt")
    BY <1>1, Numbers DEF Begins, Connecting, One, FlagTypes
  <2> QED  BY <2>1
<1>2. CASE connect_' /\ Retry(due) /\ UNCHANGED <<channel_, sockets, gave_up>>
  <2>1. Begins("timer")
    BY <1>2, Numbers DEF Begins, Retry, One, FlagTypes
  <2> QED  BY <2>1
<1>3. CASE gave_up' = TRUE /\ timers' = due /\ UNCHANGED <<state_, channel_, sockets>>
  <2>1. Begins("nothing")
    BY <1>3, Numbers DEF Begins, One, FlagTypes
  <2> QED  BY <2>1
<1>4. CASE ~connect_' /\ timers' = due /\ UNCHANGED <<state_, channel_, sockets, gave_up>>
  <2>1. Begins("nothing")
    BY <1>4, Numbers DEF Begins, One, FlagTypes
  <2> QED  BY <2>1
<1> QED  BY <1>1, <1>2, <1>3, <1>4 DEF StartInLoop, ConnectSocket

------------------------------------------------------------------------------
(* Calls of the client's methods. *)

\* TcpClient::Connect() on the loop's thread.
LEMMA ConnectKeeps ==
  ASSUME IInv, Connect, MaxConnects <= 1
  PROVE  IInv'
<1> USE DEF IInv
<1>1. connects = 0 /\ connects' = 1
  BY BoundsAssumption, SMTT(30) DEF FlagTypes, Connect, MayCall, CountCall
<1>2. Doing("nothing") /\ ~started /\ channel_ = "none"
  BY <1>1 DEF ConnectInv, ChannelInv
<1>3. state_ # "kConnecting" /\ sockets = 0 /\ timers = 0
  BY <1>2 DEF Doing, One
<1>4. PICK work : Begins(work)
  BY <1>3, Starts DEF Connect
<1>5. Doing(work)'
  BY <1>2, <1>4, Numbers DEF Connect, Doing, Begins, One, Queued
<1>6. QueueTypes'
  BY DEF QueueTypes, Connect
<1>7. FlagTypes'
  BY <1>1, <1>4 DEF FlagTypes, Connect, Begins, life
<1>8. WorkInv'
  BY <1>4, <1>5 DEF WorkInv, Works, Begins
<1>9. ReadyInv'
  BY <1>2, <1>3, <1>4, Numbers DEF ReadyInv, LifeInv, MayCall, Connect, Begins, life, Doing, One
<1>10. ChannelInv'
  BY <1>2, <1>3, <1>4, Numbers DEF ChannelInv, Connect, Begins, life, Doing, One, ConnectorAlive, Queued, MayCall
<1>11. LifeInv'
  BY DEF LifeInv, Connect, life, MayCall
<1>12. ConnectInv'
  BY <1>1, Numbers DEF ConnectInv, Connect
<1>13. StopInv'
  BY <1>2, <1>4 DEF StopInv, Connect, MayCall, life, Stopping
<1>14. GoesOn'
  <2>1. CASE work = "nothing"
    BY <2>1, <1>4 DEF GoesOn, Begins, Connect
  <2>2. CASE work # "nothing"
    BY <2>2, <1>4, <1>5, Numbers DEF GoesOn, Begins, Doing, One, Works
  <2> QED  BY <2>1, <2>2
<1> QED  BY <1>6, <1>7, <1>8, <1>9, <1>10, <1>11, <1>12, <1>13, <1>14

\* TcpClient::Disconnect() on the loop's thread.
LEMMA DisconnectKeeps ==
  ASSUME IInv, Disconnect
  PROVE  IInv'
<1> USE DEF IInv
<1>1. UNCHANGED <<connect_, state_, channel_, connection_, restarting, phase, ready, pending, batch, timers,
                  call, sockets, destructed, keeper, started, gave_up, stopped, raced, connects>>
      /\ client_connect_' = FALSE /\ destructed = "no" /\ started
  BY DEF Disconnect, CountCall, connector, loop, life, MayCall
<1>2. QueueTypes' /\ WorkInv' /\ ReadyInv' /\ LifeInv' 
  BY <1>1 DEF QueueTypes, WorkInv, Doing, Queued, ReadyInv, LifeInv, Stopping
<1>3. ChannelInv'
  BY <1>1 DEF ChannelInv, Queued, ConnectorAlive
<1>4. FlagTypes'
  BY <1>1 DEF FlagTypes
<1>5. ConnectInv'
  BY <1>1 DEF ConnectInv, Doing, Queued
<1>6. StopInv'
  BY <1>1 DEF StopInv, Stopping
<1>7. GoesOn'
  BY <1>1 DEF GoesOn
<1> QED  BY <1>2, <1>3, <1>4, <1>5, <1>6, <1>7

\* TcpClient::Stop() on the loop's thread: connect_ is false before StopInLoop() is
\* queued.
LEMMA StopKeeps ==
  ASSUME IInv, Stop
  PROVE  IInv'
<1> USE DEF IInv
<1>1. UNCHANGED <<state_, channel_, connection_, restarting, phase, ready, batch, timers,
                  call, sockets, destructed, keeper, started, gave_up, stopped, raced, connects>>
      /\ client_connect_' = FALSE /\ connect_' = FALSE /\ destructed = "no" /\ started
  BY DEF Stop, CountCall, connector, loop, life, MayCall
<1>2. pending' = Append(pending, "StopInLoop") /\ pending \in Seq(Functors) /\ batch \in 0 .. Len(pending) /\ "StopInLoop" \in Functors
  BY DEF Stop, QueueTypes, Functors
<1>3. QueueTypes' /\ Queued("StartInLoop")' = Queued("StartInLoop") /\ Queued("ResetChannel")' = Queued("ResetChannel")
      /\ (HasFirst(pending, batch, "ResetChannel") => HasFirst(pending', batch', "ResetChannel"))
  BY <1>1, <1>2, CountAppend, Appended DEF QueueTypes, Queued
<1>4. WorkInv' /\ (\A work : Doing(work)' <=> Doing(work))
  BY <1>1, <1>3 DEF WorkInv, Doing
<1>5. ReadyInv' /\ LifeInv' 
  BY <1>1 DEF ReadyInv, LifeInv
<1>6. ChannelInv'
  BY <1>1, <1>3 DEF ChannelInv, ConnectorAlive
<1>7. FlagTypes'
  BY <1>1 DEF FlagTypes
<1>8. ConnectInv'
  BY <1>1 DEF ConnectInv
<1>9. StopInv'
  BY <1>1 DEF StopInv
<1>10. GoesOn'
  BY <1>1 DEF GoesOn
<1> QED  BY <1>3, <1>4, <1>5, <1>6, <1>7, <1>8, <1>9, <1>10

\* The two components of a call in progress.
LEMMA Pairs ==
  /\ NoCall[1] = "none" /\ NoCall[2] = "none" /\ NoCall \in CallStates
  /\ \A m \in {"Connect", "Stop"}, s \in {"assign", "queue"} :
       <<m, s>>[1] = m /\ <<m, s>>[2] = s /\ <<m, s>> \in CallStates /\ <<m, s>> # NoCall
  /\ \A v \in CallStates :
       v = NoCall \/ (v[1] \in {"Connect", "Stop"} /\ v[2] \in {"assign", "queue"} /\ v = <<v[1], v[2]>>)
BY SMTT(30) DEF NoCall, CallStates

\* A step of one thread's call leaves the other threads' calls alone.
LEMMA Calling ==
  ASSUME NEW c \in [Threads -> CallStates], NEW t \in Threads, NEW v \in CallStates, NEW d, d = [c EXCEPT ![t] = v]
  PROVE  d \in [Threads -> CallStates] /\ d[t] = v /\ \A u \in Threads : u # t => d[u] = c[u]
OBVIOUS

\* Another thread enters Connect(): it is the first call, so nothing is under way.
LEMMA ConnectCallKeeps ==
  ASSUME IInv, NEW t \in Threads, CallFrom(t, "Connect"), MaxConnects <= 1
  PROVE  IInv'
<1> USE DEF IInv
<1>1. connects = 0 /\ connects' = 1
  BY BoundsAssumption, SMTT(30) DEF FlagTypes, CallFrom, MayCall, CountCall
<1>2. UNCHANGED <<connect_, state_, channel_, connection_, restarting, phase, ready, pending, batch, timers,
                  sockets, destructed, keeper, started, gave_up, raced>>
      /\ client_connect_' = TRUE /\ stopped' = FALSE /\ destructed = "no"
      /\ call' = [call EXCEPT ![t] = <<"Connect", "assign">>]
  BY DEF CallFrom, connector, loop, life, MayCall
<1>3. /\ call' \in [Threads -> CallStates] /\ call'[t][1] = "Connect" /\ call'[t][2] = "assign"
      /\ \A u \in Threads : u # t => call'[u] = call[u]
  BY <1>2, Pairs, Calling DEF FlagTypes
<1> HIDE DEF IInv
<1>4. ~started /\ client_connect_
  BY <1>1 DEF IInv, ConnectInv, StopInv
<1>5. QueueTypes' /\ WorkInv' /\ ReadyInv'
  BY <1>2 DEF IInv, QueueTypes, WorkInv, Doing, Queued, ReadyInv
<1>6. ChannelInv'
  BY <1>2 DEF IInv, ChannelInv, Queued, ConnectorAlive
<1>7. FlagTypes'
  BY <1>1, <1>2, <1>3 DEF IInv, FlagTypes
<1>8. LifeInv'
  BY <1>2 DEF IInv, LifeInv
<1>9. ConnectInv'
  <2>1. \A u \in Threads : call[u][1] # "Connect"
    BY <1>1, Numbers DEF IInv, ConnectInv
  <2>2. Doing("nothing")'
    BY <1>2, <1>4 DEF IInv, ConnectInv, Doing, Queued
  <2> QED  BY <1>1, <1>2, <1>3, <1>4, <2>1, <2>2, Numbers DEF IInv, ConnectInv
<1>10. StopInv'
  BY <1>2, <1>3, <1>4 DEF IInv, StopInv, Stopping
<1>11. GoesOn'
  BY <1>2, <1>4 DEF IInv, GoesOn
<1> QED  BY <1>5, <1>6, <1>7, <1>8, <1>9, <1>10, <1>11 DEF IInv

\* Another thread enters Disconnect() or Stop().
LEMMA OtherCallKeeps ==
  ASSUME IInv, NEW t \in Threads, NEW method \in {"Disconnect", "Stop"}, CallFrom(t, method)
  PROVE  IInv'
<1>1. UNCHANGED <<connect_, state_, channel_, connection_, restarting, phase, ready, pending, batch, timers,
                  sockets, destructed, keeper, started, gave_up, stopped, raced, connects>>
      /\ client_connect_' = FALSE /\ destructed = "no" /\ started
  BY DEF CallFrom, CountCall, connector, loop, life, MayCall, IInv, FlagTypes
<1>2. /\ call' \in [Threads -> CallStates] /\ call'[t][1] # "Connect" /\ call'[t][2] # "queue"
      /\ \A u \in Threads : u # t => call'[u] = call[u]
  <2>1. CASE method = "Disconnect"
    BY <2>1, Pairs, Calling DEF CallFrom, IInv, FlagTypes
  <2>2. CASE method = "Stop"
    BY <2>2, Pairs, Calling DEF CallFrom, IInv, FlagTypes
  <2> QED  BY <2>1, <2>2
<1>3. QueueTypes' /\ WorkInv' /\ ReadyInv'
  BY <1>1 DEF IInv, QueueTypes, WorkInv, Doing, Queued, ReadyInv
<1>4. ChannelInv'
  BY <1>1 DEF IInv, ChannelInv, Queued, ConnectorAlive
<1>5. FlagTypes'
  BY <1>1, <1>2 DEF IInv, FlagTypes
<1>6. LifeInv'
  BY <1>1 DEF IInv, LifeInv
<1>7. ConnectInv'
  BY <1>1, <1>2 DEF IInv, ConnectInv
<1>8. StopInv'
  BY <1>1, <1>2 DEF IInv, StopInv, Stopping
<1>9. GoesOn'
  BY <1>1 DEF IInv, GoesOn
<1> QED  BY <1>3, <1>4, <1>5, <1>6, <1>7, <1>8, <1>9 DEF IInv

\* Another thread's call assigns the connector's connect_: a Connect() and a Stop()
\* are never both in progress.
LEMMA AssignKeeps ==
  ASSUME IInv, NEW t \in Threads, AssignFrom(t)
  PROVE  IInv'
<1> DEFINE m == call[t][1]
<1>1. UNCHANGED <<state_, channel_, client_connect_, connection_, restarting, phase, ready, pending, batch, timers,
                  sockets, destructed, keeper, started, gave_up, stopped, raced, connects>>
      /\ connect_' = (m = "Connect")
  BY DEF AssignFrom, client, loop, life, history
<1>2. call[t] = <<m, "assign">> /\ m \in {"Connect", "Stop"} /\ call[t] # NoCall
  <2>1. call[t] \in CallStates /\ call[t][2] = "assign"
    BY DEF IInv, FlagTypes, AssignFrom
  <2>2. call[t] # NoCall
    BY <2>1, Pairs
  <2>3. call[t] = <<call[t][1], call[t][2]>> /\ call[t][1] \in {"Connect", "Stop"}
    BY <2>1, <2>2, Pairs
  <2> QED  BY <2>1, <2>2, <2>3
<1>3. [call[t] EXCEPT ![2] = "queue"] = <<m, "queue">>
  <2>1. \A n : [<<n, "assign">> EXCEPT ![2] = "queue"] = <<n, "queue">>
    BY SMTT(30)
  <2> HIDE DEF m
  <2> QED  BY <1>2, <2>1
<1>4. call' = [call EXCEPT ![t] = <<m, "queue">>]
  BY <1>3 DEF AssignFrom
<1> HIDE DEF m
<1>5. /\ call' \in [Threads -> CallStates] /\ call'[t][1] = m /\ call'[t][2] = "queue"
      /\ \A u \in Threads : u # t => call'[u] = call[u]
  BY <1>2, <1>4, Pairs, Calling DEF IInv, FlagTypes
<1>6. destructed = "no" /\ call[t][1] = m
  BY <1>2 DEF IInv, LifeInv, m
<1>7. QueueTypes' /\ WorkInv' /\ ReadyInv'
  BY <1>1 DEF IInv, QueueTypes, WorkInv, Doing, Queued, ReadyInv
<1>8. ChannelInv'
  BY <1>1 DEF IInv, ChannelInv, Queued, ConnectorAlive
<1>9. FlagTypes'
  BY <1>1, <1>5 DEF IInv, FlagTypes
<1>10. LifeInv'
  BY <1>1, <1>6 DEF IInv, LifeInv
<1>11. ASSUME m = "Connect" PROVE ConnectInv' /\ StopInv'
  <2>1. ~started /\ client_connect_ /\ connects = 1 /\ \A u \in Threads : call[u][1] = "Connect" => u = t
    BY <1>6, <1>11 DEF IInv, ConnectInv, StopInv
  <2>2. Doing("nothing")'
    BY <1>1, <2>1 DEF IInv, ConnectInv, Doing, Queued
  <2>3. ConnectInv'
    BY <1>1, <1>5, <1>11, <2>1, <2>2, Numbers DEF ConnectInv
  <2>4. StopInv'
    BY <1>1, <1>5, <1>6, <1>11, <2>1 DEF IInv, StopInv, Stopping
  <2> QED  BY <2>3, <2>4
<1>12. ASSUME m = "Stop" PROVE ConnectInv' /\ StopInv'
  <2>1. ~client_connect_ /\ started
    BY <1>6, <1>12 DEF IInv, StopInv
  <2>2. ConnectInv'
    BY <1>1, <1>5, <1>12, <2>1 DEF IInv, ConnectInv
  <2>3. StopInv'
    BY <1>1, <1>12, <2>1 DEF IInv, StopInv
  <2> QED  BY <2>2, <2>3
<1>13. GoesOn'
  BY <1>1 DEF IInv, GoesOn, Doing, Queued
<1> QED  BY <1>2, <1>7, <1>8, <1>9, <1>10, <1>11, <1>12, <1>13 DEF IInv

\* Another thread's Connect() hands StartInLoop() in.
LEMMA QueueConnectKeeps ==
  ASSUME IInv, NEW t \in Threads, QueueFrom(t), call[t][1] = "Connect"
  PROVE  IInv'
<1>1. UNCHANGED <<connect_, state_, channel_, client_connect_, connection_, restarting, phase, ready, batch, timers,
                  sockets, destructed, keeper, gave_up, stopped, raced, connects>>
      /\ pending' = Append(pending, "StartInLoop") /\ started'
      /\ call' = [call EXCEPT ![t] = NoCall]
  BY DEF QueueFrom, connector, client, life
<1>2. ~started /\ client_connect_ /\ connect_ /\ Doing("nothing") /\ channel_ = "none"
  BY DEF QueueFrom, IInv, ConnectInv, StopInv, ChannelInv
<1>3. /\ call' \in [Threads -> CallStates] /\ call'[t] = NoCall
      /\ \A u \in Threads : u # t => call'[u] = call[u]
  BY <1>1, Pairs, Calling DEF IInv, FlagTypes
<1>4. /\ \A u \in Threads : call'[u][1] # "Connect"
      /\ \A u \in Threads : call'[u] = call[u] \/ call'[u] = NoCall
  <2>1. \A u \in Threads : u # t => call[u][1] # "Connect"
    BY DEF IInv, ConnectInv
  <2>2. NoCall[1] = "none"
    BY Pairs
  <2> QED  BY <1>3, <2>1, <2>2
<1>5. pending \in Seq(Functors) /\ batch \in 0 .. Len(pending) /\ "StartInLoop" \in Functors
  BY DEF IInv, QueueTypes, Functors
<1>6. /\ QueueTypes' /\ Queued("StartInLoop")' = Queued("StartInLoop") + 1
      /\ Queued("ResetChannel")' = Queued("ResetChannel") /\ (Stopping' => Stopping)
      /\ (HasFirst(pending, batch, "ResetChannel") => HasFirst(pending', batch', "ResetChannel"))
  BY <1>1, <1>5, CountAppend, Appended DEF QueueTypes, Queued, Stopping
<1>7. Doing("handed in")' /\ ~Doing("nothing")'
  BY <1>1, <1>2, <1>6, Numbers DEF Doing, One
<1>8. WorkInv' /\ GoesOn'
  BY <1>7 DEF WorkInv, Works, GoesOn
<1>9. ReadyInv'
  <2>1. "keeper" \notin ready
    BY <1>2 DEF IInv, ReadyInv, LifeInv, StopInv, QueueFrom
  <2> QED  BY <1>1, <2>1 DEF IInv, ReadyInv
<1>10. ChannelInv'
  BY <1>1, <1>2, <1>6 DEF IInv, ChannelInv, ConnectorAlive
<1>11. FlagTypes'
  BY <1>1, <1>3 DEF IInv, FlagTypes
<1>12. LifeInv'
  BY <1>1, <1>2, <1>3, <1>4, <1>6 DEF IInv, LifeInv, Doing
<1>13. ConnectInv'
  BY <1>1, <1>4, Numbers DEF IInv, ConnectInv
<1>14. StopInv'
  <2>1. destructed = "no"
    BY Pairs DEF IInv, LifeInv
  <2>2. ~Stopping /\ ~stopped /\ \A u \in Threads : call[u][1] # "Stop"
    BY <1>2, <2>1 DEF IInv, StopInv
  <2>3. \A u \in Threads : call'[u][1] # "Stop"
    <3>1. NoCall[1] = "none"
      BY Pairs
    <3> QED  BY <1>4, <2>2, <3>1
  <2> QED  BY <1>1, <1>2, <1>6, <2>2, <2>3 DEF StopInv
<1> QED  BY <1>6, <1>8, <1>9, <1>10, <1>11, <1>12, <1>13, <1>14 DEF IInv

\* Another thread's Stop() hands StopInLoop() in.
LEMMA QueueStopKeeps ==
  ASSUME IInv, NEW t \in Threads, QueueFrom(t), call[t][1] # "Connect"
  PROVE  IInv'
<1>1. call[t][1] = "Stop" /\ call[t][2] = "queue" /\ call[t] # NoCall
  <2>1. call[t] \in CallStates /\ call[t][2] = "queue"
    BY DEF IInv, FlagTypes, QueueFrom
  <2>2. call[t] # NoCall
    BY <2>1, Pairs
  <2> QED  BY <2>1, <2>2, Pairs
<1>2. UNCHANGED <<connect_, state_, channel_, client_connect_, connection_, restarting, phase, ready, batch, timers,
                  sockets, destructed, keeper, gave_up, stopped, raced, connects>>
      /\ pending' = Append(pending, "StopInLoop") /\ (started' <=> started)
      /\ call' = [call EXCEPT ![t] = NoCall]
  BY DEF QueueFrom, connector, client, life
<1>3. destructed = "no" /\ ~client_connect_ /\ started /\ (~raced => ~connect_)
  BY <1>1 DEF IInv, LifeInv, StopInv
<1>4. /\ call' \in [Threads -> CallStates] /\ call'[t] = NoCall
      /\ \A u \in Threads : u # t => call'[u] = call[u]
  BY <1>2, Pairs, Calling DEF IInv, FlagTypes
<1>5. \A u \in Threads : call'[u] = call[u] \/ call'[u][1] = "none"
  BY <1>4, Pairs
<1>6. pending \in Seq(Functors) /\ batch \in 0 .. Len(pending) /\ "StopInLoop" \in Functors
  BY DEF IInv, QueueTypes, Functors
<1>7. /\ QueueTypes' /\ Queued("StartInLoop")' = Queued("StartInLoop")
      /\ Queued("ResetChannel")' = Queued("ResetChannel") 
      /\ (HasFirst(pending, batch, "ResetChannel") => HasFirst(pending', batch', "ResetChannel"))
  BY <1>2, <1>6, CountAppend, Appended DEF QueueTypes, Queued
<1>8. WorkInv'
  BY <1>2, <1>7 DEF IInv, WorkInv, Doing
<1>9. ReadyInv'
  BY <1>2, <1>3 DEF IInv, ReadyInv, LifeInv
<1>10. ChannelInv'
  BY <1>2, <1>7 DEF IInv, ChannelInv, ConnectorAlive
<1>11. FlagTypes'
  BY <1>2, <1>4 DEF IInv, FlagTypes
<1>12. LifeInv'
  BY <1>2, <1>3 DEF IInv, LifeInv
<1>13. ConnectInv'
  <2>1. \A u \in Threads : call'[u][1] # "Connect"
    BY <1>3, <1>5 DEF IInv, ConnectInv
  <2> QED  BY <1>2, <1>3, <2>1 DEF IInv, ConnectInv
<1>14. StopInv'
  BY <1>2, <1>3 DEF IInv, StopInv
<1>15. GoesOn'
  BY <1>2, <1>3 DEF GoesOn
<1> QED  BY <1>7, <1>8, <1>9, <1>10, <1>11, <1>12, <1>13, <1>14, <1>15 DEF IInv

------------------------------------------------------------------------------
(* The loop. *)

\* Poll(): a retry timer or the one of ~TcpClient() is due only with no channel left
\* to reset.
LEMMA PollKeeps ==
  ASSUME IInv, Poll
  PROVE  IInv'
<1>1. UNCHANGED <<connect_, state_, channel_, client_connect_, connection_, restarting, pending, batch, timers, call,
                  sockets, destructed, keeper, started, gave_up, stopped, raced, connects>>
      /\ phase = "poll" /\ phase' = "dispatch"
  BY DEF Poll, connector, client, life, history
<1>2. /\ "close" \in ready' => connection_
      /\ "timer" \in ready' => timers > 0 /\ channel_ # "removed"
      /\ "keeper" \in ready' => keeper /\ pending = <<>>
  BY DEF Poll
<1>3. PICK work \in Works : Doing(work)
  BY DEF IInv, WorkInv
<1>4. ASSUME timers > 0, channel_ # "removed" PROVE timers = 1 /\ channel_ = "none"
  BY <1>3, <1>4, Numbers DEF IInv, Doing, One, ChannelInv, FlagTypes
<1>5. ASSUME keeper, pending = <<>> PROVE channel_ = "none"
  <2>1. ~Has(pending, "StopInLoop") /\ ~Has(pending, "ResetChannel")
    BY <1>5, SMTT(30) DEF Has
  <2>2. state_ # "kConnecting"
    BY <1>5, <2>1 DEF IInv, LifeInv, Stopping
  <2>3. Queued("ResetChannel") = 0
    BY <2>1, Occurrences DEF IInv, QueueTypes, Queued
  <2> QED  BY <1>5, <2>2, <2>3, Numbers DEF IInv, ChannelInv, ConnectorAlive, One, FlagTypes
<1>6. ReadyInv'
  BY <1>1, <1>2, <1>4, <1>5 DEF ReadyInv
<1>7. QueueTypes' /\ WorkInv'
  BY <1>1 DEF IInv, QueueTypes, WorkInv, Doing, Queued
<1>8. ChannelInv'
  BY <1>1 DEF IInv, ChannelInv, ConnectorAlive, Queued
<1>9. FlagTypes'
  BY <1>1 DEF IInv, FlagTypes
<1>10. LifeInv'
  BY <1>1 DEF IInv, LifeInv, Stopping
<1>11. ConnectInv'
  BY <1>1 DEF IInv, ConnectInv, Doing, Queued
<1>12. StopInv'
  BY <1>1 DEF IInv, StopInv, Stopping
<1>13. GoesOn'
  BY <1>1 DEF IInv, GoesOn, Doing, Queued
<1> QED  BY <1>6, <1>7, <1>8, <1>9, <1>10, <1>11, <1>12, <1>13 DEF IInv

\* HandleWrite() on a connected socket: the attempt becomes a connection, or ends
\* with the socket closed when connect_ is false.
LEMMA HandleWriteKeeps ==
  ASSUME IInv, HandleWrite
  PROVE  IInv'
<1>1. UNCHANGED <<connect_, client_connect_, restarting, phase, batch, timers, call,
                  destructed, keeper, started, gave_up, stopped, raced, connects>>
      /\ phase = "dispatch" /\ ready' \subseteq ready /\ state_ = "kConnecting" /\ state_' = "kConnected"
      /\ channel_' = "removed" /\ pending' = Append(pending, "ResetChannel")
  BY DEF HandleWrite, Handles, RemoveAndResetChannel, life, history
<1>2. PICK work \in Works : Doing(work)
  BY DEF IInv, WorkInv
<1>3. work = "attempt" /\ ~connection_ /\ sockets = 1 /\ timers = 0
  BY <1>1, <1>2, Numbers DEF Doing, One
<1>4. channel_ = "watching" /\ started /\ destructed # "connected" /\ (keeper \/ destructed = "no")
  BY <1>1, <1>3 DEF IInv, ChannelInv, ConnectInv, Doing, LifeInv, FlagTypes
<1>5. "close" \notin ready /\ "timer" \notin ready /\ "keeper" \notin ready
  BY <1>3, <1>4 DEF IInv, ReadyInv
<1>6. pending \in Seq(Functors) /\ batch \in 0 .. Len(pending) /\ "ResetChannel" \in Functors
  BY DEF IInv, QueueTypes, Functors
<1>7. /\ QueueTypes' /\ Queued("StartInLoop")' = Queued("StartInLoop")
      /\ Queued("ResetChannel")' = Queued("ResetChannel") + 1 /\ (Stopping' <=> Stopping)
  BY <1>1, <1>6, CountAppend, Appended DEF QueueTypes, Queued, Stopping
<1>8. connect_ => Doing("connection")'
  BY <1>1, <1>2, <1>3, <1>7, Numbers DEF HandleWrite, HandOver, Doing, One
<1>9. ~connect_ => Doing("nothing")' /\ ~connection_'
  BY <1>1, <1>2, <1>3, <1>7, Numbers DEF HandleWrite, HandOver, Doing, One
<1>10. WorkInv'
  BY <1>8, <1>9 DEF WorkInv, Works
<1>11. ReadyInv'
  BY <1>1, <1>5 DEF IInv, ReadyInv
<1>12. ChannelInv'
  BY <1>1, <1>2, <1>3, <1>4, <1>5, <1>7, Numbers DEF IInv, ChannelInv, ConnectorAlive, One, Doing
<1>13. FlagTypes'
  BY <1>1 DEF IInv, FlagTypes
<1>14. LifeInv'
  BY <1>1, <1>4, <1>9 DEF IInv, LifeInv
<1>15. ConnectInv'
  BY <1>1, <1>4 DEF IInv, ConnectInv
<1>16. StopInv'
  BY <1>1, <1>7 DEF IInv, StopInv
<1>17. GoesOn'
  <2>1. Doing("connection")' => ~Doing("nothing")'
    BY DEF Doing
  <2> QED  BY <1>1, <1>4, <1>8, <2>1 DEF IInv, GoesOn, StopInv
<1> QED  BY <1>7, <1>10, <1>11, <1>12, <1>13, <1>14, <1>15, <1>16, <1>17 DEF IInv

\* HandleError(): the attempt becomes a retry timer, or ends when connect_ is false.
LEMMA HandleErrorKeeps ==
  ASSUME IInv, HandleError
  PROVE  IInv'
<1>1. UNCHANGED <<connect_, client_connect_, connection_, restarting, phase, batch, call,
                  destructed, keeper, started, gave_up, stopped, raced, connects>>
      /\ phase = "dispatch" /\ ready' \subseteq ready /\ state_ = "kConnecting" /\ state_' = "kDisconnected"
      /\ channel_' = "removed" /\ pending' = Append(pending, "ResetChannel")
  BY DEF HandleError, Handles, Retry, RemoveAndResetChannel, client, life, history
<1>2. PICK work \in Works : Doing(work)
  BY DEF IInv, WorkInv
<1>3. work = "attempt" /\ ~connection_ /\ sockets = 1 /\ timers = 0
  BY <1>1, <1>2, Numbers DEF Doing, One
<1>4. channel_ = "watching" /\ started /\ destructed # "connected" /\ (keeper \/ destructed = "no")
  BY <1>1, <1>3 DEF IInv, ChannelInv, ConnectInv, Doing, LifeInv, FlagTypes
<1>5. "close" \notin ready /\ "timer" \notin ready /\ "keeper" \notin ready
  BY <1>3, <1>4 DEF IInv, ReadyInv
<1>6. pending \in Seq(Functors) /\ batch \in 0 .. Len(pending) /\ "ResetChannel" \in Functors
  BY DEF IInv, QueueTypes, Functors
<1>7. /\ QueueTypes' /\ Queued("StartInLoop")' = Queued("StartInLoop")
      /\ Queued("ResetChannel")' = Queued("ResetChannel") + 1 /\ (Stopping' <=> Stopping)
  BY <1>1, <1>6, CountAppend, Appended DEF QueueTypes, Queued, Stopping
<1>8. sockets' = 0 /\ timers' = IF connect_ THEN 1 ELSE 0
  <2>1. sockets' = sockets - 1 /\ (connect_ => timers' = timers + 1) /\ (~connect_ => timers' = timers)
    <3>1. Retry(timers) /\ sockets' = sockets - 1
      BY DEF HandleError
    <3> QED  BY <1>1, <3>1 DEF Retry
  <2> QED  BY <1>3, <2>1, Numbers
<1>9. IF connect_ THEN Doing("timer")' ELSE Doing("nothing")'
  BY <1>1, <1>2, <1>3, <1>7, <1>8, Numbers DEF Doing, One
<1>10. WorkInv'
  BY <1>9 DEF WorkInv, Works
<1>11. ReadyInv'
  BY <1>1, <1>5 DEF IInv, ReadyInv
<1>12. ChannelInv'
  BY <1>1, <1>2, <1>3, <1>4, <1>7, Numbers DEF IInv, ChannelInv, ConnectorAlive, One, Doing
<1>13. FlagTypes'
  BY <1>1 DEF IInv, FlagTypes
<1>14. LifeInv'
  BY <1>1, <1>4 DEF IInv, LifeInv
<1>15. ConnectInv'
  BY <1>1, <1>4 DEF IInv, ConnectInv
<1>16. StopInv'
  BY <1>1, <1>7 DEF IInv, StopInv
<1>17. GoesOn'
  <2>1. Doing("timer")' => ~Doing("nothing")'
    BY Numbers DEF Doing, One
  <2> QED  BY <1>1, <1>4, <1>9, <2>1 DEF IInv, GoesOn, StopInv
<1> QED  BY <1>7, <1>10, <1>11, <1>12, <1>13, <1>14, <1>15, <1>16, <1>17 DEF IInv

\* A retry timer runs StartInLoop() with no other timer left.
LEMMA RetryTimerKeeps ==
  ASSUME IInv, RetryTimer
  PROVE  IInv'
<1>1. UNCHANGED <<connect_, client_connect_, connection_, restarting, phase, pending, batch, call,
                  destructed, keeper, started, stopped, raced, connects>>
      /\ phase = "dispatch" /\ ready' = ready \ {"timer"} /\ "timer" \in ready
  BY DEF RetryTimer, Handles, client, life
<1>2. PICK work \in Works : Doing(work)
  BY DEF IInv, WorkInv
<1>3. timers = 1 /\ channel_ = "none"
  BY <1>1 DEF IInv, ReadyInv
<1>4. work = "timer" /\ ~connection_ /\ sockets = 0 /\ state_ # "kConnecting" /\ restarting = "no"
  BY <1>2, <1>3, Numbers DEF Doing, One
<1>5. PICK new : Begins(new)
  BY <1>3, <1>4, Starts, Numbers DEF IInv, RetryTimer
<1>6. started /\ destructed # "connected" /\ "close" \notin ready
  BY <1>3, <1>4, Numbers DEF IInv, ConnectInv, Doing, One, LifeInv, ReadyInv
<1>7. ~connect_ => new = "nothing"
  BY <1>1, <1>5 DEF Begins
<1>8. Doing(new)'
  BY <1>1, <1>2, <1>4, <1>5, Numbers DEF Doing, Begins, One, Queued
<1>9. QueueTypes' /\ WorkInv'
  BY <1>1, <1>5, <1>8 DEF IInv, QueueTypes, WorkInv, Works, Begins
<1>10. ReadyInv'
  <2>1. "keeper" \in ready => ~connect_
    BY DEF IInv, ReadyInv, LifeInv
  <2> QED  BY <1>1, <1>5, <1>6, <1>7, <2>1 DEF IInv, ReadyInv, Begins
<1>11. ChannelInv'
  <2>1. ConnectorAlive /\ Queued("ResetChannel") = 0 /\ Queued("StartInLoop") = 0
    BY <1>2, <1>3, <1>4, Numbers DEF IInv, ConnectorAlive, ChannelInv, One, Doing
  <2>2. Queued("ResetChannel")' = 0 /\ Queued("StartInLoop")' = 0 /\ channel_' # "removed"
    BY <1>1, <1>3, <1>5, <2>1 DEF Queued, Begins
  <2> QED  BY <1>1, <1>3, <1>4, <1>5, <1>6, <2>2, Numbers DEF ChannelInv, Begins, One
<1>12. FlagTypes'
  BY <1>1, <1>3, <1>5 DEF IInv, FlagTypes, Begins
<1>13. LifeInv'
  BY <1>1, <1>5, <1>6, <1>7 DEF IInv, LifeInv, Begins
<1>14. ConnectInv'
  BY <1>1, <1>6 DEF IInv, ConnectInv
<1>15. StopInv'
  BY <1>1, <1>5, <1>7 DEF IInv, StopInv, Stopping, Begins
<1>16. GoesOn'
  <2>1. new # "nothing" => ~Doing("nothing")'
    BY <1>5, <1>8, Numbers DEF Doing, One, Begins
  <2> QED  BY <1>1, <1>5, <1>6, <2>1 DEF IInv, GoesOn, StopInv, Begins
<1> QED  BY <1>9, <1>10, <1>11, <1>12, <1>13, <1>14, <1>15, <1>16 DEF IInv

\* RemoveConnection(): the connection becomes a restart, or ends.
LEMMA RemoveConnectionKeeps ==
  ASSUME IInv, RemoveConnection
  PROVE  IInv'
<1>1. UNCHANGED <<connect_, state_, channel_, client_connect_, phase, pending, batch, timers, call,
                  destructed, keeper, started, gave_up, stopped, raced, connects>>
      /\ phase = "dispatch" /\ ready' = ready \ {"close"} /\ "close" \in ready /\ ~connection_'
      /\ sockets' = sockets - 1
      /\ restarting' = IF destructed = "no" /\ retry_ /\ client_connect_ THEN "assign" ELSE "no"
  BY DEF RemoveConnection, Handles, connector, life, history
<1>2. PICK work \in Works : Doing(work)
  BY DEF IInv, WorkInv
<1>3. work = "connection" /\ connection_ /\ sockets = 1 /\ timers = 0 /\ state_ # "kConnecting"
      /\ Queued("StartInLoop") = 0
  BY <1>1, <1>2, Numbers DEF IInv, ReadyInv, Doing, One
<1>4. started /\ (destructed = "no" => channel_ = "none")
  BY <1>1, <1>3 DEF IInv, ConnectInv, Doing, ChannelInv, FlagTypes
<1>5. \/ restarting' = "assign" /\ destructed = "no" /\ Doing("restart")'
      \/ restarting' = "no" /\ ~(destructed = "no" /\ retry_ /\ client_connect_) /\ Doing("nothing")'
  BY <1>1, <1>2, <1>3, Numbers DEF Doing, One, Queued
<1>6. QueueTypes' /\ WorkInv'
  BY <1>1, <1>5 DEF IInv, QueueTypes, WorkInv, Works
<1>7. ReadyInv'
  BY <1>1 DEF IInv, ReadyInv
<1>8. ChannelInv'
  BY <1>1, <1>3, <1>4, <1>5 DEF IInv, ChannelInv, ConnectorAlive, Queued
<1>9. FlagTypes'
  BY <1>1 DEF IInv, FlagTypes
<1>10. LifeInv'
  BY <1>1, <1>5 DEF IInv, LifeInv, Stopping
<1>11. ConnectInv'
  BY <1>1, <1>4 DEF IInv, ConnectInv
<1>12. StopInv'
  BY <1>1 DEF IInv, StopInv, Stopping
<1>13. GoesOn'
  BY <1>1, <1>5 DEF IInv, GoesOn, Doing
<1> QED  BY <1>6, <1>7, <1>8, <1>9, <1>10, <1>11, <1>12, <1>13 DEF IInv

\* Restart() sets connect_ again: when it was false a call fell in between.
LEMMA RestartKeeps ==
  ASSUME IInv, Restart
  PROVE  IInv'
<1>1. UNCHANGED <<channel_, client_connect_, connection_, phase, ready, pending, batch, timers, call,
                  sockets, destructed, keeper, started, gave_up, stopped, connects>>
      /\ restarting = "assign" /\ restarting' = "start" /\ state_' = "kDisconnected" /\ connect_'
      /\ (raced' <=> raced \/ ~client_connect_)
  BY DEF Restart, loop, life
<1>2. PICK work \in Works : Doing(work)
  BY DEF IInv, WorkInv
<1>3. work = "restart" /\ state_ # "kConnecting" /\ ~Doing("nothing")
  BY <1>1, <1>2, Numbers DEF Doing, One
<1>4. started /\ destructed = "no"
  BY <1>1, <1>3 DEF IInv, ConnectInv, LifeInv
<1>5. Doing("restart")' /\ ~Doing("nothing")'
  BY <1>1, <1>2, <1>3 DEF Doing, Queued
<1>6. QueueTypes' /\ WorkInv' /\ GoesOn'
  BY <1>1, <1>5 DEF IInv, QueueTypes, WorkInv, Works, GoesOn
<1>7. ReadyInv'
  BY <1>1 DEF IInv, ReadyInv
<1>8. ChannelInv'
  BY <1>1, <1>3 DEF IInv, ChannelInv, ConnectorAlive, Queued
<1>9. FlagTypes'
  BY <1>1 DEF IInv, FlagTypes
<1>10. LifeInv'
  BY <1>1, <1>4 DEF IInv, LifeInv
<1>11. ConnectInv'
  BY <1>1, <1>4 DEF IInv, ConnectInv
<1>12. StopInv'
  BY <1>1, <1>4 DEF IInv, StopInv, Stopping
<1> QED  BY <1>6, <1>7, <1>8, <1>9, <1>10, <1>11, <1>12 DEF IInv

\* Restart() calls StartInLoop() with the channel of the last attempt reset.
LEMMA RestartStartsKeeps ==
  ASSUME IInv, RestartStarts
  PROVE  IInv'
<1>1. UNCHANGED <<connect_, client_connect_, connection_, phase, ready, pending, batch, call,
                  destructed, keeper, started, stopped, raced, connects>>
      /\ restarting = "start" /\ restarting' = "no"
  BY DEF RestartStarts, life
<1>2. PICK work \in Works : Doing(work)
  BY DEF IInv, WorkInv
<1>3. work = "restart" /\ state_ # "kConnecting" /\ timers = 0 /\ sockets = 0 /\ ~connection_
      /\ Queued("StartInLoop") = 0 /\ ~Doing("nothing")
  BY <1>1, <1>2, Numbers DEF Doing, One
<1>4. started /\ destructed = "no" /\ channel_ = "none" /\ Queued("ResetChannel") = 0
  BY <1>1, <1>3 DEF IInv, ConnectInv, LifeInv, ChannelInv, ConnectorAlive, One
<1>5. PICK new : Begins(new)
  BY <1>3, Starts DEF IInv, RestartStarts
<1>6. Doing(new)'
  BY <1>1, <1>3, <1>5, Numbers DEF Doing, Begins, One, Queued
<1>7. QueueTypes' /\ WorkInv'
  BY <1>1, <1>5, <1>6 DEF IInv, QueueTypes, WorkInv, Works, Begins
<1>8. ReadyInv'
  <2>1. "timer" \notin ready /\ "close" \notin ready /\ "keeper" \notin ready
    BY <1>3, <1>4, Numbers DEF IInv, ReadyInv, LifeInv
  <2> QED  BY <1>1, <2>1 DEF IInv, ReadyInv
<1>9. ChannelInv'
  <2>1. Queued("ResetChannel")' = 0 /\ Queued("StartInLoop")' = 0 /\ channel_' # "removed"
    BY <1>1, <1>3, <1>4, <1>5 DEF Queued, Begins
  <2> QED  BY <1>1, <1>4, <1>5, <2>1, Numbers DEF ChannelInv, Begins, One
<1>10. FlagTypes'
  BY <1>1, <1>4, <1>5 DEF IInv, FlagTypes, Begins
<1>11. LifeInv'
  BY <1>1, <1>4 DEF IInv, LifeInv
<1>12. ConnectInv'
  BY <1>1, <1>4 DEF IInv, ConnectInv
<1>13. StopInv'
  BY <1>1, <1>4, <1>5 DEF IInv, StopInv, Stopping, Begins
<1>14. GoesOn'
  <2>1. new # "nothing" => ~Doing("nothing")'
    BY <1>5, <1>6, Numbers DEF Doing, One, Begins
  <2> QED  BY <1>1, <1>4, <1>5, <2>1 DEF IInv, GoesOn, StopInv, Begins
<1> QED  BY <1>7, <1>8, <1>9, <1>10, <1>11, <1>12, <1>13, <1>14 DEF IInv

\* DoPendingFunctors() takes the queue, and ends: a ResetChannel() queued by
\* HandleWrite() is in the batch.
LEMMA FunctorsBeginAndEnd ==
  ASSUME IInv, BeginFunctors \/ EndFunctors
  PROVE  IInv'
<1>1. UNCHANGED <<connect_, state_, channel_, client_connect_, connection_, restarting, ready, pending, timers, call,
                  sockets, destructed, keeper, started, gave_up, stopped, raced, connects>>
      /\ restarting = "no" /\ ready = {}
  BY DEF BeginFunctors, EndFunctors, connector, client, life, history, IInv, ReadyInv
<1>2. QueueTypes'
  BY <1>1, SMTT(30) DEF IInv, QueueTypes, BeginFunctors, EndFunctors
<1>3. WorkInv' /\ ReadyInv'
  BY <1>1 DEF IInv, WorkInv, Doing, Queued, ReadyInv
<1>4. ChannelInv'
  <2>1. ASSUME BeginFunctors, Queued("ResetChannel") = 1 PROVE HasFirst(pending', batch', "ResetChannel")
    <3>1. Has(pending, "ResetChannel")
      BY <2>1, Occurrences, Numbers DEF IInv, QueueTypes, Queued
    <3>2. DOMAIN pending = 1 .. Len(pending)
      BY SMTT(30) DEF IInv, QueueTypes
    <3> QED  BY <2>1, <1>1, <3>1, <3>2 DEF BeginFunctors, Has, HasFirst
  <2>2. ASSUME EndFunctors PROVE phase = "functors" /\ ~HasFirst(pending, batch, "ResetChannel")
    BY <2>2, SMTT(30) DEF EndFunctors, HasFirst
  <2>3. ConnectorAlive' <=> ConnectorAlive
    BY <1>1 DEF ConnectorAlive
  <2>4. connection_ /\ channel_ = "removed" /\ destructed = "no" => BeginFunctors /\ Queued("ResetChannel") = 1
    BY <2>2 DEF IInv, ChannelInv, One, ConnectorAlive
  <2>5. connection_ /\ channel_ = "removed" /\ destructed = "no" => phase' = "functors" /\ HasFirst(pending', batch', "ResetChannel")
    BY <2>1, <2>4 DEF BeginFunctors
  <2> QED  BY <1>1, <2>3, <2>5 DEF IInv, ChannelInv, Queued
<1>5. FlagTypes'
  BY <1>1 DEF IInv, FlagTypes
<1>6. LifeInv'
  BY <1>1 DEF IInv, LifeInv, Stopping
<1>7. ConnectInv'
  BY <1>1 DEF IInv, ConnectInv, Doing, Queued
<1>8. StopInv'
  BY <1>1 DEF IInv, StopInv, Stopping
<1>9. GoesOn'
  BY <1>1 DEF IInv, GoesOn, Doing, Queued
<1> QED  BY <1>2, <1>3, <1>4, <1>5, <1>6, <1>7, <1>8, <1>9 DEF IInv

\* What taking the first functor of the batch does to the queue.
LEMMA Dequeued ==
  ASSUME QueueTypes, batch > 0
  PROVE  /\ Tail(pending) \in Seq(Functors) /\ batch - 1 \in 0 .. Len(Tail(pending)) /\ pending # <<>>
         /\ \A f : /\ Queued(f) \in Nat /\ (Head(pending) = f => Queued(f) # 0)
                   /\ CountIn(Tail(pending), f) = IF Head(pending) = f THEN Queued(f) - 1 ELSE Queued(f)
                   /\ Has(pending, f) <=> Has(Tail(pending), f) \/ Head(pending) = f
                   /\ HasFirst(pending, batch, f) <=> HasFirst(Tail(pending), batch - 1, f) \/ Head(pending) = f
<1>1. pending \in Seq(Functors) /\ batch \in 1 .. Len(pending)
  BY SMTT(30) DEF QueueTypes
<1>2. /\ Tail(pending) \in Seq(Functors) /\ batch - 1 \in 0 .. Len(Tail(pending)) /\ pending # <<>>
      /\ \A f : /\ Has(pending, f) <=> Has(Tail(pending), f) \/ Head(pending) = f
                /\ HasFirst(pending, batch, f) <=> HasFirst(Tail(pending), batch - 1, f) \/ Head(pending) = f
  BY <1>1, Taken
<1>3. \A f : Queued(f) \in Nat /\ (Queued(f) = 0 <=> ~Has(pending, f))
  BY <1>1, Occurrences DEF Queued
<1>4. \A f : CountIn(Tail(pending), f) = IF Head(pending) = f THEN Queued(f) - 1 ELSE Queued(f)
  BY <1>1, <1>2, CountTail DEF Queued
<1> QED  BY <1>2, <1>3, <1>4

\* The functor StartInLoop() that Connect() handed in.
LEMMA RunStartInLoopKeeps ==
  ASSUME IInv, RunStartInLoop
  PROVE  IInv'
<1>1. UNCHANGED <<connect_, client_connect_, connection_, restarting, phase, ready, call,
                  destructed, keeper, started, stopped, raced, connects>>
      /\ phase = "functors" /\ ConnectorAlive /\ batch > 0 /\ batch' = batch - 1
      /\ Head(pending) = "StartInLoop" /\ pending' = Tail(pending)
  BY DEF RunStartInLoop, Runs, client, life
<1>2. /\ QueueTypes' /\ Queued("StartInLoop") # 0 /\ Queued("StartInLoop")' = Queued("StartInLoop") - 1
      /\ Queued("ResetChannel")' = Queued("ResetChannel") /\ (Stopping' <=> Stopping)
  BY <1>1, Dequeued DEF IInv, QueueTypes, Queued, Stopping
<1>3. PICK work \in Works : Doing(work)
  BY DEF IInv, WorkInv
<1>4. Queued("StartInLoop") = 1 /\ state_ # "kConnecting" /\ timers = 0 /\ sockets = 0 /\ ~connection_
      /\ restarting = "no" /\ ~Doing("nothing")
  BY <1>2, <1>3, Numbers DEF Doing, One
<1>5. started /\ channel_ = "none" /\ Queued("ResetChannel") = 0 /\ Queued("StartInLoop")' = 0
  BY <1>1, <1>2, <1>4, Numbers DEF IInv, ConnectInv, ChannelInv, One
<1>6. PICK new : Begins(new)
  BY <1>4, Starts DEF IInv, RunStartInLoop
<1>7. Doing(new)'
  BY <1>1, <1>4, <1>5, <1>6, Numbers DEF Doing, Begins, One
<1>8. ~connect_ => new = "nothing"
  BY <1>1, <1>6 DEF Begins
<1>9. WorkInv'
  BY <1>6, <1>7 DEF WorkInv, Works, Begins
<1>10. ReadyInv'
  BY <1>1, <1>4 DEF IInv, ReadyInv
<1>11. destructed = "no" \/ keeper
  BY <1>1, <1>4, Numbers DEF ConnectorAlive
<1>12. ChannelInv'
  <2>1. channel_' # "removed"
    BY <1>5, <1>6 DEF Begins
  <2> QED  BY <1>1, <1>2, <1>4, <1>5, <1>6, <2>1, Numbers DEF ChannelInv, Begins, One
<1>13. FlagTypes'
  BY <1>1, <1>5, <1>6 DEF IInv, FlagTypes, Begins
<1>14. LifeInv'
  BY <1>1, <1>6, <1>8, <1>11 DEF IInv, LifeInv, Begins
<1>15. ConnectInv'
  BY <1>1, <1>5 DEF IInv, ConnectInv
<1>16. StopInv'
  BY <1>1, <1>2, <1>6, <1>8 DEF IInv, StopInv, Begins
<1>17. GoesOn'
  <2>1. new # "nothing" => ~Doing("nothing")'
    BY <1>6, <1>7, Numbers DEF Doing, One, Begins
  <2> QED  BY <1>1, <1>5, <1>6, <2>1 DEF IInv, GoesOn, StopInv, Begins
<1> QED  BY <1>2, <1>9, <1>10, <1>12, <1>13, <1>14, <1>15, <1>16, <1>17 DEF IInv

\* The functor StopInLoop(): an attempt is taken out of the loop, then Retry() sees
\* connect_.
LEMMA RunStopInLoopKeeps ==
  ASSUME IInv, RunStopInLoop
  PROVE  IInv'
<1>1. UNCHANGED <<connect_, client_connect_, connection_, restarting, phase, ready, call,
                  destructed, keeper, started, gave_up, raced, connects>>
      /\ phase = "functors" /\ ConnectorAlive /\ batch > 0 /\ batch' = batch - 1
      /\ Head(pending) = "StopInLoop" /\ (stopped' <=> ~client_connect_ \/ destructed # "no") /\ stopped' \in BOOLEAN
      /\ StopInLoop(Tail(pending))
  BY DEF RunStopInLoop, Runs, client, life
<1> DEFINE q == Tail(pending)
<1>2. /\ q \in Seq(Functors) /\ batch' \in 0 .. Len(q) /\ Has(pending, "StopInLoop")
      /\ CountIn(q, "StartInLoop") = Queued("StartInLoop") /\ CountIn(q, "ResetChannel") = Queued("ResetChannel")
      /\ (HasFirst(pending, batch, "ResetChannel") => HasFirst(q, batch', "ResetChannel"))
  BY <1>1, Dequeued DEF IInv
<1> HIDE DEF q
<1>3. PICK work \in Works : Doing(work)
  BY DEF IInv, WorkInv
<1>4. ~(client_connect_ /\ destructed = "no") /\ (~raced => ~connect_)
  BY <1>2 DEF IInv, StopInv, Stopping
<1>5. GoesOn'
  BY <1>1, <1>4 DEF GoesOn
<1>6. CASE state_ # "kConnecting"
  <2>1. pending' = q /\ UNCHANGED <<state_, channel_, sockets, timers>>
    BY <1>1, <1>6 DEF StopInLoop, q
  <2>2. QueueTypes' /\ WorkInv'
    BY <1>1, <1>2, <1>3, <2>1 DEF QueueTypes, WorkInv, Doing, Queued
  <2>3. ReadyInv'
    BY <1>1, <2>1 DEF IInv, ReadyInv
  <2>4. ChannelInv'
    BY <1>1, <1>2, <1>4, <2>1 DEF IInv, ChannelInv, ConnectorAlive, Queued
  <2>5. FlagTypes'
    BY <1>1, <2>1 DEF IInv, FlagTypes
  <2>6. LifeInv'
    BY <1>1, <1>6, <2>1 DEF IInv, LifeInv
  <2>7. StopInv'
    BY <1>1, <1>4, <1>6, <2>1 DEF IInv, StopInv
  <2>8. ConnectInv'
    BY <1>1, <1>2, <2>1 DEF IInv, ConnectInv, Doing, Queued
  <2> QED  BY <1>5, <2>2, <2>3, <2>4, <2>5, <2>6, <2>7, <2>8 DEF IInv
<1>7. CASE state_ = "kConnecting"
  <2>1. /\ pending' = Append(q, "ResetChannel") /\ channel_' = "removed" /\ state_' = "kDisconnected"
        /\ sockets' = sockets - 1 /\ (connect_ => timers' = timers + 1) /\ (~connect_ => timers' = timers)
    BY <1>1, <1>7 DEF StopInLoop, RemoveAndResetChannel, Retry, q
  <2>2. work = "attempt" /\ ~connection_ /\ sockets = 1 /\ timers = 0 /\ restarting = "no" /\ Queued("StartInLoop") = 0
    BY <1>3, <1>7, Numbers DEF Doing, One
  <2>3. Queued("ResetChannel") = 0 /\ destructed # "connected" /\ (destructed = "no" \/ keeper) /\ started
    BY <1>1, <1>7 DEF IInv, ChannelInv, LifeInv, ConnectInv, Doing, FlagTypes, One
  <2>4. "ResetChannel" \in Functors
    BY DEF Functors
  <2>5. QueueTypes' /\ Queued("StartInLoop")' = 0 /\ Queued("ResetChannel")' = 1
    <3>1. pending' \in Seq(Functors) /\ batch' \in 0 .. Len(pending')
      BY <1>2, <2>1, <2>4, Appended
    <3>2. /\ CountIn(pending', "StartInLoop") = CountIn(q, "StartInLoop")
          /\ CountIn(pending', "ResetChannel") = CountIn(q, "ResetChannel") + 1
      BY <1>2, <2>1, <2>4, CountAppend
    <3> QED  BY <1>2, <2>2, <2>3, <3>1, <3>2, Numbers DEF QueueTypes, Queued
  <2>6. IF connect_ THEN Doing("timer")' ELSE Doing("nothing")'
    BY <1>1, <2>1, <2>2, <2>5, Numbers DEF Doing, One
  <2>7. WorkInv'
    BY <2>6 DEF WorkInv, Works
  <2>8. ReadyInv'
    BY <1>1 DEF IInv, ReadyInv
  <2>9. ChannelInv'
    BY <1>1, <1>4, <2>1, <2>2, <2>3, <2>5, Numbers DEF ChannelInv, ConnectorAlive, One
  <2>10. FlagTypes'
    BY <1>1, <2>1 DEF IInv, FlagTypes
  <2>11. LifeInv'
    BY <1>1, <2>1, <2>3 DEF IInv, LifeInv
  <2>12. StopInv'
    BY <1>1, <1>4, <2>1 DEF IInv, StopInv
  <2>13. ConnectInv'
    BY <1>1, <2>3 DEF IInv, ConnectInv
  <2> QED  BY <1>5, <2>5, <2>7, <2>8, <2>9, <2>10, <2>11, <2>12, <2>13 DEF IInv
<1> QED  BY <1>6, <1>7

\* The functor ResetChannel() of a connector that is alive.
LEMMA ResetChannelKeeps ==
  ASSUME IInv, ResetChannel
  PROVE  IInv'
<1>1. UNCHANGED <<connect_, state_, client_connect_, connection_, restarting, phase, ready, timers, call, sockets,
                  destructed, keeper, started, gave_up, stopped, raced, connects>>
      /\ phase = "functors" /\ ConnectorAlive /\ batch > 0 /\ batch' = batch - 1
      /\ Head(pending) = "ResetChannel" /\ pending' = Tail(pending) /\ channel_' = "none"
  BY DEF ResetChannel, Runs, client, life, history
<1>2. /\ QueueTypes' /\ Queued("StartInLoop")' = Queued("StartInLoop") /\ (Stopping' <=> Stopping)
      /\ Queued("ResetChannel") # 0 /\ Queued("ResetChannel")' = Queued("ResetChannel") - 1
  BY <1>1, Dequeued DEF IInv, QueueTypes, Queued, Stopping
<1>3. channel_ = "removed" /\ Queued("ResetChannel") = 1 /\ state_ # "kConnecting" /\ started
  BY <1>1, <1>2 DEF IInv, ChannelInv, One
<1>4. WorkInv' /\ GoesOn'
  BY <1>1, <1>2 DEF IInv, WorkInv, GoesOn, Doing
<1>5. ReadyInv'
  BY <1>1 DEF IInv, ReadyInv
<1>6. ChannelInv'
  BY <1>1, <1>2, <1>3, Numbers DEF ChannelInv, One
<1>7. FlagTypes'
  BY <1>1 DEF IInv, FlagTypes
<1>8. LifeInv'
  BY <1>1, <1>2 DEF IInv, LifeInv
<1>9. ConnectInv'
  BY <1>1, <1>3 DEF IInv, ConnectInv
<1>10. StopInv'
  BY <1>1, <1>2 DEF IInv, StopInv
<1> QED  BY <1>2, <1>4, <1>5, <1>6, <1>7, <1>8, <1>9, <1>10 DEF IInv

\* A functor of a connector that is gone.
LEMMA RunDanglingKeeps ==
  ASSUME IInv, RunDangling
  PROVE  IInv'
<1>1. UNCHANGED <<connect_, state_, channel_, client_connect_, connection_, restarting, phase, ready, timers, call,
                  sockets, destructed, keeper, started, gave_up, stopped, raced, connects>>
      /\ phase = "functors" /\ ~ConnectorAlive /\ batch > 0 /\ batch' = batch - 1 /\ pending' = Tail(pending)
  BY DEF RunDangling, connector, client, life, history
<1>2. destructed # "no" /\ ~keeper
  BY <1>1 DEF ConnectorAlive
<1>3. /\ QueueTypes' /\ (Stopping' => Stopping)
      /\ IF Head(pending) = "StartInLoop"
         THEN Queued("StartInLoop") # 0 /\ Queued("StartInLoop")' = Queued("StartInLoop") - 1
         ELSE Queued("StartInLoop")' = Queued("StartInLoop")
  BY <1>1, Dequeued DEF IInv, QueueTypes, Queued, Stopping
<1>4. PICK work \in Works : Doing(work)
  BY DEF IInv, WorkInv
<1>5. \/ Doing(work)' /\ Queued("StartInLoop")' = Queued("StartInLoop")
      \/ work = "handed in" /\ Doing("nothing")' /\ Queued("StartInLoop")' = 0
  BY <1>1, <1>3, <1>4, Numbers DEF Doing, One
<1>6. WorkInv'
  BY <1>5 DEF WorkInv, Works
<1>7. ~started => Doing("nothing")'
  <2>1. ~started => work = "nothing"
    BY <1>4, OneWork DEF IInv, ConnectInv, Works
  <2> QED  BY <1>5, <2>1
<1>8. ReadyInv'
  BY <1>1 DEF IInv, ReadyInv
<1>9. ChannelInv'
  <2>1. Queued("StartInLoop")' = 1 => Queued("StartInLoop") = 1
    BY <1>5, Numbers
  <2> QED  BY <1>1, <1>2, <2>1 DEF IInv, ChannelInv, ConnectorAlive
<1>10. FlagTypes'
  BY <1>1 DEF IInv, FlagTypes
<1>11. LifeInv'
  BY <1>1, <1>2 DEF IInv, LifeInv
<1>12. ConnectInv'
  BY <1>1, <1>7 DEF IInv, ConnectInv
<1>13. StopInv'
  BY <1>1, <1>2, <1>3 DEF IInv, StopInv
<1>14. GoesOn'
  BY <1>1, <1>2 DEF GoesOn
<1> QED  BY <1>3, <1>6, <1>8, <1>9, <1>10, <1>11, <1>12, <1>13, <1>14 DEF IInv

------------------------------------------------------------------------------
(* The end of the client. *)

\* ~TcpClient(), with a connection and without one.
LEMMA DestructKeeps ==
  ASSUME IInv, Destruct
  PROVE  IInv'
<1>1. UNCHANGED <<state_, channel_, client_connect_, connection_, restarting, phase, ready, batch, timers, call,
                  sockets, started, gave_up, stopped, raced, connects>>
      /\ destructed = "no" /\ restarting = "no" /\ \A t \in Threads : call[t] = NoCall
  BY DEF Destruct, MayDestruct, LoopThreadInUserCode, client, history
<1>2. ~keeper /\ "keeper" \notin ready
  BY <1>1 DEF IInv, LifeInv, ReadyInv
<1>3. \A t \in Threads : call'[t][1] = "none"
  BY <1>1, Pairs
<1>4. GoesOn' /\ destructed' # "no" /\ destructed' \in {"connected", "stopping"}
  BY DEF GoesOn, Destruct
<1>5. FlagTypes'
  BY <1>1, <1>4 DEF IInv, FlagTypes
<1>6. PICK work \in Works : Doing(work)
  BY DEF IInv, WorkInv
<1>7. CASE connection_
  <2>1. destructed' = "connected" /\ UNCHANGED <<connect_, pending, keeper>>
    BY <1>7 DEF Destruct
  <2>2. timers = 0 /\ state_ # "kConnecting"
    BY <1>6, <1>7, Numbers DEF Doing, One
  <2>3. QueueTypes' /\ WorkInv' /\ ReadyInv'
    BY <1>1, <2>1 DEF IInv, QueueTypes, WorkInv, Doing, Queued, ReadyInv
  <2>4. ChannelInv'
    BY <1>1, <1>2, <2>1, <2>2, Numbers DEF IInv, ChannelInv, ConnectorAlive, Queued
  <2>5. LifeInv'
    BY <1>1, <1>2, <2>1, <2>2 DEF LifeInv
  <2>6. ConnectInv'
    BY <1>1, <2>1 DEF IInv, ConnectInv, Doing, Queued
  <2>7. StopInv'
    BY <1>1, <2>1 DEF IInv, StopInv, Stopping
  <2> QED  BY <1>4, <1>5, <2>3, <2>4, <2>5, <2>6, <2>7 DEF IInv
<1>8. CASE ~connection_
  <2>1. destructed' = "stopping" /\ keeper' /\ ~connect_' /\ pending' = Append(pending, "StopInLoop")
    BY <1>8 DEF Destruct
  <2>2. pending \in Seq(Functors) /\ batch \in 0 .. Len(pending) /\ "StopInLoop" \in Functors
    BY DEF IInv, QueueTypes, Functors
  <2>3. /\ QueueTypes' /\ Queued("StartInLoop")' = Queued("StartInLoop") /\ Stopping'
        /\ Queued("ResetChannel")' = Queued("ResetChannel")
    BY <1>1, <2>1, <2>2, CountAppend, Appended DEF QueueTypes, Queued, Stopping
  <2>4. WorkInv' /\ ReadyInv'
    BY <1>1, <1>2, <2>3 DEF IInv, WorkInv, Doing, ReadyInv
  <2>5. ChannelInv'
    BY <1>1, <1>8, <2>1, <2>3 DEF IInv, ChannelInv, ConnectorAlive
  <2>6. LifeInv'
    BY <1>1, <1>8, <2>1, <2>3 DEF LifeInv
  <2>7. ConnectInv'
    BY <1>1, <1>3, <2>3 DEF IInv, ConnectInv, Doing
  <2>8. StopInv'
    BY <1>1, <2>1 DEF IInv, StopInv
  <2> QED  BY <1>4, <1>5, <2>3, <2>4, <2>5, <2>6, <2>7, <2>8 DEF IInv
<1> QED  BY <1>7, <1>8

\* The timer of ~TcpClient() lets the connector go.
LEMMA RemoveConnectorKeeps ==
  ASSUME IInv, RemoveConnector
  PROVE  IInv'
<1>1. UNCHANGED <<connect_, state_, channel_, client_connect_, connection_, restarting, phase, pending, batch, timers,
                  call, sockets, destructed, started, gave_up, stopped, raced, connects>>
      /\ phase = "dispatch" /\ "keeper" \in ready /\ ready' = ready \ {"keeper"} /\ ~keeper'
  BY DEF RemoveConnector, Handles, connector, client, history
<1>2. keeper /\ channel_ = "none" /\ destructed = "stopping" /\ state_ # "kConnecting"
  BY <1>1 DEF IInv, ReadyInv, LifeInv, ChannelInv
<1>3. QueueTypes' /\ WorkInv'
  BY <1>1 DEF IInv, QueueTypes, WorkInv, Doing, Queued
<1>4. ReadyInv'
  BY <1>1 DEF IInv, ReadyInv
<1>5. ChannelInv'
  BY <1>1, <1>2 DEF IInv, ChannelInv, ConnectorAlive, Queued
<1>6. FlagTypes'
  BY <1>1 DEF IInv, FlagTypes
<1>7. LifeInv'
  BY <1>1, <1>2 DEF IInv, LifeInv
<1>8. ConnectInv'
  BY <1>1 DEF IInv, ConnectInv, Doing, Queued
<1>9. StopInv'
  BY <1>1 DEF IInv, StopInv, Stopping
<1>10. GoesOn'
  BY <1>1, <1>2 DEF GoesOn
<1> QED  BY <1>3, <1>4, <1>5, <1>6, <1>7, <1>8, <1>9, <1>10 DEF IInv

------------------------------------------------------------------------------
(* The theorems. *)

\* A new client satisfies the invariant.
LEMMA InitEstablishes == Init => IInv
<1> SUFFICES ASSUME Init PROVE IInv
  OBVIOUS
<1> USE DEF Init, ConnectorInit, ClientInit
<1>1. pending \in Seq(Functors) /\ batch \in 0 .. Len(pending) /\ \A f : ~Has(pending, f)
  BY SMTT(30) DEF Functors, Has
<1>2. \A f : Queued(f) = 0
  BY <1>1, Occurrences DEF Queued
<1>3. Doing("nothing")
  BY <1>2 DEF Doing, One
<1>4. QueueTypes /\ WorkInv /\ ReadyInv
  BY <1>1, <1>3 DEF QueueTypes, WorkInv, Works, ReadyInv
<1>5. \A t \in Threads : call[t] = NoCall /\ call[t][1] = "none"
  BY Pairs
<1>6. FlagTypes
  BY Pairs DEF FlagTypes
<1>7. ChannelInv
  BY <1>2 DEF ChannelInv, One
<1>8. LifeInv /\ GoesOn
  BY DEF LifeInv, GoesOn
<1>9. ConnectInv
  BY <1>3, <1>5 DEF ConnectInv
<1>10. StopInv
  BY <1>1, <1>5 DEF StopInv, Stopping
<1> QED  BY <1>4, <1>6, <1>7, <1>8, <1>9, <1>10 DEF IInv

\* Every step keeps the invariant, when Connect() is called once.
LEMMA StepKeeps ==
  ASSUME ConnectsOnce, IInv, [Next]_vars
  PROVE  IInv'
<1>1. CASE UNCHANGED vars
  <2>1. UNCHANGED <<connect_, state_, channel_, client_connect_, connection_, restarting, phase, ready, pending, batch,
                    timers, call, sockets, destructed, keeper, started, gave_up, stopped, raced, connects>>
    BY <1>1 DEF vars, connector, client, loop, life, history
  <2>2. QueueTypes' /\ WorkInv' /\ ReadyInv' /\ FlagTypes'
    BY <2>1 DEF IInv, QueueTypes, WorkInv, Doing, Queued, ReadyInv, FlagTypes
  <2>3. ChannelInv' /\ LifeInv'
    BY <2>1 DEF IInv, ChannelInv, ConnectorAlive, Queued, LifeInv, Stopping
  <2>4. ConnectInv' /\ GoesOn'
    BY <2>1 DEF IInv, ConnectInv, GoesOn, Doing, Queued
  <2>5. StopInv'
    BY <2>1 DEF IInv, StopInv, Stopping
  <2> QED  BY <2>2, <2>3, <2>4, <2>5 DEF IInv
<1>2. CASE LoopStep
  BY <1>2, PollKeeps, HandleWriteKeeps, HandleErrorKeeps, RetryTimerKeeps, RemoveConnectionKeeps, RestartKeeps,
     RestartStartsKeeps, FunctorsBeginAndEnd, RunStartInLoopKeeps, RunStopInLoopKeeps, ResetChannelKeeps,
     RunDanglingKeeps DEF LoopStep
<1>3. CASE Connect \/ Disconnect \/ Stop
  BY <1>3, ConnectKeeps, DisconnectKeeps, StopKeeps DEF ConnectsOnce
<1>4. ASSUME NEW t \in Threads, \/ \E method \in Methods : CallFrom(t, method)
                                \/ AssignFrom(t) \/ QueueFrom(t)
      PROVE  IInv'
  BY <1>4, ConnectCallKeeps, OtherCallKeeps, AssignKeeps, QueueConnectKeeps, QueueStopKeeps DEF Methods, ConnectsOnce
<1>5. CASE Destruct \/ RemoveConnector
  BY <1>5, DestructKeeps, RemoveConnectorKeeps
<1> QED  BY <1>1, <1>2, <1>3, <1>4, <1>5 DEF Next

\* What is under way determines the number of attempts and of open sockets.
LEMMA Sums ==
  ASSUME NEW work \in Works, Doing(work)
  PROVE  Attempts = One(work # "nothing") /\ NoSocketLeak
<1>1. /\ Queued("StartInLoop") = One(work = "handed in") /\ timers = One(work = "timer")
      /\ One(state_ = "kConnecting") = One(work = "attempt") /\ One(connection_) = One(work = "connection")
      /\ One(restarting # "no") = One(work = "restart")
      /\ sockets = One(work \in {"attempt", "connection"})
  BY DEF Doing, One
<1>2. /\ Attempts = One(work = "handed in") + One(work = "timer") + One(work = "attempt")
                      + One(work = "connection") + One(work = "restart")
      /\ NoSocketLeak <=> One(work \in {"attempt", "connection"}) = One(work = "attempt") + One(work = "connection")
  BY <1>1 DEF Attempts, NoSocketLeak
<1>3. /\ One(work = "handed in") + One(work = "timer") + One(work = "attempt")
           + One(work = "connection") + One(work = "restart") = One(work # "nothing")
      /\ One(work \in {"attempt", "connection"}) = One(work = "attempt") + One(work = "connection")
  <2>1. /\ 0 + 0 + 0 + 0 + 0 = 0 /\ 1 + 0 + 0 + 0 + 0 = 1 /\ 0 + 1 + 0 + 0 + 0 = 1
        /\ 0 + 0 + 1 + 0 + 0 = 1 /\ 0 + 0 + 0 + 1 + 0 = 1 /\ 0 + 0 + 0 + 0 + 1 = 1
        /\ 0 + 0 = 0 /\ 1 + 0 = 1 /\ 0 + 1 = 1
    BY SMTT(30)
  <2> QED  BY <2>1 DEF Works, One
<1> QED  BY <1>2, <1>3

\* The inductive invariant holds throughout: what StartInLoop(), Retry(), Restart(),
\* StopInLoop() and the handlers pass to each other is one thing at a time.
THEOREM Invariance ==
  ASSUME ConnectsOnce
  PROVE  Spec => []IInv
<1>1. Init => IInv
  BY InitEstablishes
<1>2. IInv /\ [Next]_vars => IInv'
  BY StepKeeps
<1> QED  BY <1>1, <1>2, PTL DEF Spec

\* With one Connect() there is one attempt at a time, StartInLoop() and Connecting()
\* find what their asserts demand, and the connector goes without its channel in
\* the loop: for any number of threads, calls of Disconnect() and Stop(), and
\* retries.
THEOREM AttemptsAreOne ==
  ASSUME ConnectsOnce
  PROVE  Spec => []OneAttempt
<1>1. IInv => OneAttempt
  <2> SUFFICES ASSUME IInv PROVE OneAttempt
    OBVIOUS
  <2>1. PICK work \in Works : Doing(work)
    BY DEF IInv, WorkInv
  <2>2. Attempts = 0 \/ Attempts = 1
    BY <2>1, Sums DEF One
  <2>3. Attempts <= 1
    BY <2>2, SMTT(30)
  <2> QED  BY <2>3 DEF OneAttempt, IInv, ChannelInv, LifeInv, ConnectorAlive, FlagTypes
<1> QED  BY <1>1, Invariance, PTL

\* Every socket that Connect() opened is closed once: those open are the one of
\* the attempt and the one of the connection (HandleWrite(), Retry(), StopInLoop(),
\* RemoveConnection()).
THEOREM SocketsAccounted ==
  ASSUME ConnectsOnce
  PROVE  Spec => []NoSocketLeak
<1>1. IInv => NoSocketLeak
  BY Sums DEF IInv, WorkInv
<1> QED  BY <1>1, Invariance, PTL

\* A client that retries and was not told to disconnect or stop always has
\* something under way, unless Connect() met an error that it does not retry.
THEOREM RetriesGoOn ==
  ASSUME ConnectsOnce
  PROVE  Spec => []NeverForgets
<1>1. IInv => NeverForgets
  <2> SUFFICES ASSUME IInv, ~Doing("nothing") PROVE Attempts >= 1
    BY DEF IInv, GoesOn, NeverForgets
  <2>1. PICK work \in Works : Doing(work)
    BY DEF IInv, WorkInv
  <2>2. work # "nothing"
    BY <2>1
  <2>3. Attempts = 1
    BY <2>1, <2>2, Sums DEF One
  <2> QED  BY <2>3, SMTT(30)
<1> QED  BY <1>1, Invariance, PTL

\* After StopInLoop() nothing is tried and no timer tries again, unless another
\* thread's call fell between RemoveConnection()'s test and Restart(); a destructed
\* client is given no connection.
THEOREM StopHolds ==
  ASSUME ConnectsOnce
  PROVE  Spec => []StopIsFinal
<1>1. IInv => StopIsFinal
  BY Numbers DEF IInv, StopIsFinal, LifeInv, StopInv
<1> QED  BY <1>1, Invariance, PTL
==============================================================================
