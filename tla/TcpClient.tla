------------------------------ MODULE TcpClient ------------------------------
(***************************************************************************)
(* net/connector.cpp with net/tcp_client.cpp: a client, the connector that *)
(* makes its connections and retries, and the loop both live in.  The      *)
(* loop's thread and other threads call Connect(), Disconnect() and Stop() *)
(* of the client; on another thread each assignment and the hand-in of the *)
(* functor are separate steps.                                             *)
(*                                                                         *)
(* An iteration of the loop is: Poll() fixes what has happened (ready),    *)
(* the handlers run, then the functors queued so far.  A retry timer is at *)
(* least kInitRetryDelayMs away, the one of ~TcpClient() a second: they    *)
(* are not due before the functors that were queued when they were set,    *)
(* and those that these queue, have run.  The TcpConnection is abstracted  *)
(* to whether there is one; it closes at any time.  The user destructs the *)
(* client on the loop's thread, when no other thread is in a call of it.   *)
(***************************************************************************)
EXTENDS Integers, Sequences, FiniteSets

CONSTANTS LoopThread,         \* the thread of loop_
          Threads,            \* other threads that use the client
          Calls,              \* the methods they and the loop's thread call
          retry_,             \* EnableRetry() was called
          kInitRetryDelayMs,
          kMaxRetryDelayMs,
          MaxConnects,        \* bound: calls of Connect()
          MaxStops            \* bound: calls of Disconnect() and Stop()

Methods == {"Connect", "Disconnect", "Stop"}

ASSUME CallersAssumption ==
  LoopThread \notin Threads /\ Calls \subseteq Methods /\ retry_ \in BOOLEAN
ASSUME DelayAssumption ==
  /\ kInitRetryDelayMs \in Nat \ {0} /\ kMaxRetryDelayMs \in Nat
  /\ kInitRetryDelayMs <= kMaxRetryDelayMs
ASSUME BoundsAssumption == MaxConnects \in Nat /\ MaxStops \in Nat

VARIABLES
  connect_, state_, retry_delay_ms_,  \* of the Connector
  channel_,         \* of the Connector: none, watching, or removed from the loop
  client_connect_,  \* TcpClient's connect_
  connection_,      \* TcpClient's connection_ is set, or was when it was destructed
  restarting,       \* how far RemoveConnection() is with calling Restart()
  phase, ready,     \* the loop's iteration, events that Poll() reported
  pending, batch,   \* functors, and how many of them the loop is running
  timers,           \* StartInLoop() timers of Retry()
  call,             \* per other thread: how far its call has come
  sockets,          \* open descriptors made by Connect()
  destructed,       \* the TcpClient is gone: "no", "connected" or "stopping"
  keeper,           \* the RemoveConnector() timer of ~TcpClient() is set
  started, gave_up, stopped, raced, connects, stops
                    \* history: StartInLoop() was handed in, Connect() met an
                    \* error it does not retry, StopInLoop() ran and no
                    \* Connect() was called since, Restart() ran after another
                    \* thread's Disconnect() or Stop() began, calls made

connector == <<connect_, state_, retry_delay_ms_, channel_>>
client == <<client_connect_, connection_, restarting>>
loop == <<phase, ready, pending, batch, timers>>
history == <<started, gave_up, stopped, raced, connects, stops>>
life == <<destructed, keeper>>
vars == <<connector, client, loop, call, sockets, life, history>>

NoCall == <<"none", "none">>

ConnectorInit ==
  /\ connect_ = FALSE /\ state_ = "kDisconnected"
  /\ retry_delay_ms_ = kInitRetryDelayMs /\ channel_ = "none"

ClientInit ==
  /\ client_connect_ = TRUE /\ connection_ = FALSE /\ restarting = "no"
  /\ destructed = "no" /\ keeper = FALSE

Init ==
  /\ ConnectorInit /\ ClientInit
  /\ phase = "poll" /\ ready = {} /\ pending = <<>> /\ batch = 0 /\ timers = 0
  /\ call = [t \in Threads |-> NoCall]
  /\ sockets = 0
  /\ started = FALSE /\ gave_up = FALSE /\ stopped = FALSE /\ raced = FALSE /\ connects = 0 /\ stops = 0

------------------------------------------------------------------------------
(* The connector.  Its functions test connect_' : the value that connect_    *)
(* has when they run.  due is the number of retry timers they start from.    *)

\* The next value of retry_delay_ms_ in Retry().
NextDelay ==
  IF retry_delay_ms_ * 2 < kMaxRetryDelayMs THEN retry_delay_ms_ * 2 ELSE kMaxRetryDelayMs

RetryNever(due) ==
  /\ state_' = "kDisconnected"
  /\ timers' = due
  /\ UNCHANGED retry_delay_ms_

RetryKeepsState(due) ==
  /\ IF connect_'
     THEN timers' = due + 1 /\ retry_delay_ms_' = NextDelay
     ELSE timers' = due /\ UNCHANGED retry_delay_ms_
  /\ UNCHANGED state_

\* Retry() after it has closed the socket
Retry(due) ==
  /\ state_' = "kDisconnected"
  /\ IF connect_'
     THEN timers' = due + 1 /\ retry_delay_ms_' = NextDelay
     ELSE timers' = due /\ UNCHANGED retry_delay_ms_

\* RemoveAndResetChannel(), with q the queue of functors before it
RemoveAndResetChannel(q) ==
  /\ channel_' = "removed"
  /\ pending' = Append(q, "ResetChannel")

Connecting ==
  /\ state_' = "kConnecting"
  /\ channel_' = "watching"

\* Connector::Connect(): under way, failed for now, or failed for good
ConnectSocket(due) ==
  \/ Connecting /\ sockets' = sockets + 1 /\ timers' = due /\ UNCHANGED <<retry_delay_ms_, gave_up>>
  \/ Retry(due) /\ UNCHANGED <<channel_, sockets, gave_up>>
  \/ gave_up' = TRUE /\ timers' = due /\ UNCHANGED <<state_, retry_delay_ms_, channel_, sockets>>

StartInLoop(due) ==
  \/ connect_' /\ ConnectSocket(due)
  \/ /\ ~connect_' /\ timers' = due
     /\ UNCHANGED <<state_, retry_delay_ms_, channel_, sockets, gave_up>>

StopKeepsAttempt(q) ==
  pending' = q /\ UNCHANGED <<state_, retry_delay_ms_, channel_, sockets, timers>>

\* StopInLoop(), with q the queue of functors before it
StopInLoop(q) ==
  IF state_ = "kConnecting"
  THEN RemoveAndResetChannel(q) /\ Retry(timers) /\ sockets' = sockets - 1
  ELSE pending' = q /\ UNCHANGED <<state_, retry_delay_ms_, channel_, sockets, timers>>

------------------------------------------------------------------------------
(* Calls of the client's methods. *)

\* The user's first call is Connect(), and it has returned before the others.
MayCall(method) ==
  /\ method \in Calls /\ destructed = "no"
  /\ IF method = "Connect" THEN connects < MaxConnects ELSE stops < MaxStops /\ started

CountCall(method) ==
  IF method = "Connect"
  THEN connects' = connects + 1 /\ UNCHANGED stops
  ELSE stops' = stops + 1 /\ UNCHANGED connects

\* On the loop's thread, from another handler or functor.
LoopThreadInUserCode == restarting = "no" /\ phase # "poll"

Connect ==
  /\ MayCall("Connect") /\ LoopThreadInUserCode
  /\ CountCall("Connect")
  /\ client_connect_' = TRUE /\ connect_' = TRUE
  /\ StartInLoop(timers)
  /\ started' = TRUE /\ stopped' = FALSE
  /\ UNCHANGED <<connection_, restarting, phase, ready, pending, batch, call, life, raced>>

Disconnect ==
  /\ MayCall("Disconnect") /\ LoopThreadInUserCode
  /\ CountCall("Disconnect")
  /\ client_connect_' = FALSE
  /\ UNCHANGED <<connector, connection_, restarting, loop, call, life, sockets, started, gave_up, stopped, raced>>

Stop ==
  /\ MayCall("Stop") /\ LoopThreadInUserCode
  /\ CountCall("Stop")
  /\ client_connect_' = FALSE /\ connect_' = FALSE
  /\ pending' = Append(pending, "StopInLoop")
  /\ UNCHANGED <<state_, retry_delay_ms_, channel_, connection_, restarting, phase, ready, batch,
                 timers, call, life, sockets, started, gave_up, stopped, raced>>

\* On another thread: TcpClient's assignment, the Connector's assignment (no
\* part of Disconnect()), the functor.
CallFrom(t, method) ==
  /\ MayCall(method) /\ call[t] = NoCall
  /\ CountCall(method)
  /\ client_connect_' = (method = "Connect")
  /\ stopped' = (stopped /\ method # "Connect")
  /\ call' = [call EXCEPT ![t] = IF method = "Disconnect" THEN NoCall ELSE <<method, "assign">>]
  /\ UNCHANGED <<connector, connection_, restarting, loop, life, sockets, started, gave_up, raced>>

AssignFrom(t) ==
  /\ call[t][2] = "assign"
  /\ connect_' = (call[t][1] = "Connect")
  /\ call' = [call EXCEPT ![t][2] = "queue"]
  /\ UNCHANGED <<state_, retry_delay_ms_, channel_, client, loop, life, sockets, history>>

QueueFrom(t) ==
  /\ call[t][2] = "queue"
  /\ pending' = Append(pending, IF call[t][1] = "Connect" THEN "StartInLoop" ELSE "StopInLoop")
  /\ started' = (started \/ call[t][1] = "Connect")
  /\ call' = [call EXCEPT ![t] = NoCall]
  /\ UNCHANGED <<connector, client, phase, ready, batch, timers, life, sockets,
                 gave_up, stopped, raced, connects, stops>>

------------------------------------------------------------------------------
(* The loop. *)

\* The socket is writable or in error, the connection closes, timers are due.
Poll ==
  /\ phase = "poll"
  /\ ready' \in SUBSET ((IF channel_ = "watching" THEN {"channel"} ELSE {})
                         \cup (IF connection_ THEN {"close"} ELSE {})
                         \cup (IF timers > 0 /\ channel_ # "removed" THEN {"timer"} ELSE {})
                         \cup (IF keeper /\ pending = <<>> THEN {"keeper"} ELSE {}))
  /\ phase' = "dispatch"
  /\ UNCHANGED <<connector, client, pending, batch, timers, call, life, sockets, history>>

Handles(event) ==
  /\ phase = "dispatch" /\ restarting = "no"
  /\ event \in ready
  /\ ready' = ready \ {event}

HandOverLeaks ==
  \/ connect_ /\ connection_' = TRUE /\ UNCHANGED sockets
  \/ ~connect_ /\ UNCHANGED <<sockets, connection_>>

\* What HandleWrite() does with a connected socket.
HandOver ==
  \/ connect_ /\ connection_' = TRUE /\ UNCHANGED sockets
  \/ ~connect_ /\ sockets' = sockets - 1 /\ UNCHANGED connection_

\* HandleWrite() on a socket that has connected; NewConnection()
HandleWrite ==
  /\ Handles("channel")
  /\ state_ = "kConnecting"
  /\ RemoveAndResetChannel(pending)
  /\ state_' = "kConnected"
  /\ HandOver
  /\ UNCHANGED <<connect_, retry_delay_ms_, client_connect_, restarting, phase, batch, timers, call, life,
                 history>>

\* HandleError(), and HandleWrite() on a socket error or a self-connect
HandleError ==
  /\ Handles("channel")
  /\ state_ = "kConnecting"
  /\ RemoveAndResetChannel(pending)
  /\ UNCHANGED connect_ /\ Retry(timers) /\ sockets' = sockets - 1
  /\ UNCHANGED <<client, phase, batch, call, life, history>>

RetryTimer ==
  /\ Handles("timer")
  /\ UNCHANGED connect_ /\ StartInLoop(timers - 1)
  /\ UNCHANGED <<client, phase, pending, batch, call, life, started, stopped, raced, connects, stops>>

\* RemoveConnection() up to its test of connect_, or what ~TcpClient() has put
\* in its place; the socket is closed with the connection.
RemoveConnection ==
  /\ Handles("close")
  /\ connection_' = FALSE /\ sockets' = sockets - 1
  /\ restarting' = IF destructed = "no" /\ retry_ /\ client_connect_ THEN "assign" ELSE "no"
  /\ UNCHANGED <<connector, client_connect_, phase, pending, batch, timers, call, life, history>>

\* The end of RemoveConnection(): Connector::Restart(), its assignments ...
Restart ==
  /\ restarting = "assign"
  /\ restarting' = "start"
  /\ state_' = "kDisconnected" /\ retry_delay_ms_' = kInitRetryDelayMs /\ connect_' = TRUE
  /\ raced' = (raced \/ ~client_connect_)
  /\ UNCHANGED <<channel_, client_connect_, connection_, loop, call, life, sockets,
                 started, gave_up, stopped, connects, stops>>

\* ... and its call of StartInLoop()
RestartStarts ==
  /\ restarting = "start"
  /\ restarting' = "no"
  /\ UNCHANGED connect_ /\ StartInLoop(timers)
  /\ UNCHANGED <<client_connect_, connection_, phase, ready, pending, batch, call, life,
                 started, stopped, raced, connects, stops>>

\* DoPendingFunctors() takes the functors queued so far, and ends.
BeginFunctors ==
  /\ phase = "dispatch" /\ restarting = "no" /\ ready = {}
  /\ phase' = "functors" /\ batch' = Len(pending)
  /\ UNCHANGED <<connector, client, ready, pending, timers, call, life, sockets, history>>

EndFunctors ==
  /\ phase = "functors" /\ batch = 0
  /\ phase' = "poll"
  /\ UNCHANGED <<connector, client, ready, pending, batch, timers, call, life, sockets, history>>

\* Retry timers and the one of ~TcpClient() share the connector with its client.
ConnectorAlive == destructed = "no" \/ keeper \/ timers > 0

Runs(functor) ==
  /\ ConnectorAlive
  /\ phase = "functors" /\ batch > 0
  /\ Head(pending) = functor
  /\ batch' = batch - 1

RunStartInLoop ==
  /\ Runs("StartInLoop")
  /\ pending' = Tail(pending)
  /\ UNCHANGED connect_ /\ StartInLoop(timers)
  /\ UNCHANGED <<client, phase, ready, call, life, started, stopped, raced, connects, stops>>

RunStopInLoop ==
  /\ Runs("StopInLoop")
  /\ UNCHANGED connect_ /\ StopInLoop(Tail(pending))
  /\ stopped' = (~client_connect_ \/ destructed # "no")
  /\ UNCHANGED <<client, phase, ready, call, life, started, gave_up, raced, connects, stops>>

ResetChannel ==
  /\ Runs("ResetChannel")
  /\ pending' = Tail(pending)
  /\ channel_' = "none"
  /\ UNCHANGED <<connect_, state_, retry_delay_ms_, client, phase, ready, timers, call, life, sockets,
                 history>>

\* A functor whose connector is gone: it holds a raw this, and has no effect
\* on what the model keeps.
RunDangling ==
  /\ ~ConnectorAlive
  /\ phase = "functors" /\ batch > 0
  /\ pending' = Tail(pending) /\ batch' = batch - 1
  /\ UNCHANGED <<connector, client, phase, ready, timers, call, life, sockets, history>>

LoopStep ==
  \/ Poll \/ HandleWrite \/ HandleError \/ RetryTimer \/ RemoveConnection \/ Restart \/ RestartStarts
  \/ BeginFunctors \/ RunStartInLoop \/ RunStopInLoop \/ ResetChannel \/ RunDangling
  \/ EndFunctors

------------------------------------------------------------------------------
(* The end of the client. *)

\* The owner destructs a client on the loop's thread while nobody calls it (the
\* FIXME admits that it is not safe otherwise).
MayDestruct ==
  LoopThreadInUserCode /\ destructed = "no" /\ \A t \in Threads : call[t] = NoCall

\* ~TcpClient(): with a connection, the connection's close callback changes and
\* nothing holds the connector any more; without one the connector is stopped
\* and kept for a second.
Destruct ==
  /\ MayDestruct
  /\ IF connection_
     THEN destructed' = "connected" /\ UNCHANGED <<connect_, pending, keeper>>
     ELSE /\ destructed' = "stopping" /\ keeper' = TRUE
          /\ connect_' = FALSE /\ pending' = Append(pending, "StopInLoop")
  /\ UNCHANGED <<state_, retry_delay_ms_, channel_, client, phase, ready, batch, timers, call,
                 sockets, history>>

RemoveConnector ==
  /\ Handles("keeper")
  /\ keeper' = FALSE
  /\ UNCHANGED <<connector, client, phase, pending, batch, timers, call, sockets, destructed, history>>

Next ==
  \/ LoopStep
  \/ Connect \/ Disconnect \/ Stop
  \/ \E t \in Threads :
       \/ \E method \in Methods : CallFrom(t, method)
       \/ AssignFrom(t) \/ QueueFrom(t)
  \/ Destruct \/ RemoveConnector

Spec == Init /\ [][Next]_vars
------------------------------------------------------------------------------
(* Properties. *)

One(b) == IF b THEN 1 ELSE 0
CountIn(q, functor) == Cardinality({i \in DOMAIN q : q[i] = functor})
Queued(functor) == CountIn(pending, functor)

\* What is under way: a start handed in, a retry timer, an attempt, a
\* connection, a restart.
Attempts ==
  Queued("StartInLoop") + timers + One(state_ = "kConnecting") + One(connection_)
    + One(restarting # "no")

\* With one Connect() there is one attempt at a time (StartInLoop(), Retry(),
\* Restart()): StartInLoop() is never about to run during an attempt or with a
\* connection up, as its assert(state_ == kDisconnected) says (connector.cpp:58).
\* The channel is in the loop exactly during the attempt, and the ResetChannel()
\* that ends it runs before the next one (assert(!channel_) in Connecting()).
\* The connector never goes with its channel in the loop, and goes with none
\* (assert(!channel_) in ~Connector()) unless its client was destructed with a
\* connection.
OneAttempt ==
  /\ Attempts <= 1
  /\ state_ = "kConnecting" <=> channel_ = "watching"
  /\ ConnectorAlive => Queued("ResetChannel") = One(channel_ = "removed")
  /\ ~ConnectorAlive => channel_ # "watching" /\ (channel_ = "removed" => destructed = "connected")

\* A client that retries and was not told to disconnect or stop never falls
\* silent: something is always under way, unless Connect() met an error that
\* it does not retry.
NeverForgets ==
  retry_ /\ client_connect_ /\ started /\ ~gave_up /\ destructed = "no" => Attempts >= 1

\* Every socket that Connect() opened and did not hand over is closed once:
\* the open ones are that of the attempt and that of the connection.
NoSocketLeak == sockets = One(state_ = "kConnecting") + One(connection_)

\* Stop() ends the attempts (connect_ and StopInLoop() against Retry(), its
\* timer and HandleWrite()): once StopInLoop() has run and nobody has called
\* Connect() since, nothing is being tried and no timer will try again, unless
\* another thread's call fell between RemoveConnection()'s test of connect_
\* and Restart().  The same goes for a destructed client, which HandleWrite()
\* never gives a connection either.
StopIsFinal ==
  /\ (stopped /\ ~raced) \/ destructed = "connected"
       => state_ # "kConnecting" /\ (timers > 0 => ~connect_)
  /\ destructed = "stopping" => ~connection_ /\ restarting = "no"
==============================================================================
