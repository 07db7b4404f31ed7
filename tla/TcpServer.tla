------------------------------ MODULE TcpServer -------------------------------
(***************************************************************************)
(* net/tcp_server and net/acceptor over the loops of LoopThreads: the      *)
(* server's Start() and destructor on the base thread, accepting with the  *)
(* spare descriptor, the map of connections, and connections that come and *)
(* go on their own loops.  Of a connection there is what the server sees:  *)
(* established, closed by the peer, destroyed; the rest is in module       *)
(* TcpConnection.  The process has MaxFds descriptors for connections, the *)
(* spare one and the files of other threads.                               *)
(***************************************************************************)
EXTENDS LoopThreads

CONSTANTS
  Conns,   \* bound: peers, each of which connects once
  MaxFds,  \* descriptors of the process
  Others   \* bound: descriptors other threads may have open

ASSUME FdsAssumption == MaxFds \in Nat \ {0} /\ Others \in Nat
ASSUME ConnsAssumption == "accept_channel_" \notin Conns

VARIABLES
  server,        \* "new", "started", "destructs", "gone"
  listenning_,
  idle_fd_,      \* the spare descriptor is open
  backlog,       \* the queue of peers waiting in the listening socket
  connections_,  \* the map
  state_,        \* per connection: "none" before NewConnection()
  io_loop,       \* per connection
  came, hungup,  \* peers that have connected, and that have closed
  others,        \* descriptors of other threads
  ups, downs, destroys,  \* history: calls per connection
  stolen         \* history: another thread took a descriptor while the spare was lent

loops == <<queues, threads, pool, base>>
acceptor == <<listenning_, idle_fd_, backlog, stolen>>
conn == <<connections_, state_, io_loop, ups, downs, destroys>>
world == <<came, hungup, others>>
vars == <<loops, invalid, server, acceptor, conn, world>>

Functor(op, c) == [op |-> op, conn |-> c]
Accepting == "accept_channel_"

\* The functors of a loop that hold a TcpConnectionPtr to c.
HeldBy(queue, c) == \E i \in DOMAIN queue : queue[i].conn = c
Alive(c) ==
  \/ c \in connections_
  \/ \E l \in Loops : HeldBy(pending[l], c) \/ c \in kept[l]

\* A connection closes its socket when it is destructed.
Fds ==
  others + (IF idle_fd_ THEN 1 ELSE 0)
    + Cardinality({c \in Conns : state_[c] # "none" /\ Alive(c)})

AcceptorInit == listenning_ = FALSE /\ idle_fd_ = TRUE /\ backlog = <<>>

Init ==
  /\ LoopsInit /\ AcceptorInit
  /\ server = "new"
  /\ connections_ = {} /\ state_ = [c \in Conns |-> "none"]
  /\ io_loop = [c \in Conns |-> BaseLoop]
  /\ came = {} /\ hungup = {} /\ others = 0
  /\ ups = [c \in Conns |-> 0] /\ downs = [c \in Conns |-> 0]
  /\ destroys = [c \in Conns |-> 0] /\ stolen = FALSE
-----------------------------------------------------------------------------
(* Connections, as the server drives them *)

ConnectEstablished(c) ==
  /\ state_' = [state_ EXCEPT ![c] = "kConnected"]
  /\ ups' = [ups EXCEPT ![c] = @ + 1]

ConnectDestroyed(c) ==
  /\ destroys' = [destroys EXCEPT ![c] = @ + 1]
  /\ IF state_[c] = "kConnected"
     THEN /\ state_' = [state_ EXCEPT ![c] = "kDisconnected"]
          /\ downs' = [downs EXCEPT ![c] = @ + 1]
     ELSE UNCHANGED <<state_, downs>>

\* RemoveConnectionInLoop() on given queues; connections_ is erased from.
RemoveKeepsEntry(queue, c) ==
  /\ pending' = QueueInLoop(queue, io_loop[c], Functor("ConnectDestroyed", c))
  /\ UNCHANGED connections_
RemoveConnectionInLoop(queue, c) ==
  /\ connections_' = connections_ \ {c}
  /\ pending' = QueueInLoop(queue, io_loop[c], Functor("ConnectDestroyed", c))

\* The close callback, RunInLoop() of RemoveConnectionInLoop() in the server's loop.
RemoveNothing(c) == UNCHANGED <<connections_, pending>>
RemoveConnection(c) ==
  IF io_loop[c] = BaseLoop THEN RemoveConnectionInLoop(pending, c)
  ELSE /\ pending' = QueueInLoop(pending, BaseLoop, Functor("RemoveConnectionInLoop", c))
       /\ UNCHANGED connections_

\* The loop of c handles the end of the stream.
HandleClose(l, c) ==
  /\ Free(l) /\ at[l] = "handle" /\ c \in active[l]
  /\ active' = [active EXCEPT ![l] = @ \ {c}]
  /\ state_' = [state_ EXCEPT ![c] = "kDisconnected"]
  /\ downs' = [downs EXCEPT ![c] = @ + 1]
  /\ RemoveConnection(c)
  /\ UNCHANGED <<batch, kept, threads, pool, base, invalid, server, acceptor,
                 io_loop, ups, destroys, world>>

RunFunctor(l) ==
  /\ Free(l) /\ at[l] = "functors" /\ batch[l] # <<>>
  /\ batch' = [batch EXCEPT ![l] = Tail(@)]
  /\ LET c == Head(batch[l]).conn
         op == Head(batch[l]).op
     IN \/ /\ op = "ConnectEstablished" /\ ConnectEstablished(c)
           /\ UNCHANGED <<pending, connections_, downs, destroys, invalid>>
        \/ /\ op = "ConnectDestroyed" /\ ConnectDestroyed(c)
           /\ UNCHANGED <<pending, connections_, ups, invalid>>
        \/ /\ op = "RemoveConnectionInLoop" /\ server = "started"
           /\ RemoveConnectionInLoop(pending, c)
           /\ UNCHANGED <<state_, ups, downs, destroys, invalid>>
        \/ /\ op = "RemoveConnectionInLoop" /\ server # "started"  \* this is gone
           /\ invalid' = invalid \cup {op}
           /\ UNCHANGED <<pending, connections_, state_, ups, downs, destroys>>
  /\ UNCHANGED <<kept, active, threads, pool, base, server, acceptor, io_loop, world>>
-----------------------------------------------------------------------------
(* Start() and accepting *)

\* The base thread is in user code, a functor the user has queued.
InUserCode == base = Idle /\ at[BaseLoop] = "functors"

set_thread_num(n) ==
  /\ InUserCode /\ server = "new"
  /\ num_threads_' = n
  /\ UNCHANGED <<queues, threads, next_, loops_, base, invalid, server, acceptor, conn, world>>

Start ==
  /\ InUserCode /\ server = "new" /\ server' = "started"
  /\ base' = IF num_threads_ = 0 THEN Base("Listen", 0) ELSE Base("StartLoop", 1)
  /\ UNCHANGED <<queues, threads, pool, invalid, acceptor, conn, world>>

Listen ==
  /\ base = Base("Listen", 0) /\ base' = Idle
  /\ listenning_' = TRUE
  /\ UNCHANGED <<queues, threads, pool, invalid, server, idle_fd_, backlog, stolen, conn, world>>

NewConnection(c) ==
  LET l == NextLoop IN
  /\ connections_' = connections_ \cup {c}
  /\ io_loop' = [io_loop EXCEPT ![c] = l]
  /\ next_' = AdvanceNext
  /\ IF l = BaseLoop
     THEN ConnectEstablished(c) /\ UNCHANGED pending
     ELSE /\ state_' = [state_ EXCEPT ![c] = "kConnecting"]
          /\ pending' = QueueInLoop(pending, l, Functor("ConnectEstablished", c))
          /\ UNCHANGED ups
  /\ UNCHANGED <<downs, destroys>>

\* What sockets::Accept() may return: a descriptor, or the errno of a peer that has
\* gone; EMFILE without a descriptor to give.
Accept == {"ECONNABORTED", IF Fds < MaxFds THEN "connfd" ELSE "EMFILE"}

\* On EMFILE the spare descriptor is closed.
HandleRead ==
  /\ Free(BaseLoop) /\ at[BaseLoop] = "handle" /\ Accepting \in active[BaseLoop]
  /\ active' = [active EXCEPT ![BaseLoop] = @ \ {Accepting}]
  /\ \/ /\ "connfd" \in Accept
        /\ backlog' = Tail(backlog)
        /\ NewConnection(Head(backlog))
        /\ UNCHANGED <<base, idle_fd_>>
     \/ /\ "ECONNABORTED" \in Accept
        /\ backlog' = Tail(backlog)
        /\ UNCHANGED <<base, idle_fd_, pending, next_, conn>>
     \/ /\ "EMFILE" \in Accept
        /\ idle_fd_' = FALSE
        /\ base' = Base("accept", 0)
        /\ UNCHANGED <<backlog, pending, next_, conn>>
  /\ UNCHANGED <<batch, kept, threads, num_threads_, loops_, invalid, server,
                 listenning_, stolen, world>>

\* The peer is accepted in its place, if there is room still, and let go ...
AcceptsNothing ==
  /\ base = Base("accept", 0) /\ base' = Base("open", 0)
  /\ UNCHANGED <<queues, threads, pool, invalid, server, acceptor, conn, world>>
AcceptSpare ==
  /\ base = Base("accept", 0) /\ base' = Base("open", 0)
  /\ \/ Fds < MaxFds /\ backlog' = Tail(backlog)
     \/ Fds >= MaxFds /\ UNCHANGED backlog
  /\ UNCHANGED <<queues, threads, pool, invalid, server, listenning_, idle_fd_, stolen, conn, world>>

\* ... and the spare is opened again, if there is room.
OpenSpare ==
  /\ base = Base("open", 0) /\ base' = Idle
  /\ idle_fd_' = (Fds < MaxFds)
  /\ UNCHANGED <<queues, threads, pool, invalid, server, listenning_, backlog, stolen, conn, world>>
-----------------------------------------------------------------------------
(* ~TcpServer(): the connections, then thread_pool_, then acceptor_ *)

Destruct ==
  /\ InUserCode /\ server \in {"new", "started"} /\ server' = "destructs"
  /\ base' = Base("~TcpServer", 0)
  /\ UNCHANGED <<queues, threads, pool, invalid, acceptor, conn, world>>

AfterConnections ==
  IF loops_ = <<>> THEN Base("~Acceptor", 0) ELSE Base("~EventLoopThread", 1)

DestructConnection ==
  /\ base = Base("~TcpServer", 0)
  /\ \/ \E c \in connections_ :
          /\ connections_' = connections_ \ {c}
          /\ IF io_loop[c] = BaseLoop
             THEN ConnectDestroyed(c) /\ UNCHANGED pending
             ELSE /\ pending' = QueueInLoop(pending, io_loop[c], Functor("ConnectDestroyed", c))
                  /\ UNCHANGED <<state_, downs, destroys>>
          /\ UNCHANGED <<base, ups, io_loop>>
     \/ connections_ = {} /\ base' = AfterConnections /\ UNCHANGED <<pending, conn>>
  /\ UNCHANGED <<batch, kept, active, threads, pool, invalid, server, acceptor, world>>

DestructAcceptor ==
  /\ base = Base("~Acceptor", 0) /\ base' = Idle
  /\ server' = "gone"
  /\ listenning_' = FALSE /\ idle_fd_' = FALSE /\ backlog' = <<>>
  /\ UNCHANGED <<queues, threads, pool, invalid, stolen, conn, world>>
-----------------------------------------------------------------------------
(* Peers and the other threads of the process *)

PeerConnects(c) ==
  /\ listenning_ /\ c \notin came
  /\ came' = came \cup {c}
  /\ backlog' = Append(backlog, c)
  /\ UNCHANGED <<loops, invalid, server, listenning_, idle_fd_, stolen, conn, hungup, others>>

PeerCloses(c) ==
  /\ state_[c] # "none" /\ c \notin hungup
  /\ hungup' = hungup \cup {c}
  /\ UNCHANGED <<loops, invalid, server, acceptor, conn, came, others>>

OtherOpens ==
  /\ others < Others /\ Fds < MaxFds
  /\ others' = others + 1
  /\ stolen' = (stolen \/ base.what \in {"accept", "open"})
  /\ UNCHANGED <<loops, invalid, server, listenning_, idle_fd_, backlog, conn, came, hungup>>

OtherCloses ==
  /\ others > 0 /\ others' = others - 1
  /\ UNCHANGED <<loops, invalid, server, acceptor, conn, came, hungup>>
-----------------------------------------------------------------------------
\* The channels of loop l with something to handle.
Ready(l) ==
  {c \in Conns : io_loop[c] = l /\ state_[c] = "kConnected" /\ c \in hungup}
    \cup {x \in {Accepting} : l = BaseLoop /\ listenning_ /\ backlog # <<>>}

Rest == <<server, acceptor, conn, world>>

LoopStep(l) ==
  \/ Iterate(l, Ready(l)) /\ UNCHANGED Rest
  \/ SwapFunctors(l) /\ UNCHANGED Rest
  \/ \E c \in Conns : HandleClose(l, c)
  \/ RunFunctor(l)

ThreadStep(i) ==
  \/ LoopStep(i)
  \/ (Publish(i) \/ EnterLoop(i) \/ ThreadEnds(i)) /\ UNCHANGED Rest

\* The steps the base thread takes without being told to.
BaseStep ==
  \/ LoopStep(BaseLoop)
  \/ HandleRead \/ AcceptSpare \/ OpenSpare \/ Listen
  \/ DestructConnection \/ DestructAcceptor
  \/ \E i \in IoLoops :
       /\ \/ StartLoop(i) \/ StartLoopReturns(i, Base("Listen", 0))
          \/ Quit(i) \/ Wakeup(i) \/ Join(i, Base("~Acceptor", 0))
       /\ UNCHANGED Rest

Next ==
  \/ \E n \in 0 .. MaxThreads : set_thread_num(n)
  \/ Start \/ Destruct \/ BaseStep
  \/ \E i \in IoLoops : ThreadStep(i)
  \/ \E c \in Conns : PeerConnects(c) \/ PeerCloses(c)
  \/ OtherOpens \/ OtherCloses

\* The scheduler runs every thread that can go on.
Spec ==
  /\ Init /\ [][Next]_vars
  /\ WF_vars(BaseStep) /\ \A i \in IoLoops : WF_vars(ThreadStep(i))
-----------------------------------------------------------------------------
(* Properties *)

\* The functors of a loop, in the order in which it calls them, and the places of one.
Functors(l) == batch[l] \o pending[l]
Queued(op, c) ==
  UNION {{l} \X {i \in DOMAIN Functors(l) : Functors(l)[i] = Functor(op, c)} : l \in Loops}
AtMostOne(S) == \A x, y \in S : x = y

\* While the server runs, its map has exactly the connections that are up or on
\* their way up, and those that closed and whose single removal is on its way:
\* RemoveConnectionInLoop() always finds what it erases (assert(n == 1)).
MapComplete ==
  server = "started" =>
    \A c \in Conns :
      /\ state_[c] \in {"kConnecting", "kConnected"} => c \in connections_
      /\ c \in connections_ /\ state_[c] = "kDisconnected" =>
           Queued("RemoveConnectionInLoop", c) # {}
      /\ AtMostOne(Queued("RemoveConnectionInLoop", c))
      /\ Queued("RemoveConnectionInLoop", c) # {} => c \in connections_

\* ConnectDestroyed() "should be called only once", and the user hears up once and
\* down at most once, whether the peer closes, the server is destructed or both.
DestroyedOnce ==
  \A c \in Conns :
    /\ destroys[c] <= 1 /\ AtMostOne(Queued("ConnectDestroyed", c))
    /\ destroys[c] = 1 => Queued("ConnectDestroyed", c) = {}
    /\ downs[c] <= ups[c] /\ ups[c] <= 1
    /\ destroys[c] = 1 => downs[c] = 1

\* The socket of a connection whose peer has closed is closed in the end, through
\* the queues of two loops, unless the base thread never comes back from ~TcpServer().
SocketReleased ==
  \A c \in Conns : (c \in hungup /\ state_[c] # "none") ~> (~Alive(c) \/ lost # {})

\* Waiting peers are accepted or let go even with every descriptor in use, unless
\* the server goes, or another thread takes the place of the spare descriptor.
BacklogServed ==
  (backlog # <<>>) ~> (backlog = <<>> \/ server # "started" \/ stolen)

\* ~TcpServer() joins all threads and returns, unless a loop was told to quit before
\* its thread had entered Loop(), which clears quit_.
DestructorReturns == (server = "destructs") ~> (server = "gone" \/ lost # {})

\* ~TcpConnection() asserts that the connection is kDisconnected.
DestructedDisconnected ==
  \A c \in Conns : state_[c] # "none" /\ ~Alive(c) => state_[c] = "kDisconnected"
=============================================================================
