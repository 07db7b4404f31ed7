-------------------------- MODULE TcpServerProofs ---------------------------
(***************************************************************************)
(* What TcpServer.tla says of the map of connections and of their life,    *)
(* for any size of the pool, any peers and any number of descriptors.      *)
(*                                                                         *)
(* A connection is told what to do through the queues of two loops, its    *)
(* own and the server's.  The invariant says which functors of it may be   *)
(* in which queue at each stage of its life, that each is there once, and  *)
(* that ConnectEstablished() comes before ConnectDestroyed(); the threads  *)
(* matter in that a loop stops calling functors only when ~TcpServer() is  *)
(* done with the connections.                                              *)
(***************************************************************************)
EXTENDS TcpServer, SequenceTheorems, TLAPS

\* Zenon proves the leaves that do not name a prover.
USE ZenonT(30)

------------------------------------------------------------------------------
(* The invariant. *)

\* What the server has a loop do for a connection.
Ops == {"ConnectEstablished", "ConnectDestroyed", "RemoveConnectionInLoop"}
FunctorSet == [op : Ops, conn : Conns]
Est(c) == Functor("ConnectEstablished", c)
Des(c) == Functor("ConnectDestroyed", c)
Rem(c) == Functor("RemoveConnectionInLoop", c)

\* Functor f is in queue q; at most once; each g after an f.
Has(q, f) == \E i \in DOMAIN q : q[i] = f
Once(q, f) == \A i, j \in DOMAIN q : q[i] = f /\ q[j] = f => i = j
Precedes(q, f, g) == \A j \in DOMAIN q : q[j] = g => \E i \in DOMAIN q : i < j /\ q[i] = f

\* Where the base thread is in ~TcpServer(), and where in Start().
Destructing == {"~TcpServer", "~EventLoopThread", "Wakeup", "join", "terminated", "~Acceptor"}
Starting == {"StartLoop", "cond_", "Listen"}
\* ~TcpServer() is done with its connections.
Torn == server = "gone" \/ (server = "destructs" /\ base.what # "~TcpServer")

\* What is in the queues, the loops and the connections.
QueueTypes == pending \in [Loops -> Seq(FunctorSet)] /\ batch \in [Loops -> Seq(FunctorSet)]
LoopTypes ==
  /\ active \in [Loops -> SUBSET (Conns \cup {Accepting})]
  /\ DOMAIN at = Loops /\ DOMAIN quit_ = Loops
  /\ loops_ \in Seq(IoLoops) /\ next_ \in Nat \ {0}
  /\ loops_ = <<>> => next_ = 1
  /\ loops_ # <<>> => next_ <= Len(loops_)
ConnTypes ==
  /\ connections_ \subseteq Conns
  /\ state_ \in [Conns -> {"none", "kConnecting", "kConnected", "kDisconnected"}]
  /\ io_loop \in [Conns -> Loops]
  /\ DOMAIN ups = Conns /\ DOMAIN downs = Conns /\ DOMAIN destroys = Conns

\* Where the base thread is against where the server is in its life: ~TcpServer() and
\* Start() keep it from calling functors and handling channels, and when ~TcpServer()
\* is done with the connections, and before Start(), the map is empty.
BaseInv ==
  /\ server \in {"new", "started", "destructs", "gone"}
  /\ base.what \in {"none", "accept", "open"} \cup Starting \cup Destructing
  /\ base.what = "none" <=> base = Idle
  /\ server = "destructs" <=> base.what \in Destructing
  /\ base.what \in Starting \cup {"accept", "open"} => server = "started"
  /\ base.what \notin {"none", "accept", "open"} => at[BaseLoop] = "functors"
  /\ Torn \/ server = "new" => connections_ = {}

\* The threads that Start() has not made yet are not running.
StartInv ==
  /\ server = "new" => \A i \in IoLoops : at[i] = "none"
  /\ base.what = "StartLoop" => \A i \in IoLoops : i >= base.i => at[i] = "none"
  /\ base.what = "cond_" => \A i \in IoLoops : i > base.i => at[i] = "none"

\* A loop calls functors, handles channels, or neither; and it stops only when
\* ~TcpServer() is done with the connections.
LoopInv ==
  \A l \in Loops :
    /\ at[l] # "functors" => batch[l] = <<>>
    /\ at[l] # "handle" => active[l] = {}
    /\ quit_[l] \/ at[l] \in {"exited", "ended"} => Torn

\* A channel that is to be handled is that of a connection of this loop that is up, or
\* the acceptor's with a peer waiting.
ActiveInv ==
  \A l \in Loops :
    /\ \A c \in Conns : c \in active[l] => io_loop[c] = l /\ state_[c] = "kConnected"
    /\ Accepting \in active[l] => l = BaseLoop /\ backlog # <<>> /\ listenning_ /\ base.what # "accept"

\* The peers that wait are different, and are not connections yet.
AcceptInv ==
  /\ backlog \in Seq(Conns)
  /\ \A i \in DOMAIN backlog : backlog[i] \in came /\ state_[backlog[i]] = "none"
  /\ \A i, j \in DOMAIN backlog : backlog[i] = backlog[j] => i = j
  /\ \A c \in Conns : state_[c] # "none" => c \in came
  /\ base.what = "accept" => backlog # <<>>
  /\ listenning_ => server \in {"started", "destructs"}

\* No functor is queued twice in a loop.
OnceInv == \A l \in Loops, f \in FunctorSet : Once(Functors(l), f)

\* Where the functors of connection c may be, and when.  A removal is queued by a
\* connection of another loop that is down and, while the server lives, in the map.
Placed(c) ==
  \A l \in Loops :
    /\ Has(Functors(l), Est(c)) => l = io_loop[c] /\ state_[c] = "kConnecting"
    /\ Has(Functors(l), Des(c)) =>
         l = io_loop[c] /\ c \notin connections_ /\ destroys[c] = 0 /\ state_[c] # "none"
    /\ Has(Functors(l), Rem(c)) =>
         /\ l = BaseLoop /\ io_loop[c] # BaseLoop /\ state_[c] = "kDisconnected"
         /\ server \in {"new", "started"} => c \in connections_

\* The life of connection c: what has been called so far, and what must be queued so
\* that it goes on.  ConnectDestroyed() may be queued while ConnectEstablished() is, but
\* behind it.
Stage(c) ==
  /\ state_[c] = "none" => ups[c] = 0 /\ downs[c] = 0 /\ destroys[c] = 0 /\ c \notin connections_
  /\ state_[c] = "kConnecting" =>
       /\ ups[c] = 0 /\ downs[c] = 0 /\ destroys[c] = 0 /\ io_loop[c] # BaseLoop
       /\ c \in connections_ => Has(Functors(io_loop[c]), Est(c))
       /\ Precedes(Functors(io_loop[c]), Est(c), Des(c))
  /\ state_[c] = "kConnected" =>
       /\ ups[c] = 1 /\ downs[c] = 0 /\ destroys[c] = 0
       /\ io_loop[c] = BaseLoop => c \in connections_
  /\ state_[c] = "kDisconnected" =>
       /\ ups[c] = 1 /\ downs[c] = 1 /\ destroys[c] \in {0, 1}
       /\ c \in connections_ => destroys[c] = 0 /\ Has(Functors(BaseLoop), Rem(c))
  /\ server \in {"new", "started"} /\ state_[c] \in {"kConnecting", "kConnected"} => c \in connections_

ConnsInv == \A c \in Conns : Placed(c) /\ Stage(c)

\* The connections and their functors; the threads and the acceptor.
QueueInv == QueueTypes /\ ConnTypes /\ OnceInv /\ ConnsInv
ThreadInv == LoopTypes /\ BaseInv /\ StartInv /\ LoopInv /\ ActiveInv /\ AcceptInv

\* The inductive invariant.
IInv == QueueInv /\ ThreadInv

\* Queue r serves connection c as queue q did: no functor of c is new; none is missing
\* while c is in the map; and the order is kept.
Kept(q, r, c) ==
  /\ \A op \in Ops : Has(r, Functor(op, c)) => Has(q, Functor(op, c))
  /\ c \in connections_ => \A op \in Ops : Has(q, Functor(op, c)) => Has(r, Functor(op, c))
  /\ Precedes(q, Est(c), Des(c)) => Precedes(r, Est(c), Des(c))

------------------------------------------------------------------------------
(* Queues of functors. *)

\* A functor is its operation and its connection.
LEMMA FunctorFacts ==
  /\ \A op \in Ops, c \in Conns : Functor(op, c) \in FunctorSet /\ Functor(op, c).op = op /\ Functor(op, c).conn = c
  /\ \A f \in FunctorSet : f.op \in Ops /\ f.conn \in Conns /\ f = Functor(f.op, f.conn)
BY SMTT(30) DEF Functor, FunctorSet

\* QueueInLoop() puts a functor after the others, and changes nothing before it.
LEMMA Appended ==
  ASSUME NEW q \in Seq(FunctorSet), NEW g \in FunctorSet
  PROVE  /\ Append(q, g) \in Seq(FunctorSet)
         /\ \A f : Has(Append(q, g), f) <=> Has(q, f) \/ g = f
         /\ \A f : Once(q, f) /\ (g = f => ~Has(q, f)) => Once(Append(q, g), f)
         /\ \A f, h : Precedes(q, f, h) /\ (g = h => Has(q, f)) => Precedes(Append(q, g), f, h)
<1> DEFINE r == Append(q, g)
           n == Len(q) + 1
<1>1. /\ r \in Seq(FunctorSet) /\ DOMAIN r = DOMAIN q \cup {n} /\ n \notin DOMAIN q /\ r[n] = g
      /\ \A i \in DOMAIN q : r[i] = q[i] /\ i < n
  BY SMTT(30)
<1> HIDE DEF r, n
<1>2. ASSUME NEW f PROVE Has(r, f) <=> Has(q, f) \/ g = f
  BY <1>1 DEF Has
<1>3. ASSUME NEW f, Once(q, f), g = f => ~Has(q, f) PROVE Once(r, f)
  BY <1>1, <1>3 DEF Once, Has
<1>4. ASSUME NEW f, NEW h, Precedes(q, f, h), g = h => Has(q, f) PROVE Precedes(r, f, h)
  <2> SUFFICES ASSUME NEW j \in DOMAIN r, r[j] = h PROVE \E i \in DOMAIN r : i < j /\ r[i] = f
    BY DEF Precedes
  <2>1. CASE j = n
    <3>1. Has(q, f)
      BY <1>1, <1>4, <2>1
    <3> QED  BY <1>1, <2>1, <3>1 DEF Has
  <2>2. CASE j # n
    <3>1. j \in DOMAIN q /\ q[j] = h
      BY <1>1, <2>2
    <3>2. PICK i \in DOMAIN q : i < j /\ q[i] = f
      BY <1>4, <3>1 DEF Precedes
    <3> QED  BY <1>1, <3>2
  <2> QED  BY <2>1, <2>2
<1> QED  BY <1>1, <1>2, <1>3, <1>4 DEF r

\* A loop takes the first of its functors; the others keep their order.
LEMMA Taken ==
  ASSUME NEW q \in Seq(FunctorSet), q # <<>>
  PROVE  /\ Tail(q) \in Seq(FunctorSet) /\ Head(q) \in FunctorSet /\ Has(q, Head(q))
         /\ \A f : Has(Tail(q), f) => Has(q, f)
         /\ \A f : Has(q, f) /\ Head(q) # f => Has(Tail(q), f)
         /\ \A f : Once(q, f) => Once(Tail(q), f)
         /\ \A f : Once(q, f) /\ Head(q) = f => ~Has(Tail(q), f)
         /\ \A f, h : Precedes(q, f, h) /\ Head(q) # f => Precedes(Tail(q), f, h)
         /\ \A f, h : Precedes(q, f, h) => Head(q) # h
<1> DEFINE r == Tail(q)
<1>1. /\ r \in Seq(FunctorSet) /\ Head(q) = q[1] /\ Head(q) \in FunctorSet
      /\ 1 \in DOMAIN q
      /\ \A i \in DOMAIN r : i + 1 \in DOMAIN q /\ r[i] = q[i + 1] /\ i + 1 # 1 /\ (i + 1) - 1 = i
      /\ \A i \in DOMAIN q : i # 1 => i - 1 \in DOMAIN r /\ r[i - 1] = q[i] /\ (i - 1) + 1 = i
      /\ \A i \in DOMAIN q : ~(i < 1)
  BY SMTT(30)
<1>a. \A i, j \in DOMAIN q : i < j => i - 1 < j - 1
  BY SMTT(30)
<1> HIDE DEF r
<1>2. ASSUME NEW f, Has(r, f) PROVE Has(q, f)
  <2>1. PICK i \in DOMAIN r : r[i] = f
    BY <1>2 DEF Has
  <2>2. i + 1 \in DOMAIN q /\ q[i + 1] = f
    BY <1>1, <2>1
  <2> QED  BY <2>2 DEF Has
<1>3. ASSUME NEW f, Has(q, f), Head(q) # f PROVE Has(r, f)
  <2>1. PICK i \in DOMAIN q : q[i] = f
    BY <1>3 DEF Has
  <2>2. i - 1 \in DOMAIN r /\ r[i - 1] = f
    BY <1>1, <1>3, <2>1
  <2> QED  BY <2>2 DEF Has
<1>4. ASSUME NEW f, Once(q, f), NEW i \in DOMAIN r, NEW j \in DOMAIN r, r[i] = f, r[j] = f PROVE i = j
  <2>1. i + 1 \in DOMAIN q /\ j + 1 \in DOMAIN q /\ q[i + 1] = f /\ q[j + 1] = f
    BY <1>1, <1>4
  <2>2. i + 1 = j + 1
    BY <1>4, <2>1 DEF Once
  <2> QED  BY <1>1, <2>2
<1>5. ASSUME NEW f, Once(q, f), Head(q) = f, NEW i \in DOMAIN r, r[i] = f PROVE FALSE
  <2>1. i + 1 \in DOMAIN q /\ q[i + 1] = f /\ i + 1 # 1
    BY <1>1, <1>5
  <2> QED  BY <1>1, <1>5, <2>1 DEF Once
<1>6. ASSUME NEW f, NEW h, Precedes(q, f, h), Head(q) # f PROVE Precedes(r, f, h)
  <2> SUFFICES ASSUME NEW j \in DOMAIN r, r[j] = h PROVE \E i \in DOMAIN r : i < j /\ r[i] = f
    BY DEF Precedes
  <2>1. j + 1 \in DOMAIN q /\ q[j + 1] = h /\ (j + 1) - 1 = j
    BY <1>1
  <2>2. PICK i \in DOMAIN q : i < j + 1 /\ q[i] = f
    BY <1>6, <2>1 DEF Precedes
  <2>3. i - 1 \in DOMAIN r /\ r[i - 1] = f
    BY <1>1, <1>6, <2>2
  <2>4. i - 1 < j
    BY <1>a, <2>1, <2>2
  <2> QED  BY <2>3, <2>4
<1>7. ASSUME NEW f, NEW h, Precedes(q, f, h) PROVE Head(q) # h
  BY <1>1, <1>7 DEF Precedes
<1>8. Has(q, Head(q))
  BY <1>1 DEF Has
<1>9. \A f : Once(q, f) => Once(r, f)
  BY <1>4 DEF Once
<1>10. \A f : Once(q, f) /\ Head(q) = f => ~Has(r, f)
  BY <1>5 DEF Has
<1> QED  BY <1>1, <1>2, <1>3, <1>6, <1>7, <1>8, <1>9, <1>10 DEF r

\* The functors of a loop are those it is calling, then those handed in since.
LEMMA Joined ==
  ASSUME NEW q \in Seq(FunctorSet), NEW p \in Seq(FunctorSet)
  PROVE  /\ q \o p \in Seq(FunctorSet) /\ <<>> \o p = p /\ p \o <<>> = p
         /\ q # <<>> => q \o p # <<>> /\ Head(q \o p) = Head(q) /\ Tail(q) \o p = Tail(q \o p)
         /\ \A f \in FunctorSet : q \o Append(p, f) = Append(q \o p, f)
<1>1. q \o p \in Seq(FunctorSet) /\ <<>> \o p = p /\ p \o <<>> = p
  BY SMTT(30)
<1>2. ASSUME q # <<>> PROVE q \o p # <<>> /\ Head(q \o p) = Head(q) /\ Tail(q) \o p = Tail(q \o p)
  BY <1>2, SMTT(30)
<1>3. ASSUME NEW f \in FunctorSet PROVE q \o Append(p, f) = Append(q \o p, f)
  BY SMTT(30)
<1> QED  BY <1>1, <1>2, <1>3

\* The loop of the server is none of the pool's.
LEMMA LoopFacts == BaseLoop \in Loops /\ IoLoops \subseteq Loops /\ \A i \in IoLoops : i # BaseLoop
BY ThreadsAssumption, SMTT(30) DEF Loops, IoLoops, BaseLoop

\* The functors of every loop are functors of connections.
LEMMA FunctorsTyped ==
  ASSUME QueueTypes, NEW l \in Loops
  PROVE  pending[l] \in Seq(FunctorSet) /\ batch[l] \in Seq(FunctorSet) /\ Functors(l) \in Seq(FunctorSet)
<1>1. pending[l] \in Seq(FunctorSet) /\ batch[l] \in Seq(FunctorSet)
  BY DEF QueueTypes
<1> QED  BY <1>1, Joined DEF Functors

\* QueueInLoop() on the queue of loop k, seen from all loops.
LEMMA Put ==
  ASSUME QueueTypes, NEW k \in Loops, NEW f \in FunctorSet, pending' = QueueInLoop(pending, k, f), batch' = batch
  PROVE  /\ QueueTypes' /\ Functors(k)' = Append(Functors(k), f)
         /\ \A l \in Loops : l # k => Functors(l)' = Functors(l)
<1>1. pending'[k] = Append(pending[k], f) /\ \A l \in Loops : l # k => pending'[l] = pending[l]
  BY DEF QueueTypes, QueueInLoop
<1>2. Append(pending[k], f) \in Seq(FunctorSet)
  BY FunctorsTyped, Appended
<1>3. pending' \in [Loops -> Seq(FunctorSet)]
  BY <1>2 DEF QueueTypes, QueueInLoop
<1>4. batch[k] \o Append(pending[k], f) = Append(batch[k] \o pending[k], f)
  BY FunctorsTyped, Joined
<1> QED  BY <1>1, <1>3, <1>4 DEF Functors, QueueTypes

\* Loop k takes the functor it calls next, seen from all loops.
LEMMA Take ==
  ASSUME QueueTypes, NEW k \in Loops, batch[k] # <<>>, batch' = [batch EXCEPT ![k] = Tail(@)], pending' = pending
  PROVE  /\ QueueTypes' /\ Functors(k) # <<>> /\ Functors(k)' = Tail(Functors(k))
         /\ Head(batch[k]) = Head(Functors(k)) /\ Head(batch[k]) \in FunctorSet
         /\ \A l \in Loops : l # k => Functors(l)' = Functors(l)
<1>1. batch'[k] = Tail(batch[k]) /\ \A l \in Loops : l # k => batch'[l] = batch[l]
  BY DEF QueueTypes
<1>2. Tail(batch[k]) \in Seq(FunctorSet) /\ Head(batch[k]) \in FunctorSet
  BY FunctorsTyped, Taken
<1>3. batch' \in [Loops -> Seq(FunctorSet)]
  BY <1>2 DEF QueueTypes
<1>4. /\ batch[k] \o pending[k] # <<>> /\ Head(batch[k] \o pending[k]) = Head(batch[k])
      /\ Tail(batch[k]) \o pending[k] = Tail(batch[k] \o pending[k])
  BY FunctorsTyped, Joined
<1> QED  BY <1>1, <1>2, <1>3, <1>4 DEF Functors, QueueTypes

\* RemoveConnectionInLoop() as a functor: the server's loop takes it and queues another
\* in the connection's loop, which is a loop of the pool.
LEMMA TakePut ==
  ASSUME QueueTypes, NEW k \in Loops, batch[k] # <<>>, batch' = [batch EXCEPT ![k] = Tail(@)],
         NEW m \in Loops, m # k, NEW f \in FunctorSet, pending' = QueueInLoop(pending, m, f)
  PROVE  /\ QueueTypes' /\ Functors(k)' = Tail(Functors(k)) /\ Functors(m)' = Append(Functors(m), f)
         /\ \A l \in Loops : l # k /\ l # m => Functors(l)' = Functors(l)
<1>1. batch'[k] = Tail(batch[k]) /\ \A l \in Loops : l # k => batch'[l] = batch[l]
  BY DEF QueueTypes
<1>2. Tail(batch[k]) \in Seq(FunctorSet)
  BY FunctorsTyped, Taken
<1>3. batch' \in [Loops -> Seq(FunctorSet)]
  BY <1>2 DEF QueueTypes
<1>4. Tail(batch[k]) \o pending[k] = Tail(batch[k] \o pending[k])
  BY FunctorsTyped, Joined
<1>5. pending'[m] = Append(pending[m], f) /\ \A l \in Loops : l # m => pending'[l] = pending[l]
  BY DEF QueueTypes, QueueInLoop
<1>6. Append(pending[m], f) \in Seq(FunctorSet)
  BY FunctorsTyped, Appended
<1>7. pending' \in [Loops -> Seq(FunctorSet)]
  BY <1>6 DEF QueueTypes, QueueInLoop
<1>8. pending[m] \in Seq(FunctorSet) /\ batch[m] \in Seq(FunctorSet)
  BY FunctorsTyped
<1>9. batch[m] \o Append(pending[m], f) = Append(batch[m] \o pending[m], f)
  BY <1>8, Joined
<1> QED  BY <1>1, <1>3, <1>4, <1>5, <1>7, <1>9 DEF Functors, QueueTypes

\* DoPendingFunctors() swaps the queue of a loop out; the functors and their order stay.
LEMMA Swapped ==
  ASSUME QueueTypes, NEW k \in Loops, batch[k] = <<>>,
         batch' = [batch EXCEPT ![k] = pending[k]], pending' = [pending EXCEPT ![k] = <<>>]
  PROVE  QueueTypes' /\ \A l \in Loops : Functors(l)' = Functors(l)
<1>1. /\ batch'[k] = pending[k] /\ pending'[k] = <<>>
      /\ \A l \in Loops : l # k => batch'[l] = batch[l] /\ pending'[l] = pending[l]
  BY DEF QueueTypes
<1>2. <<>> \in Seq(FunctorSet)
  BY SMTT(30)
<1>3. QueueTypes'
  BY <1>2 DEF QueueTypes
<1>4. pending[k] \o <<>> = pending[k] /\ <<>> \o pending[k] = pending[k]
  BY FunctorsTyped, Joined
<1> QED  BY <1>1, <1>3, <1>4 DEF Functors

\* ~EventLoop() drops the functors that the loop has not begun to call.
LEMMA Dropped ==
  ASSUME QueueTypes, NEW k \in Loops, batch[k] = <<>>, batch' = batch, pending' = [pending EXCEPT ![k] = <<>>]
  PROVE  /\ QueueTypes' /\ Functors(k)' = <<>>
         /\ \A l \in Loops : l # k => Functors(l)' = Functors(l)
<1>1. pending'[k] = <<>> /\ \A l \in Loops : l # k => pending'[l] = pending[l]
  BY DEF QueueTypes
<1>2. <<>> \in Seq(FunctorSet)
  BY SMTT(30)
<1>3. QueueTypes'
  BY <1>2 DEF QueueTypes
<1>4. <<>> \o <<>> = <<>>
  BY <1>2, Joined
<1> QED  BY <1>1, <1>3, <1>4 DEF Functors

\* A functor of one connection put in a queue is nothing to another connection.
LEMMA KeptAppend ==
  ASSUME NEW q \in Seq(FunctorSet), NEW f \in FunctorSet, NEW c \in Conns, f.conn # c
  PROVE  Kept(q, Append(q, f), c)
<1>1. \A op \in Ops : Functor(op, c) # f
  BY FunctorFacts
<1>2. f # Des(c)
  BY <1>1 DEF Des, Ops
<1>3. Precedes(q, Est(c), Des(c)) => Precedes(Append(q, f), Est(c), Des(c))
  BY <1>2, Appended
<1>4. \A g : Has(Append(q, f), g) <=> Has(q, g) \/ f = g
  BY Appended
<1> QED  BY <1>1, <1>3, <1>4 DEF Kept

\* A functor of one connection taken off a queue is nothing to another connection.
LEMMA KeptTail ==
  ASSUME NEW q \in Seq(FunctorSet), q # <<>>, NEW c \in Conns, Head(q).conn # c
  PROVE  Kept(q, Tail(q), c)
<1>0. Head(q) \in FunctorSet
  BY Taken
<1>1. \A op \in Ops : Functor(op, c) # Head(q)
  BY <1>0, FunctorFacts
<1>2. Head(q) # Est(c)
  BY <1>1 DEF Est, Ops
<1>3. Precedes(q, Est(c), Des(c)) => Precedes(Tail(q), Est(c), Des(c))
  BY <1>2, Taken
<1>4. \A g : (Has(Tail(q), g) => Has(q, g)) /\ (Has(q, g) /\ Head(q) # g => Has(Tail(q), g))
  BY Taken
<1> QED  BY <1>1, <1>3, <1>4 DEF Kept

\* A queue that stays as it is serves every connection as before.
LEMMA KeptSame == ASSUME NEW q, NEW c PROVE Kept(q, q, c)
BY DEF Kept

\* A queue that is dropped serves the connections that are out of the map as before.
LEMMA KeptNone ==
  ASSUME NEW q, NEW c, c \notin connections_
  PROVE  Kept(q, <<>>, c)
<1>1. DOMAIN <<>> = {}
  BY SMTT(30)
<1> QED  BY <1>1 DEF Kept, Has, Precedes

\* A connection that a step does not touch, and whose functors stay in their order, stays
\* where it was in its life.
LEMMA Untouched ==
  ASSUME NEW c \in Conns, Placed(c), Stage(c), ConnTypes,
         state_'[c] = state_[c], io_loop'[c] = io_loop[c], ups'[c] = ups[c], downs'[c] = downs[c],
         destroys'[c] = destroys[c], c \in connections_' <=> c \in connections_,
         server' \in {"new", "started"} => server \in {"new", "started"},
         \A l \in Loops : Kept(Functors(l), Functors(l)', c)
  PROVE  Placed(c)' /\ Stage(c)'
<1>1. /\ "ConnectEstablished" \in Ops /\ "ConnectDestroyed" \in Ops /\ "RemoveConnectionInLoop" \in Ops
      /\ io_loop[c] \in Loops /\ BaseLoop \in Loops
  BY LoopFacts DEF Ops, ConnTypes
<1>2. /\ \A l \in Loops : Has(Functors(l)', Est(c)) => Has(Functors(l), Est(c))
      /\ \A l \in Loops : Has(Functors(l)', Des(c)) => Has(Functors(l), Des(c))
      /\ \A l \in Loops : Has(Functors(l)', Rem(c)) => Has(Functors(l), Rem(c))
      /\ c \in connections_ /\ Has(Functors(io_loop[c]), Est(c)) => Has(Functors(io_loop[c])', Est(c))
      /\ c \in connections_ /\ Has(Functors(BaseLoop), Rem(c)) => Has(Functors(BaseLoop)', Rem(c))
      /\ Precedes(Functors(io_loop[c]), Est(c), Des(c)) => Precedes(Functors(io_loop[c])', Est(c), Des(c))
  BY <1>1 DEF Kept, Est, Des, Rem
<1>3. Placed(c)'
  BY <1>2 DEF Placed
<1>4. Stage(c)'
  BY <1>2 DEF Stage
<1> QED  BY <1>3, <1>4

------------------------------------------------------------------------------
(* Steps that leave the connections alone. *)

\* What the base thread is in the middle of.
LEMMA BaseFacts ==
  /\ \A w, i : Base(w, i).what = w /\ Base(w, i).i = i
  /\ Idle.what = "none"
BY DEF Base, Idle

\* A step that leaves the queues and the connections alone keeps the connections.
LEMMA QuietConns ==
  ASSUME QueueInv, UNCHANGED <<pending, batch, conn>>,
         server' \in {"new", "started"} => server \in {"new", "started"}
  PROVE  QueueInv'
<1>1. \A l \in Loops : Functors(l)' = Functors(l)
  BY DEF Functors
<1>2. QueueTypes' /\ ConnTypes' /\ OnceInv'
  BY <1>1 DEF QueueInv, QueueTypes, ConnTypes, OnceInv, conn
<1>3. ASSUME NEW c \in Conns PROVE Placed(c)' /\ Stage(c)'
  <2>1. /\ Placed(c) /\ Stage(c) /\ ConnTypes
        /\ state_'[c] = state_[c] /\ io_loop'[c] = io_loop[c] /\ ups'[c] = ups[c] /\ downs'[c] = downs[c]
        /\ destroys'[c] = destroys[c] /\ connections_' = connections_
    BY DEF QueueInv, ConnsInv, conn
  <2>2. \A l \in Loops : Kept(Functors(l), Functors(l)', c)
    BY <1>1, KeptSame
  <2> QED  BY <2>1, <2>2, Untouched
<1> QED  BY <1>2, <1>3 DEF QueueInv, ConnsInv

\* A step that leaves the listening socket alone keeps what is known of it.
LEMMA SameAccept ==
  ASSUME AcceptInv, UNCHANGED <<backlog, state_, came, listenning_, server>>,
         base'.what = "accept" => base.what = "accept"
  PROVE  AcceptInv'
BY DEF AcceptInv

\* A step that leaves the channels to handle alone keeps what is known of them.
LEMMA SameActive ==
  ASSUME ActiveInv, UNCHANGED <<active, io_loop, state_, backlog, listenning_>>,
         base'.what = "accept" => base.what = "accept"
  PROVE  ActiveInv'
BY DEF ActiveInv

\* Poll() returns: the channels that are ready are those of connections that are up.
LEMMA IterateKeeps ==
  ASSUME IInv, NEW l \in Loops, Iterate(l, Ready(l)), UNCHANGED Rest
  PROVE  IInv'
<1>1. /\ UNCHANGED <<pending, batch, conn, server, base, quit_, loops_, next_, backlog, state_, io_loop,
                     came, listenning_, connections_>>
      /\ Free(l) /\ at[l] = "functors" /\ batch[l] = <<>>
      /\ \/ quit_[l] /\ at' = [at EXCEPT ![l] = "exited"] /\ active' = active
         \/ ~quit_[l] /\ at' = [at EXCEPT ![l] = "handle"] /\ active' = [active EXCEPT ![l] = Ready(l)]
  BY DEF Iterate, Rest, conn, acceptor, world, pool
<1>2. QueueInv'
  BY <1>1, QuietConns DEF IInv
<1>3. /\ DOMAIN at' = Loops /\ \A k \in Loops : k # l => at'[k] = at[k]
      /\ at'[l] \in {"exited", "handle"} /\ (at'[l] = "exited" => quit_[l])
  BY <1>1 DEF IInv, ThreadInv, LoopTypes
<1>4. Ready(l) \subseteq Conns \cup {Accepting}
  BY DEF Ready
<1>5. LoopTypes'
  BY <1>1, <1>3, <1>4 DEF IInv, ThreadInv, LoopTypes
<1>6. /\ \A k \in Loops : k # l => active'[k] = active[k]
      /\ active'[l] = active[l] \/ (active'[l] = Ready(l) /\ at'[l] = "handle")
  BY <1>1 DEF IInv, ThreadInv, LoopTypes
<1>7. active[l] = {}
  BY <1>1 DEF IInv, ThreadInv, LoopInv
<1>8. BaseInv'
  <2>1. base.what # "none" => at'[BaseLoop] = at[BaseLoop]
    BY <1>1, <1>3, LoopFacts DEF Free, IInv, ThreadInv, BaseInv
  <2> QED  BY <1>1, <2>1 DEF IInv, ThreadInv, BaseInv, Torn
<1>9. StartInv'
  <2>1. at[l] # "none"
    BY <1>1
  <2> QED  BY <1>1, <1>3, <2>1, LoopFacts DEF IInv, ThreadInv, StartInv
<1>10. LoopInv'
  <2> SUFFICES ASSUME NEW k \in Loops
               PROVE  /\ at'[k] # "functors" => batch'[k] = <<>>
                      /\ at'[k] # "handle" => active'[k] = {}
                      /\ quit_'[k] \/ at'[k] \in {"exited", "ended"} => Torn'
    BY DEF LoopInv
  <2>1. /\ at[k] # "functors" => batch[k] = <<>>
        /\ at[k] # "handle" => active[k] = {}
        /\ quit_[k] \/ at[k] \in {"exited", "ended"} => Torn
    BY DEF IInv, ThreadInv, LoopInv
  <2>2. (Torn => Torn') /\ quit_'[k] = quit_[k]
    BY <1>1 DEF Torn
  <2>3. CASE k # l
    BY <1>1, <1>3, <1>6, <2>1, <2>2, <2>3
  <2>4. CASE k = l
    BY <1>1, <1>3, <1>6, <1>7, <2>1, <2>2, <2>4
  <2> QED  BY <2>3, <2>4
<1>11. ActiveInv'
  <2>1. \A c \in Conns : c \in Ready(l) => io_loop[c] = l /\ state_[c] = "kConnected"
    BY ConnsAssumption DEF Ready, Accepting
  <2>2. Accepting \in Ready(l) => l = BaseLoop /\ backlog # <<>> /\ listenning_ /\ base.what # "accept"
    <3>1. Accepting \in Ready(l) => l = BaseLoop /\ backlog # <<>> /\ listenning_
      BY ConnsAssumption DEF Ready, Accepting
    <3> QED  BY <1>1, <3>1, BaseFacts DEF Free
  <2>3. ASSUME NEW k \in Loops, active'[k] = active[k]
        PROVE  /\ \A c \in Conns : c \in active'[k] => io_loop[c] = k /\ state_[c] = "kConnected"
               /\ Accepting \in active'[k] => k = BaseLoop /\ backlog # <<>> /\ listenning_ /\ base.what # "accept"
    BY <2>3 DEF IInv, ThreadInv, ActiveInv
  <2>4. ASSUME NEW k \in Loops
        PROVE  /\ \A c \in Conns : c \in active'[k] => io_loop[c] = k /\ state_[c] = "kConnected"
               /\ Accepting \in active'[k] => k = BaseLoop /\ backlog # <<>> /\ listenning_ /\ base.what # "accept"
    <3>1. CASE active'[k] = active[k]
      BY <2>3, <3>1
    <3>2. CASE active'[k] # active[k]
      <4>1. k = l /\ active'[k] = Ready(l)
        BY <1>6, <3>2
      <4> QED  BY <2>1, <2>2, <4>1
    <3> QED  BY <3>1, <3>2
  <2>5. UNCHANGED <<io_loop, state_, backlog, listenning_, base>>
    BY <1>1
  <2> QED  BY <2>4, <2>5 DEF ActiveInv
<1>12. AcceptInv'
  BY <1>1, SameAccept DEF IInv, ThreadInv
<1> QED  BY <1>2, <1>5, <1>8, <1>9, <1>10, <1>11, <1>12 DEF IInv, ThreadInv

\* A thread of the pool goes on, other than by handling or by calling a functor.
LEMMA ThreadMoves ==
  ASSUME IInv, NEW i \in IoLoops, NEW v, at' = [at EXCEPT ![i] = v], at[i] \notin {"functors", "handle", "none"},
         v \in {"exited", "ended"} => at[i] \in {"exited", "ended"},
         DOMAIN quit_' = Loops, \A l \in Loops : quit_'[l] => quit_[l],
         UNCHANGED <<batch, active, loops_, next_, base, server, connections_, state_, io_loop, backlog,
                     came, listenning_>>
  PROVE  ThreadInv'
<1>1. /\ DOMAIN at' = Loops /\ at'[i] = v /\ i \in Loops /\ i # BaseLoop /\ BaseLoop \in Loops
      /\ \A l \in Loops : l # i => at'[l] = at[l]
  BY LoopFacts DEF IInv, ThreadInv, LoopTypes
<1>2. LoopTypes'
  BY <1>1 DEF IInv, ThreadInv, LoopTypes
<1>3. BaseInv'
  BY <1>1 DEF IInv, ThreadInv, BaseInv, Torn
<1>4. StartInv'
  BY <1>1, LoopFacts DEF IInv, ThreadInv, StartInv
<1>5. ASSUME NEW l \in Loops
      PROVE  /\ at'[l] # "functors" => batch[l] = <<>>
             /\ at'[l] # "handle" => active[l] = {}
             /\ quit_'[l] \/ at'[l] \in {"exited", "ended"} => Torn
  BY <1>1 DEF IInv, ThreadInv, LoopInv
<1>6. LoopInv'
  BY <1>5 DEF LoopInv, Torn
<1>7. ActiveInv' /\ AcceptInv'
  BY SameActive, SameAccept DEF IInv, ThreadInv
<1> QED  BY <1>2, <1>3, <1>4, <1>6, <1>7 DEF ThreadInv

\* ThreadFunc() publishes its loop.
LEMMA PublishKeeps ==
  ASSUME IInv, NEW i \in IoLoops, Publish(i), UNCHANGED Rest
  PROVE  IInv'
<1>1. /\ UNCHANGED <<pending, batch, active, conn, loops_, next_, base, server, connections_, state_,
                     io_loop, backlog, came, listenning_, quit_>>
      /\ at[i] = "constructs" /\ at' = [at EXCEPT ![i] = "published"]
  BY DEF Publish, Rest, conn, acceptor, world, pool, queues
<1>2. QueueInv'
  BY <1>1, QuietConns DEF IInv
<1>3. DOMAIN quit_' = Loops /\ \A l \in Loops : quit_'[l] => quit_[l]
  BY <1>1 DEF IInv, ThreadInv, LoopTypes
<1>4. ThreadInv'
  BY <1>1, <1>3, ThreadMoves
<1> QED  BY <1>2, <1>4 DEF IInv

\* Loop() clears quit_.
LEMMA EnterLoopKeeps ==
  ASSUME IInv, NEW i \in IoLoops, EnterLoop(i), UNCHANGED Rest
  PROVE  IInv'
<1>1. /\ UNCHANGED <<pending, batch, active, conn, loops_, next_, base, server, connections_, state_,
                     io_loop, backlog, came, listenning_>>
      /\ at[i] = "published" /\ at' = [at EXCEPT ![i] = "functors"] /\ quit_' = [quit_ EXCEPT ![i] = FALSE]
  BY DEF EnterLoop, Rest, conn, acceptor, world, pool, queues
<1>2. QueueInv'
  BY <1>1, QuietConns DEF IInv
<1>3. DOMAIN quit_' = Loops /\ \A l \in Loops : quit_'[l] => quit_[l]
  BY <1>1, LoopFacts DEF IInv, ThreadInv, LoopTypes
<1>4. ThreadInv'
  BY <1>1, <1>3, ThreadMoves
<1> QED  BY <1>2, <1>4 DEF IInv

\* ThreadFunc() returns; the functors its loop was left with are never called.
LEMMA ThreadEndsKeeps ==
  ASSUME IInv, NEW i \in IoLoops, ThreadEnds(i), UNCHANGED Rest
  PROVE  IInv'
<1>1. /\ UNCHANGED <<batch, active, conn, loops_, next_, base, server, connections_, state_, io_loop,
                     backlog, came, listenning_, quit_,
                     ups, downs, destroys>>
      /\ at[i] = "exited" /\ at' = [at EXCEPT ![i] = "ended"] /\ pending' = [pending EXCEPT ![i] = <<>>]
  BY DEF ThreadEnds, DestructLoop, Rest, conn, acceptor, world, pool, queues
<1>2. i \in Loops /\ batch[i] = <<>> /\ connections_ = {}
  BY <1>1, LoopFacts DEF IInv, ThreadInv, LoopInv, BaseInv
<1>3. /\ QueueTypes' /\ Functors(i)' = <<>> /\ \A l \in Loops : l # i => Functors(l)' = Functors(l)
  BY <1>1, <1>2, Dropped DEF IInv, QueueInv
<1>4. ConnTypes'
  BY <1>1 DEF IInv, QueueInv, ConnTypes
<1>5. OnceInv'
  <2>1. \A f : Once(<<>>, f)
    <3>1. DOMAIN <<>> = {}
      BY SMTT(30)
    <3> QED  BY <3>1 DEF Once
  <2> QED  BY <1>3, <2>1 DEF IInv, QueueInv, OnceInv
<1>6. ASSUME NEW c \in Conns PROVE Placed(c)' /\ Stage(c)'
  <2>1. Placed(c) /\ Stage(c) /\ ConnTypes
    BY DEF IInv, QueueInv, ConnsInv
  <2>2. ASSUME NEW l \in Loops PROVE Kept(Functors(l), Functors(l)', c)
    BY <1>2, <1>3, KeptSame, KeptNone
  <2> QED  BY <1>1, <2>1, <2>2, Untouched
<1>7. QueueInv'
  BY <1>3, <1>4, <1>5, <1>6 DEF QueueInv, ConnsInv
<1>8. DOMAIN quit_' = Loops /\ \A l \in Loops : quit_'[l] => quit_[l]
  BY <1>1 DEF IInv, ThreadInv, LoopTypes
<1>9. ThreadInv'
  BY <1>1, <1>8, ThreadMoves
<1> QED  BY <1>7, <1>9 DEF IInv

\* A step of the base thread that leaves connections and loops alone.
LEMMA BaseMoves ==
  ASSUME IInv, LoopTypes', BaseInv', StartInv', Torn => Torn', \A l \in Loops : quit_'[l] => quit_[l] \/ Torn',
         UNCHANGED <<at, batch, active, server, state_, io_loop, backlog, came, listenning_>>,
         base'.what = "accept" => base.what = "accept"
  PROVE  ThreadInv'
<1>1. LoopInv'
  BY DEF IInv, ThreadInv, LoopInv
<1>2. ActiveInv' /\ AcceptInv'
  BY SameActive, SameAccept DEF IInv, ThreadInv
<1> QED  BY <1>1, <1>2 DEF ThreadInv

\* StartLoop() creates the thread of a loop that is not running yet.
LEMMA StartLoopKeeps ==
  ASSUME IInv, NEW i \in IoLoops, StartLoop(i), UNCHANGED Rest
  PROVE  IInv'
<1>1. /\ UNCHANGED <<pending, batch, active, conn, loops_, next_, server, connections_, state_, io_loop,
                     backlog, came, listenning_, quit_>>
      /\ base = Base("StartLoop", i) /\ base' = Base("cond_", i) /\ at' = [at EXCEPT ![i] = "constructs"]
  BY DEF StartLoop, Rest, conn, acceptor, world, pool, queues
<1>2. QueueInv'
  BY <1>1, QuietConns DEF IInv
<1>3. base.what = "StartLoop" /\ base.i = i /\ base'.what = "cond_" /\ base'.i = i
  BY <1>1, BaseFacts
<1>4. /\ DOMAIN at' = Loops /\ at'[i] = "constructs" /\ i \in Loops /\ i # BaseLoop /\ BaseLoop \in Loops
      /\ \A l \in Loops : l # i => at'[l] = at[l]
  BY <1>1, LoopFacts DEF IInv, ThreadInv, LoopTypes
<1>5. i \in Int /\ i >= i
  BY ThreadsAssumption, SMTT(30) DEF IoLoops
<1>6. at[i] = "none"
  BY <1>3, <1>5 DEF IInv, ThreadInv, StartInv
<1>7. LoopTypes'
  BY <1>1, <1>4 DEF IInv, ThreadInv, LoopTypes
<1>8. server = "started"
  BY <1>3 DEF IInv, ThreadInv, BaseInv, Starting
<1>9. BaseInv'
  <2>1. base' # Idle
    BY <1>3, BaseFacts
  <2> QED  BY <1>1, <1>3, <1>4, <1>8, <2>1 DEF IInv, ThreadInv, BaseInv, Torn, Starting, Destructing
<1>10. StartInv'
  <2>1. \A j \in IoLoops : j > i => j >= i /\ j # i
    BY ThreadsAssumption, SMTT(30) DEF IoLoops
  <2> QED  BY <1>1, <1>3, <1>4, <1>8, <2>1, LoopFacts DEF IInv, ThreadInv, StartInv
<1>11. LoopInv'
  <2>1. Torn => Torn'
    BY <1>1, <1>3, <1>8 DEF Torn
  <2> QED  BY <1>1, <1>4, <1>6, <2>1 DEF IInv, ThreadInv, LoopInv
<1>12. ActiveInv' /\ AcceptInv'
  BY <1>1, <1>3, SameActive, SameAccept DEF IInv, ThreadInv
<1> QED  BY <1>2, <1>7, <1>9, <1>10, <1>11, <1>12 DEF IInv, ThreadInv

\* StartLoop() returns the loop, which becomes the last of loops_.
LEMMA StartLoopReturnsKeeps ==
  ASSUME IInv, NEW i \in IoLoops, StartLoopReturns(i, Base("Listen", 0)), UNCHANGED Rest
  PROVE  IInv'
<1>1. /\ UNCHANGED <<pending, batch, active, conn, next_, server, connections_, state_, io_loop, backlog,
                     came, listenning_, quit_, at>>
      /\ base = Base("cond_", i) /\ (base' = Base("StartLoop", i + 1) \/ base' = Base("Listen", 0))
      /\ loops_' = Append(loops_, i)
  BY DEF StartLoopReturns, Rest, conn, acceptor, world, threads, queues
<1>2. QueueInv'
  BY <1>1, QuietConns DEF IInv
<1>3. base.what = "cond_" /\ base.i = i /\ ((base'.what = "StartLoop" /\ base'.i = i + 1) \/ base'.what = "Listen")
  <2>1. base.what = "cond_" /\ base.i = i
    BY <1>1, BaseFacts
  <2>2. base' = Base("StartLoop", i + 1) => base'.what = "StartLoop" /\ base'.i = i + 1
    BY BaseFacts, SMTT(30)
  <2>3. base' = Base("Listen", 0) => base'.what = "Listen"
    BY BaseFacts
  <2> QED  BY <1>1, <2>1, <2>2, <2>3
<1>4. server = "started"
  BY <1>3 DEF IInv, ThreadInv, BaseInv, Starting
<1>5. LoopTypes'
  <2>1. /\ loops_ \in Seq(IoLoops) /\ next_ \in Nat \ {0} /\ (loops_ = <<>> => next_ = 1) /\
             (loops_ # <<>> => next_ <= Len(loops_))
    BY DEF IInv, ThreadInv, LoopTypes
  <2>2. /\ loops_' \in Seq(IoLoops) /\ loops_' # <<>> /\ next_ <= Len(loops_')
    BY <1>1, <2>1, SMTT(30)
  <2> QED  BY <1>1, <2>1, <2>2 DEF IInv, ThreadInv, LoopTypes
<1>6. BaseInv'
  <2>1. base' # Idle
    BY <1>3, BaseFacts
  <2> QED  BY <1>1, <1>3, <1>4, <2>1 DEF IInv, ThreadInv, BaseInv, Torn, Starting, Destructing
<1>7. StartInv'
  <2>1. \A j \in IoLoops : j >= i + 1 => j > i
    BY ThreadsAssumption, SMTT(30) DEF IoLoops
  <2> QED  BY <1>1, <1>3, <1>4, <2>1 DEF IInv, ThreadInv, StartInv
<1>8. Torn => Torn'
  BY <1>1, <1>4 DEF Torn
<1> QED  BY <1>1, <1>2, <1>3, <1>5, <1>6, <1>7, <1>8, BaseMoves DEF IInv

\* ~EventLoopThreadPool() comes after the connections are destructed, so a loop may quit.
LEMMA PoolGoesOn ==
  ASSUME IInv, base.what \in {"~EventLoopThread", "Wakeup", "join"},
         base'.what \in {"~EventLoopThread", "Wakeup", "join", "terminated", "~Acceptor"},
         DOMAIN quit_' = Loops,
         UNCHANGED <<pending, batch, active, conn, loops_, next_, server, connections_, state_, io_loop,
                     backlog, came, listenning_, at>>
  PROVE  IInv'
<1>1. server = "destructs" /\ Torn
  BY DEF IInv, ThreadInv, BaseInv, Torn, Destructing
<1>2. Torn'
  BY <1>1 DEF Torn
<1>3. QueueInv'
  BY QuietConns DEF IInv
<1>4. LoopTypes'
  BY DEF IInv, ThreadInv, LoopTypes
<1>5. BaseInv'
  <2>1. base' # Idle
    BY BaseFacts
  <2> QED  BY <1>1, <2>1 DEF IInv, ThreadInv, BaseInv, Starting, Destructing
<1>6. StartInv'
  BY <1>1 DEF StartInv
<1> QED  BY <1>2, <1>3, <1>4, <1>5, <1>6, BaseMoves DEF IInv

\* Quit(), Wakeup() and join() of ~EventLoopThread().
LEMMA PoolKeeps ==
  ASSUME IInv, NEW i \in IoLoops, Quit(i) \/ Wakeup(i) \/ Join(i, Base("~Acceptor", 0)), UNCHANGED Rest
  PROVE  IInv'
<1>1. UNCHANGED <<pending, batch, active, conn, loops_, next_, server, connections_, state_, io_loop,
                  backlog, came, listenning_, at>>
  BY DEF Quit, Wakeup, Join, Rest, conn, acceptor, world, pool, threads, queues
<1>2. /\ base.what \in {"~EventLoopThread", "Wakeup", "join"}
      /\ base'.what \in {"~EventLoopThread", "Wakeup", "join", "terminated", "~Acceptor"}
  <2>1. \A w : base = Base(w, i) => base.what = w
    BY BaseFacts
  <2>2. \A w, j : base' = Base(w, j) => base'.what = w
    BY BaseFacts
  <2>3. CASE Quit(i)
    BY <2>1, <2>2, <2>3 DEF Quit
  <2>4. CASE Wakeup(i)
    BY <2>1, <2>2, <2>4 DEF Wakeup
  <2>5. CASE Join(i, Base("~Acceptor", 0))
    BY <2>1, <2>2, <2>5 DEF Join
  <2> QED  BY <2>3, <2>4, <2>5
<1>3. DOMAIN quit_ = Loops
  BY DEF IInv, ThreadInv, LoopTypes
<1>4. DOMAIN quit_' = Loops
  BY <1>3 DEF Quit, SetQuit, Wakeup, Join, threads
<1> QED  BY <1>1, <1>2, <1>4, PoolGoesOn

\* DoPendingFunctors() starts on the functors handed in.
LEMMA SwapFunctorsKeeps ==
  ASSUME IInv, NEW l \in Loops, SwapFunctors(l), UNCHANGED Rest
  PROVE  IInv'
<1>1. /\ UNCHANGED <<active, conn, loops_, next_, base, server, connections_, state_, io_loop, backlog, came,
                     listenning_, quit_,
                     ups, downs, destroys>>
      /\ Free(l) /\ at[l] = "handle" /\ active[l] = {} /\ at' = [at EXCEPT ![l] = "functors"]
      /\ batch' = [batch EXCEPT ![l] = pending[l]] /\ pending' = [pending EXCEPT ![l] = <<>>]
  BY DEF SwapFunctors, Rest, conn, acceptor, world, pool
<1>2. batch[l] = <<>>
  BY <1>1 DEF IInv, ThreadInv, LoopInv
<1>3. QueueTypes' /\ \A k \in Loops : Functors(k)' = Functors(k)
  BY <1>1, <1>2, Swapped DEF IInv, QueueInv
<1>4. ConnTypes' /\ OnceInv'
  BY <1>1, <1>3 DEF IInv, QueueInv, ConnTypes, OnceInv
<1>5. ASSUME NEW c \in Conns PROVE Placed(c)' /\ Stage(c)'
  <2>1. Placed(c) /\ Stage(c) /\ ConnTypes
    BY DEF IInv, QueueInv, ConnsInv
  <2>2. \A k \in Loops : Kept(Functors(k), Functors(k)', c)
    BY <1>3, KeptSame
  <2> QED  BY <1>1, <2>1, <2>2, Untouched
<1>6. QueueInv'
  BY <1>3, <1>4, <1>5 DEF QueueInv, ConnsInv
<1>7. DOMAIN at' = Loops /\ at'[l] = "functors" /\ \A k \in Loops : k # l => at'[k] = at[k]
  BY <1>1 DEF IInv, ThreadInv, LoopTypes
<1>8. LoopTypes' /\ BaseInv'
  BY <1>1, <1>7, LoopFacts DEF IInv, ThreadInv, LoopTypes, BaseInv, Torn
<1>9. StartInv'
  BY <1>1, <1>7, LoopFacts DEF IInv, ThreadInv, StartInv
<1>10. \A k \in Loops : k # l => batch'[k] = batch[k]
  BY <1>1 DEF IInv, QueueInv, QueueTypes
<1>11. LoopInv'
  <2> SUFFICES ASSUME NEW k \in Loops
               PROVE  /\ at'[k] # "functors" => batch'[k] = <<>>
                      /\ at'[k] # "handle" => active'[k] = {}
                      /\ quit_'[k] \/ at'[k] \in {"exited", "ended"} => Torn'
    BY DEF LoopInv
  <2>1. /\ at[k] # "functors" => batch[k] = <<>>
        /\ at[k] # "handle" => active[k] = {}
        /\ quit_[k] \/ at[k] \in {"exited", "ended"} => Torn
    BY DEF IInv, ThreadInv, LoopInv
  <2>2. (Torn => Torn') /\ quit_'[k] = quit_[k]
    BY <1>1 DEF Torn
  <2>3. CASE k # l
    BY <1>1, <1>7, <1>10, <2>1, <2>2, <2>3
  <2>4. CASE k = l
    BY <1>1, <1>7, <2>1, <2>2, <2>4
  <2> QED  BY <2>3, <2>4
<1>12. ActiveInv' /\ AcceptInv'
  BY <1>1, SameActive, SameAccept DEF IInv, ThreadInv
<1> QED  BY <1>6, <1>8, <1>9, <1>11, <1>12 DEF IInv, ThreadInv

\* set_thread_num(), other threads that open and close files, and a peer that closes.
LEMMA OthersKeep ==
  ASSUME IInv, (\E n \in 0 .. MaxThreads : set_thread_num(n)) \/ OtherOpens \/ OtherCloses \/
           \E c \in Conns : PeerCloses(c)
  PROVE  IInv'
<1>1. UNCHANGED <<pending, batch, active, conn, loops_, next_, base, server, connections_, state_, io_loop,
                  backlog, came,
                  listenning_, quit_, at>>
  <2>1. CASE \E n \in 0 .. MaxThreads : set_thread_num(n)
    BY <2>1 DEF set_thread_num, conn, acceptor, world, threads, queues
  <2>2. CASE OtherOpens \/ OtherCloses \/ \E c \in Conns : PeerCloses(c)
    BY <2>2 DEF OtherOpens, OtherCloses, PeerCloses, conn, acceptor, loops, threads, queues, pool
  <2> QED  BY <2>1, <2>2
<1>2. QueueInv'
  BY <1>1, QuietConns DEF IInv
<1>3. LoopTypes' /\ BaseInv' /\ StartInv' /\ Torn' = Torn
  BY <1>1 DEF IInv, ThreadInv, LoopTypes, BaseInv, StartInv, Torn
<1> QED  BY <1>1, <1>2, <1>3, BaseMoves DEF IInv

\* A peer that connects waits in the listening socket, as a connection that is not yet.
LEMMA PeerConnectsKeeps ==
  ASSUME IInv, NEW c \in Conns, PeerConnects(c)
  PROVE  IInv'
<1>1. /\ UNCHANGED <<pending, batch, active, conn, loops_, next_, base, server, connections_, state_,
                     io_loop, listenning_, quit_, at>>
      /\ listenning_ /\ c \notin came /\ came' = came \cup {c} /\ backlog' = Append(backlog, c)
  BY DEF PeerConnects, conn, loops, threads, queues, pool
<1>2. QueueInv'
  BY <1>1, QuietConns DEF IInv
<1>3. LoopTypes' /\ BaseInv' /\ StartInv' /\ LoopInv'
  BY <1>1 DEF IInv, ThreadInv, LoopTypes, BaseInv, StartInv, LoopInv, Torn
<1>4. backlog \in Seq(Conns)
  BY DEF IInv, ThreadInv, AcceptInv
<1> DEFINE n == Len(backlog) + 1
<1>5. /\ backlog' \in Seq(Conns) /\ backlog' # <<>> /\ DOMAIN backlog' = DOMAIN backlog \cup {n} /\ backlog'[n] = c
      /\ \A i \in DOMAIN backlog : backlog'[i] = backlog[i]
  BY <1>1, <1>4, SMTT(30)
<1>6. state_[c] = "none" /\ \A i \in DOMAIN backlog : backlog[i] # c
  BY <1>1 DEF IInv, ThreadInv, AcceptInv
<1>7. ActiveInv'
  BY <1>1, <1>5 DEF IInv, ThreadInv, ActiveInv
<1>8. AcceptInv'
  <2> HIDE DEF n
  <2>1. \A i \in DOMAIN backlog' : backlog'[i] \in came' /\ state_[backlog'[i]] = "none"
    BY <1>1, <1>5, <1>6 DEF IInv, ThreadInv, AcceptInv
  <2>2. \A i, j \in DOMAIN backlog' : backlog'[i] = backlog'[j] => i = j
    BY <1>5, <1>6 DEF IInv, ThreadInv, AcceptInv
  <2> QED  BY <1>1, <1>5, <2>1, <2>2 DEF IInv, ThreadInv, AcceptInv
<1> QED  BY <1>2, <1>3, <1>7, <1>8 DEF IInv, ThreadInv

\* accept() takes the peer that has waited longest; the others are other peers.
LEMMA BacklogTail ==
  ASSUME AcceptInv, backlog # <<>>
  PROVE  /\ Tail(backlog) \in Seq(Conns) /\ Head(backlog) \in Conns /\ Head(backlog) \in came /\
              state_[Head(backlog)] = "none"
         /\ \A i \in DOMAIN Tail(backlog) : Tail(backlog)[i] \in came /\ state_[Tail(backlog)[i]] = "none"
         /\ \A i \in DOMAIN Tail(backlog) : Tail(backlog)[i] # Head(backlog)
         /\ \A i, j \in DOMAIN Tail(backlog) : Tail(backlog)[i] = Tail(backlog)[j] => i = j
<1>1. backlog \in Seq(Conns)
  BY DEF AcceptInv
<1>2. /\ Tail(backlog) \in Seq(Conns) /\ Head(backlog) \in Conns /\ 1 \in DOMAIN backlog /\ Head(backlog) = backlog[1]
      /\ \A i \in DOMAIN Tail(backlog) :
           i + 1 \in DOMAIN backlog /\ Tail(backlog)[i] = backlog[i + 1] /\ (i + 1) - 1 = i /\ i + 1 # 1
  BY <1>1, SMTT(30)
<1> DEFINE b == backlog
           r == Tail(backlog)
<1>3. /\ \A i \in DOMAIN b : b[i] \in came /\ state_[b[i]] = "none"
      /\ \A i, j \in DOMAIN b : b[i] = b[j] => i = j
  BY DEF AcceptInv
<1>4. \A i \in DOMAIN r : i + 1 \in DOMAIN b /\ r[i] = b[i + 1] /\ (i + 1) - 1 = i /\ i + 1 # 1
  BY <1>2
<1>5. Head(backlog) = b[1] /\ 1 \in DOMAIN b
  BY <1>2
<1> HIDE DEF b, r
<1>6. ASSUME NEW i \in DOMAIN r PROVE r[i] \in came /\ state_[r[i]] = "none" /\ r[i] # b[1]
  <2>1. i + 1 \in DOMAIN b /\ r[i] = b[i + 1] /\ i + 1 # 1
    BY <1>4
  <2>2. b[i + 1] # b[1]
    BY <1>3, <1>5, <2>1
  <2> QED  BY <1>3, <2>1, <2>2
<1>7. ASSUME NEW i \in DOMAIN r, NEW j \in DOMAIN r, r[i] = r[j] PROVE i = j
  <2>1. i + 1 \in DOMAIN b /\ j + 1 \in DOMAIN b /\ b[i + 1] = b[j + 1]
    BY <1>4, <1>7
  <2>2. i + 1 = j + 1
    BY <1>3, <2>1
  <2> QED  BY <1>4, <2>2
<1>8. Head(backlog) \in came /\ state_[Head(backlog)] = "none"
  BY <1>3, <1>5
<1> QED  BY <1>2, <1>5, <1>6, <1>7, <1>8 DEF r

\* Start() finds no thread of the pool running.
LEMMA StartKeeps ==
  ASSUME IInv, Start
  PROVE  IInv'
<1>1. /\ UNCHANGED <<pending, batch, active, conn, loops_, next_, connections_, state_, io_loop, backlog,
                     came, listenning_, quit_, at>>
      /\ base = Idle /\ at[BaseLoop] = "functors" /\ server = "new" /\ server' = "started"
      /\ base' = Base("Listen", 0) \/ base' = Base("StartLoop", 1)
  BY DEF Start, InUserCode, conn, acceptor, world, pool, threads, queues
<1>2. QueueInv'
  BY <1>1, QuietConns DEF IInv
<1>3. base.what = "none" /\ base'.what \in {"Listen", "StartLoop"}
  <2>1. base' = Base("StartLoop", 1) => base'.what = "StartLoop"
    BY BaseFacts
  <2>2. base' = Base("Listen", 0) => base'.what = "Listen"
    BY BaseFacts
  <2> QED  BY <1>1, <2>1, <2>2, BaseFacts
<1>4. LoopTypes'
  BY <1>1 DEF IInv, ThreadInv, LoopTypes
<1>5. ~Torn /\ ~Torn'
  BY <1>1 DEF Torn
<1>6. BaseInv'
  <2>1. base' # Idle
    BY <1>3, BaseFacts
  <2> QED  BY <1>1, <1>3, <1>5, <2>1 DEF IInv, ThreadInv, BaseInv, Starting, Destructing
<1>7. StartInv'
  BY <1>1, <1>3 DEF IInv, ThreadInv, StartInv
<1>8. LoopInv'
  BY <1>1, <1>5 DEF IInv, ThreadInv, LoopInv
<1>9. ActiveInv'
  BY <1>1, <1>3, SameActive DEF IInv, ThreadInv
<1>10. AcceptInv'
  BY <1>1, <1>3 DEF IInv, ThreadInv, AcceptInv
<1> QED  BY <1>2, <1>4, <1>6, <1>7, <1>8, <1>9, <1>10 DEF IInv, ThreadInv

\* ~TcpServer() begins; from now on no connection needs to be in the map.
LEMMA DestructKeeps ==
  ASSUME IInv, Destruct
  PROVE  IInv'
<1>1. /\ UNCHANGED <<pending, batch, active, conn, loops_, next_, connections_, state_, io_loop, backlog,
                     came, listenning_, quit_, at>>
      /\ base = Idle /\ at[BaseLoop] = "functors" /\ server \in {"new", "started"} /\ server' = "destructs"
      /\ base' = Base("~TcpServer", 0)
  BY DEF Destruct, InUserCode, conn, acceptor, world, pool, threads, queues
<1>2. QueueInv'
  BY <1>1, QuietConns DEF IInv
<1>3. base.what = "none" /\ base'.what = "~TcpServer"
  BY <1>1, BaseFacts
<1>4. LoopTypes'
  BY <1>1 DEF IInv, ThreadInv, LoopTypes
<1>5. ~Torn /\ ~Torn'
  BY <1>1, <1>3 DEF Torn
<1>6. BaseInv'
  <2>1. base' # Idle
    BY <1>3, BaseFacts
  <2> QED  BY <1>1, <1>3, <1>5, <2>1 DEF IInv, ThreadInv, BaseInv, Starting, Destructing
<1>7. StartInv'
  BY <1>1, <1>3 DEF IInv, ThreadInv, StartInv
<1>8. LoopInv'
  BY <1>1, <1>5 DEF IInv, ThreadInv, LoopInv
<1>9. ActiveInv'
  BY <1>1, <1>3, SameActive DEF IInv, ThreadInv
<1>10. AcceptInv'
  BY <1>1, <1>3 DEF IInv, ThreadInv, AcceptInv
<1> QED  BY <1>2, <1>4, <1>6, <1>7, <1>8, <1>9, <1>10 DEF IInv, ThreadInv

\* Listen(), and the two steps with the spare descriptor.
LEMMA AcceptorKeeps ==
  ASSUME IInv, Listen \/ AcceptSpare \/ OpenSpare
  PROVE  IInv'
<1>1. /\ UNCHANGED <<pending, batch, active, conn, loops_, next_, connections_, state_, io_loop, came, quit_,
                     at, server>>
      /\ base.what \in {"Listen", "accept", "open"} /\ base' \in {Idle, Base("open", 0)} /\
           base'.what \in {"none", "open"}
      /\ listenning_ => listenning_'
      /\ backlog' = backlog \/ (base.what = "accept" /\ backlog' = Tail(backlog))
  <2>1. CASE Listen
    BY <2>1, BaseFacts DEF Listen, conn, world, pool, threads, queues
  <2>2. CASE AcceptSpare
    BY <2>2, BaseFacts DEF AcceptSpare, conn, world, pool, threads, queues
  <2>3. CASE OpenSpare
    BY <2>3, BaseFacts DEF OpenSpare, conn, world, pool, threads, queues
  <2> QED  BY <2>1, <2>2, <2>3
<1>2. QueueInv'
  BY <1>1, QuietConns DEF IInv
<1>3. server = "started"
  BY <1>1 DEF IInv, ThreadInv, BaseInv, Starting
<1>4. LoopTypes' /\ StartInv'
  BY <1>1, <1>3 DEF IInv, ThreadInv, LoopTypes, StartInv
<1>5. ~Torn /\ ~Torn'
  BY <1>1, <1>3 DEF Torn
<1>6. BaseInv'
  <2>1. base'.what = "none" <=> base' = Idle
    BY <1>1, BaseFacts
  <2> QED  BY <1>1, <1>3, <1>5, <2>1 DEF IInv, ThreadInv, BaseInv, Destructing
<1>7. LoopInv'
  BY <1>1, <1>5 DEF IInv, ThreadInv, LoopInv
<1>8. ASSUME NEW l \in Loops, Accepting \in active[l] PROVE (listenning_ => listenning_') /\ backlog' = backlog
  <2>1. l = BaseLoop /\ base.what # "accept"
    BY <1>8 DEF IInv, ThreadInv, ActiveInv
  <2> QED  BY <1>1, <2>1
<1>9. ActiveInv'
  <2>1. \A l \in Loops, c \in Conns : c \in active[l] => io_loop[c] = l /\ state_[c] = "kConnected"
    BY DEF IInv, ThreadInv, ActiveInv
  <2>2. \A l \in Loops : Accepting \in active[l] => l = BaseLoop /\ backlog' # <<>> /\ listenning_'
    BY <1>8 DEF IInv, ThreadInv, ActiveInv
  <2>3. base'.what # "accept"
    BY <1>1
  <2> QED  BY <1>1, <2>1, <2>2, <2>3 DEF ActiveInv
<1>10. /\ backlog' \in Seq(Conns) /\ \A i \in DOMAIN backlog' : backlog'[i] \in came /\ state_[backlog'[i]] = "none"
       /\ \A i, j \in DOMAIN backlog' : backlog'[i] = backlog'[j] => i = j
  <2>1. CASE backlog' = backlog
    BY <2>1 DEF IInv, ThreadInv, AcceptInv
  <2>2. CASE base.what = "accept" /\ backlog' = Tail(backlog)
    <3>1. AcceptInv /\ backlog # <<>>
      BY <2>2 DEF IInv, ThreadInv, AcceptInv
    <3> QED  BY <2>2, <3>1, BacklogTail
  <2> QED  BY <1>1, <2>1, <2>2
<1>11. AcceptInv'
  BY <1>1, <1>3, <1>10 DEF IInv, ThreadInv, AcceptInv
<1> QED  BY <1>2, <1>4, <1>6, <1>7, <1>9, <1>11 DEF IInv, ThreadInv

\* ~Acceptor(), the last of ~TcpServer().
LEMMA DestructAcceptorKeeps ==
  ASSUME IInv, DestructAcceptor
  PROVE  IInv'
<1>1. /\ UNCHANGED <<pending, batch, active, conn, loops_, next_, connections_, state_, io_loop, came, quit_, at>>
      /\ base = Base("~Acceptor", 0) /\ base' = Idle /\ server' = "gone" /\ listenning_' = FALSE /\ backlog' = <<>>
  BY DEF DestructAcceptor, conn, world, pool, threads, queues
<1>2. QueueInv'
  BY <1>1, QuietConns DEF IInv
<1>3. base.what = "~Acceptor" /\ base'.what = "none"
  BY <1>1, BaseFacts
<1>4. server = "destructs" /\ Torn /\ Torn' /\ at[BaseLoop] = "functors"
  BY <1>1, <1>3 DEF IInv, ThreadInv, BaseInv, Torn, Destructing
<1>5. LoopTypes' /\ StartInv'
  BY <1>1, <1>3 DEF IInv, ThreadInv, LoopTypes, StartInv
<1>6. BaseInv'
  BY <1>1, <1>3, <1>4 DEF IInv, ThreadInv, BaseInv, Starting, Destructing
<1>7. LoopInv'
  BY <1>1, <1>4 DEF IInv, ThreadInv, LoopInv
<1>8. ASSUME NEW l \in Loops PROVE Accepting \notin active[l]
  BY <1>4 DEF IInv, ThreadInv, ActiveInv, LoopInv
<1>9. ActiveInv'
  BY <1>1, <1>8 DEF IInv, ThreadInv, ActiveInv
<1>10. <<>> \in Seq(Conns) /\ DOMAIN <<>> = {}
  BY SMTT(30)
<1>11. AcceptInv'
  BY <1>1, <1>3, <1>10 DEF IInv, ThreadInv, AcceptInv
<1> QED  BY <1>2, <1>5, <1>6, <1>7, <1>9, <1>11 DEF IInv, ThreadInv

------------------------------------------------------------------------------
(* Connections close. *)

\* A step that changes connections, none of which waits to be accepted.
LEMMA AcceptStays ==
  ASSUME AcceptInv, UNCHANGED <<backlog, came, listenning_, server>>, base'.what = "accept" => base.what = "accept",
         \A d \in Conns : state_'[d] = "none" <=> state_[d] = "none"
  PROVE  AcceptInv'
<1>1. backlog \in Seq(Conns) /\ \A i \in DOMAIN backlog : backlog[i] \in came /\ state_[backlog[i]] = "none"
  BY DEF AcceptInv
<1>2. \A i \in DOMAIN backlog : backlog[i] \in Conns
  BY <1>1, SMTT(30)
<1>3. \A i \in DOMAIN backlog : state_'[backlog[i]] = "none"
  BY <1>1, <1>2
<1> QED  BY <1>3 DEF AcceptInv

\* QueueInLoop() of a functor that was nowhere: it is there once, at the end.
LEMMA PutInv ==
  ASSUME QueueTypes, OnceInv, NEW k \in Loops, NEW f \in FunctorSet, ~Has(Functors(k), f),
         pending' = QueueInLoop(pending, k, f), batch' = batch
  PROVE  /\ QueueTypes' /\ OnceInv'
         /\ \A l \in Loops, g \in FunctorSet : Has(Functors(l)', g) <=> Has(Functors(l), g) \/ (l = k /\ g = f)
         /\ \A d \in Conns : d # f.conn => \A l \in Loops : Kept(Functors(l), Functors(l)', d)
<1>1. /\ QueueTypes' /\ Functors(k)' = Append(Functors(k), f) /\ Functors(k) \in Seq(FunctorSet)
      /\ \A l \in Loops : l # k => Functors(l)' = Functors(l)
  BY Put, FunctorsTyped
<1>2. ASSUME NEW g \in FunctorSet PROVE Once(Append(Functors(k), f), g)
  <2>1. Once(Functors(k), g) /\ (f = g => ~Has(Functors(k), g))
    BY DEF OnceInv
  <2> QED  BY <1>1, <2>1, Appended
<1>3. OnceInv'
  BY <1>1, <1>2 DEF OnceInv
<1>4. \A g : Has(Append(Functors(k), f), g) <=> Has(Functors(k), g) \/ f = g
  BY <1>1, Appended
<1>5. \A l \in Loops, g \in FunctorSet : Has(Functors(l)', g) <=> Has(Functors(l), g) \/ (l = k /\ g = f)
  BY <1>1, <1>4
<1>6. ASSUME NEW d \in Conns, d # f.conn, NEW l \in Loops PROVE Kept(Functors(l), Functors(l)', d)
  <2>1. Kept(Functors(k), Append(Functors(k), f), d)
    BY <1>1, <1>6, KeptAppend
  <2> QED  BY <1>1, <2>1, KeptSame
<1> QED  BY <1>1, <1>3, <1>5, <1>6

\* What a step does to one connection leaves the others where they were.
LEMMA OthersUntouched ==
  ASSUME ConnsInv, ConnTypes, NEW c \in Conns, NEW d \in Conns, d # c,
         state_'[d] = state_[d], io_loop'[d] = io_loop[d], ups'[d] = ups[d], downs'[d] = downs[d],
         destroys'[d] = destroys[d], d \in connections_' <=> d \in connections_, server' = server,
         \A l \in Loops : Kept(Functors(l), Functors(l)', d)
  PROVE  Placed(d)' /\ Stage(d)'
<1>1. Placed(d) /\ Stage(d)
  BY DEF ConnsInv
<1> QED  BY <1>1, Untouched

\* The three functors of a connection are different functors.
LEMMA Three ==
  \A c \in Conns : /\ Est(c) \in FunctorSet /\ Des(c) \in FunctorSet /\ Rem(c) \in FunctorSet
                   /\ Est(c).conn = c /\ Des(c).conn = c /\ Rem(c).conn = c
                   /\ Est(c) # Des(c) /\ Est(c) # Rem(c) /\ Des(c) # Rem(c)
<1> SUFFICES ASSUME NEW c \in Conns
             PROVE  /\ Est(c) \in FunctorSet /\ Des(c) \in FunctorSet /\ Rem(c) \in FunctorSet
                    /\ Est(c).conn = c /\ Des(c).conn = c /\ Rem(c).conn = c
                    /\ Est(c) # Des(c) /\ Est(c) # Rem(c) /\ Des(c) # Rem(c)
  OBVIOUS
<1>1. /\ Est(c) \in FunctorSet /\ Des(c) \in FunctorSet /\ Rem(c) \in FunctorSet
      /\ Est(c).conn = c /\ Des(c).conn = c /\ Rem(c).conn = c
      /\ Est(c).op = "ConnectEstablished" /\ Des(c).op = "ConnectDestroyed" /\ Rem(c).op = "RemoveConnectionInLoop"
  BY FunctorFacts DEF Est, Des, Rem, Ops
<1> QED  BY <1>1

\* HandleClose(): the connection is down, and its removal is done or under way.
LEMMA HandleCloseQueues ==
  ASSUME IInv, NEW l \in Loops, NEW c \in Conns, HandleClose(l, c)
  PROVE  QueueInv'
<1>1. /\ UNCHANGED <<batch, server, io_loop, ups, destroys>>
      /\ c \in active[l] /\ state_' = [state_ EXCEPT ![c] = "kDisconnected"]
      /\ downs' = [downs EXCEPT ![c] = @ + 1] /\ RemoveConnection(c)
  BY DEF HandleClose
<1>2. io_loop[c] = l /\ state_[c] = "kConnected"
  BY <1>1 DEF IInv, ThreadInv, ActiveInv
<1>3. Placed(c) /\ Stage(c) /\ QueueTypes /\ ConnTypes /\ OnceInv /\ ConnsInv
  BY DEF IInv, QueueInv, ConnsInv
<1>4. ups[c] = 1 /\ downs[c] = 0 /\ destroys[c] = 0 /\ (l = BaseLoop => c \in connections_)
  BY <1>2, <1>3 DEF Stage
<1>5. /\ state_'[c] = "kDisconnected" /\ downs'[c] = 1
      /\ \A d \in Conns : d # c => state_'[d] = state_[d] /\ downs'[d] = downs[d]
  <2>1. 0 + 1 = 1
    BY SMTT(30)
  <2> QED  BY <1>1, <1>3, <1>4, <2>1 DEF ConnTypes
<1>6. \A k \in Loops : ~Has(Functors(k), Est(c)) /\ ~Has(Functors(k), Rem(c)) /\ (Has(Functors(k), Des(c)) =>
        k = l /\ c \notin connections_)
  BY <1>2, <1>3 DEF Placed
<1>7. CASE l = BaseLoop
  <2>1. connections_' = connections_ \ {c} /\ pending' = QueueInLoop(pending, BaseLoop, Des(c))
    BY <1>1, <1>2, <1>7 DEF RemoveConnection, RemoveConnectionInLoop, Des
  <2>2. ~Has(Functors(BaseLoop), Des(c)) /\ BaseLoop \in Loops
    BY <1>4, <1>6, <1>7
  <2>3. /\ QueueTypes' /\ OnceInv'
        /\ \A k \in Loops, g \in FunctorSet : Has(Functors(k)', g) <=> Has(Functors(k), g) \/
             (k = BaseLoop /\ g = Des(c))
        /\ \A d \in Conns : d # c => \A k \in Loops : Kept(Functors(k), Functors(k)', d)
    BY <1>1, <1>3, <2>1, <2>2, PutInv, Three
  <2>4. ConnTypes'
    BY <1>1, <1>3, <2>1 DEF ConnTypes
  <2>5. ASSUME NEW d \in Conns, d # c PROVE Placed(d)' /\ Stage(d)'
    BY <1>1, <1>3, <1>5, <2>1, <2>3, <2>5, OthersUntouched
  <2>6. \A k \in Loops : ~Has(Functors(k)', Est(c)) /\ ~Has(Functors(k)', Rem(c)) /\ (Has(Functors(k)',
        Des(c)) => k = BaseLoop)
    BY <1>4, <1>6, <1>7, <2>3, Three
  <2>7. Placed(c)'
    BY <1>1, <1>2, <1>4, <1>5, <1>7, <2>1, <2>6 DEF Placed
  <2>8. Stage(c)'
    BY <1>1, <1>4, <1>5, <2>1 DEF Stage
  <2> QED  BY <2>3, <2>4, <2>5, <2>7, <2>8 DEF QueueInv, ConnsInv
<1>8. CASE l # BaseLoop
  <2>1. connections_' = connections_ /\ pending' = QueueInLoop(pending, BaseLoop, Rem(c))
    BY <1>1, <1>2, <1>8 DEF RemoveConnection, Rem
  <2>2. ~Has(Functors(BaseLoop), Rem(c)) /\ BaseLoop \in Loops
    BY <1>6, LoopFacts
  <2>3. /\ QueueTypes' /\ OnceInv'
        /\ \A k \in Loops, g \in FunctorSet : Has(Functors(k)', g) <=> Has(Functors(k), g) \/
             (k = BaseLoop /\ g = Rem(c))
        /\ \A d \in Conns : d # c => \A k \in Loops : Kept(Functors(k), Functors(k)', d)
    BY <1>1, <1>3, <2>1, <2>2, PutInv, Three
  <2>4. ConnTypes'
    BY <1>1, <1>3, <2>1 DEF ConnTypes
  <2>5. ASSUME NEW d \in Conns, d # c PROVE Placed(d)' /\ Stage(d)'
    BY <1>1, <1>3, <1>5, <2>1, <2>3, <2>5, OthersUntouched
  <2>6. /\ \A k \in Loops : ~Has(Functors(k)', Est(c)) /\ (Has(Functors(k)', Rem(c)) => k = BaseLoop)
        /\ \A k \in Loops : Has(Functors(k)', Des(c)) => k = l /\ c \notin connections_
        /\ Has(Functors(BaseLoop)', Rem(c))
    BY <1>6, <2>2, <2>3, Three
  <2>7. server \in {"new", "started"} => c \in connections_
    BY <1>2, <1>3 DEF Stage
  <2>8. Placed(c)'
    BY <1>1, <1>2, <1>4, <1>5, <1>8, <2>1, <2>6, <2>7 DEF Placed
  <2>9. Stage(c)'
    BY <1>1, <1>4, <1>5, <2>1, <2>6 DEF Stage
  <2> QED  BY <2>3, <2>4, <2>5, <2>8, <2>9 DEF QueueInv, ConnsInv
<1> QED  BY <1>7, <1>8

\* HandleClose() in the connection's loop.
LEMMA HandleCloseKeeps ==
  ASSUME IInv, NEW l \in Loops, NEW c \in Conns, HandleClose(l, c)
  PROVE  IInv'
<1>1. /\ UNCHANGED <<batch, server, io_loop, loops_, next_, base, backlog, came, listenning_, quit_, at>>
      /\ c \in active[l] /\ state_' = [state_ EXCEPT ![c] = "kDisconnected"]
      /\ active' = [active EXCEPT ![l] = @ \ {c}] /\ RemoveConnection(c)
  BY DEF HandleClose, threads, pool, acceptor, world
<1>2. QueueInv'
  BY HandleCloseQueues
<1>3. io_loop[c] = l /\ state_[c] = "kConnected"
  BY <1>1 DEF IInv, ThreadInv, ActiveInv
<1>4. /\ state_'[c] = "kDisconnected" /\ \A d \in Conns : d # c => state_'[d] = state_[d]
      /\ active'[l] = active[l] \ {c} /\ \A k \in Loops : k # l => active'[k] = active[k]
  BY <1>1 DEF IInv, QueueInv, ConnTypes, ThreadInv, LoopTypes
<1>5. connections_' \subseteq connections_
  BY <1>1 DEF RemoveConnection, RemoveConnectionInLoop
<1>6. LoopTypes'
  BY <1>1 DEF IInv, ThreadInv, LoopTypes
<1>7. BaseInv' /\ StartInv'
  BY <1>1, <1>5 DEF IInv, ThreadInv, BaseInv, StartInv, Torn
<1>8. LoopInv'
  BY <1>1, <1>4 DEF IInv, ThreadInv, LoopInv, Torn
<1>9. ActiveInv'
  <2>1. ASSUME NEW k \in Loops, NEW d \in Conns, d \in active'[k] PROVE io_loop[d] = k /\ state_'[d] = "kConnected"
    <3>1. d \in active[k]
      BY <1>4, <2>1
    <3>2. io_loop[d] = k /\ state_[d] = "kConnected"
      BY <3>1 DEF IInv, ThreadInv, ActiveInv
    <3>3. d # c
      BY <1>3, <1>4, <2>1, <3>2
    <3> QED  BY <1>4, <3>2, <3>3
  <2>2. \A k \in Loops : active'[k] \subseteq active[k]
    BY <1>4
  <2> QED  BY <1>1, <2>1, <2>2 DEF IInv, ThreadInv, ActiveInv
<1>10. AcceptInv'
  <2>1. \A d \in Conns : state_'[d] = "none" <=> state_[d] = "none"
    BY <1>3, <1>4
  <2> QED  BY <1>1, <2>1, AcceptStays DEF IInv, ThreadInv
<1> QED  BY <1>2, <1>6, <1>7, <1>8, <1>9, <1>10 DEF IInv, ThreadInv

------------------------------------------------------------------------------
(* Connections come. *)

\* GetNextLoop() returns a loop.
LEMMA NextLoopTyped ==
  ASSUME LoopTypes
  PROVE  NextLoop \in Loops /\ (NextLoop = BaseLoop <=> loops_ = <<>>)
<1>1. loops_ \in Seq(IoLoops) /\ next_ \in Nat \ {0} /\ (loops_ # <<>> => next_ <= Len(loops_))
  BY DEF LoopTypes
<1>2. loops_ # <<>> => loops_[next_] \in IoLoops
  BY <1>1, SMTT(30)
<1> QED  BY <1>2, LoopFacts DEF NextLoop

\* GetNextLoop() leaves next_ within loops_.
LEMMA AdvanceTyped ==
  ASSUME LoopTypes
  PROVE  AdvanceNext \in Nat \ {0} /\ (loops_ = <<>> => AdvanceNext = 1) /\ (loops_ # <<>> =>
           AdvanceNext <= Len(loops_))
BY SMTT(30) DEF LoopTypes, AdvanceNext

\* The server is started when it accepts.
LEMMA Started ==
  ASSUME ThreadInv, base = Idle, Accepting \in active[BaseLoop]
  PROVE  server = "started" /\ backlog # <<>> /\ listenning_ /\ base.what = "none"
<1>1. base.what = "none"
  BY BaseFacts
<1>2. backlog # <<>> /\ listenning_
  BY LoopFacts DEF ThreadInv, ActiveInv
<1>3. server \in {"started", "destructs"} /\ server # "destructs"
  BY <1>1, <1>2 DEF ThreadInv, AcceptInv, BaseInv, Destructing
<1> QED  BY <1>1, <1>2, <1>3

\* NewConnection() puts a connection that never was into the map, and establishes it
\* in its loop, at once or through the queue.
LEMMA NewConnectionKeeps ==
  ASSUME QueueInv, LoopTypes, server = "started", server' = server, batch' = batch, NEW c \in Conns,
         state_[c] = "none", NewConnection(c)
  PROVE  QueueInv' /\ state_'[c] # "none" /\ \A d \in Conns : d # c => state_'[d] = state_[d] /\
           io_loop'[d] = io_loop[d]
<1>1. PICK l \in Loops : l = NextLoop
  BY NextLoopTyped
<1>2. /\ connections_' = connections_ \cup {c} /\ io_loop' = [io_loop EXCEPT ![c] = l] /\ downs' = downs /\
           destroys' = destroys
      /\ \/ l = BaseLoop /\ state_' = [state_ EXCEPT ![c] = "kConnected"] /\
              ups' = [ups EXCEPT ![c] = @ + 1] /\ pending' = pending
         \/ /\ l # BaseLoop /\ state_' = [state_ EXCEPT ![c] = "kConnecting"] /\ ups' = ups
            /\ pending' = QueueInLoop(pending, l, Est(c))
  BY <1>1 DEF NewConnection, ConnectEstablished, Est
<1>3. Placed(c) /\ Stage(c) /\ QueueTypes /\ ConnTypes /\ OnceInv /\ ConnsInv
  BY DEF QueueInv, ConnsInv
<1>4. /\ ups[c] = 0 /\ downs[c] = 0 /\ destroys[c] = 0
      /\ \A k \in Loops : ~Has(Functors(k), Est(c)) /\ ~Has(Functors(k), Des(c)) /\ ~Has(Functors(k), Rem(c))
  BY <1>3 DEF Stage, Placed
<1>5. io_loop'[c] = l /\ \A d \in Conns : d # c => io_loop'[d] = io_loop[d] /\ (d \in connections_' <=>
        d \in connections_)
  BY <1>2, <1>3 DEF ConnTypes
<1>6. ConnTypes'
  BY <1>2, <1>3 DEF ConnTypes
<1>7. CASE l = BaseLoop
  <2>1. /\ state_'[c] = "kConnected" /\ ups'[c] = 1 /\ pending' = pending
        /\ \A d \in Conns : d # c => state_'[d] = state_[d] /\ ups'[d] = ups[d]
    <3>1. 0 + 1 = 1
      BY SMTT(30)
    <3> QED  BY <1>2, <1>3, <1>4, <1>7, <3>1 DEF ConnTypes
  <2>2. \A k \in Loops : Functors(k)' = Functors(k)
    BY <2>1 DEF Functors
  <2>3. QueueTypes' /\ OnceInv'
    BY <1>3, <2>1, <2>2 DEF QueueTypes, OnceInv
  <2>4. ASSUME NEW d \in Conns, d # c PROVE Placed(d)' /\ Stage(d)'
    <3>1. \A k \in Loops : Kept(Functors(k), Functors(k)', d)
      BY <2>2, KeptSame
    <3>2. Placed(d) /\ Stage(d)
      BY <1>3 DEF ConnsInv
    <3> QED  BY <1>2, <1>3, <1>5, <2>1, <2>4, <3>1, <3>2, Untouched
  <2>5. Placed(c)'
    BY <1>4, <2>2 DEF Placed
  <2>6. Stage(c)'
    BY <1>2, <1>4, <2>1 DEF Stage
  <2> QED  BY <1>5, <1>6, <2>1, <2>3, <2>4, <2>5, <2>6 DEF QueueInv, ConnsInv
<1>8. CASE l # BaseLoop
  <2>1. /\ state_'[c] = "kConnecting" /\ ups' = ups /\ pending' = QueueInLoop(pending, l, Est(c))
        /\ \A d \in Conns : d # c => state_'[d] = state_[d]
    BY <1>2, <1>3, <1>8 DEF ConnTypes
  <2>2. /\ QueueTypes' /\ OnceInv'
        /\ \A k \in Loops, g \in FunctorSet : Has(Functors(k)', g) <=> Has(Functors(k), g) \/ (k = l /\ g = Est(c))
        /\ \A d \in Conns : d # c => \A k \in Loops : Kept(Functors(k), Functors(k)', d)
    <3>1. Est(c) \in FunctorSet /\ Est(c).conn = c /\ ~Has(Functors(l), Est(c))
      BY <1>4, <1>5, Three
    <3>2. QueueTypes /\ OnceInv
      BY <1>3, <1>4
    <3> QED  BY <2>1, <3>1, <3>2, PutInv
  <2>3. ASSUME NEW d \in Conns, d # c PROVE Placed(d)' /\ Stage(d)'
    BY <1>2, <1>3, <1>5, <2>1, <2>2, <2>3, OthersUntouched
  <2>4. /\ \A k \in Loops : ~Has(Functors(k)', Des(c)) /\ ~Has(Functors(k)', Rem(c)) /\ (Has(Functors(k)',
           Est(c)) => k = l)
        /\ Has(Functors(l)', Est(c))
    BY <1>4, <2>2, Three
  <2>5. Placed(c)'
    BY <1>5, <2>1, <2>4 DEF Placed
  <2>6. \A k \in Loops : Precedes(Functors(k)', Est(c), Des(c))
    BY <2>4 DEF Precedes, Has
  <2>7. Stage(c)'
    <3>1. Has(Functors(io_loop[c])', Est(c)) /\ Precedes(Functors(io_loop[c])', Est(c), Des(c))
      BY <1>5, <2>4, <2>6
    <3> QED  BY <1>2, <1>4, <1>5, <1>8, <2>1, <3>1 DEF Stage
  <2> QED  BY <1>5, <1>6, <2>1, <2>2, <2>3, <2>5, <2>7 DEF QueueInv, ConnsInv
<1> QED  BY <1>7, <1>8

\* HandleRead() of the acceptor, with a descriptor to give or without.
LEMMA HandleReadKeeps ==
  ASSUME IInv, HandleRead
  PROVE  IInv'
<1>1. /\ UNCHANGED <<batch, at, quit_, loops_, server, listenning_, came>>
      /\ base = Idle /\ at[BaseLoop] = "handle" /\ Accepting \in active[BaseLoop]
      /\ active' = [active EXCEPT ![BaseLoop] = @ \ {Accepting}]
  BY DEF HandleRead, Free, threads, world
<1>2. server = "started" /\ backlog # <<>> /\ base.what = "none"
  BY <1>1, Started DEF IInv
<1>3. active'[BaseLoop] = active[BaseLoop] \ {Accepting} /\ \A k \in Loops : k # BaseLoop => active'[k] = active[k]
  BY <1>1, LoopFacts DEF IInv, ThreadInv, LoopTypes
<1>4. /\ \A k \in Loops : active'[k] \subseteq active[k] /\ Accepting \notin active'[k]
      /\ active' \in [Loops -> SUBSET (Conns \cup {Accepting})]
  <2>1. \A k \in Loops : active'[k] \subseteq active[k]
    BY <1>3
  <2>2. \A k \in Loops : Accepting \notin active'[k]
    BY <1>3 DEF IInv, ThreadInv, ActiveInv
  <2> QED  BY <1>1, <2>1, <2>2 DEF IInv, ThreadInv, LoopTypes
<1>5. ~Torn /\ (server' = "started" /\ ~Torn')
  BY <1>1, <1>2 DEF Torn
<1>6. LoopInv'
  BY <1>1, <1>4, <1>5 DEF IInv, ThreadInv, LoopInv
<1>7. AcceptInv /\ Head(backlog) \in Conns /\ state_[Head(backlog)] = "none" /\ Head(backlog) \in came
  BY <1>2, BacklogTail DEF IInv, ThreadInv
<1>8. ASSUME UNCHANGED <<pending, next_, conn>>,
             (backlog' = Tail(backlog) /\ base' = base) \/ (backlog' = backlog /\ base' = Base("accept", 0))
      PROVE  IInv'
  <2>1. UNCHANGED <<connections_, state_, io_loop>>
    BY <1>8 DEF conn
  <2>2. QueueInv'
    BY <1>1, <1>8, QuietConns DEF IInv
  <2>3. LoopTypes'
    BY <1>1, <1>4, <1>8 DEF IInv, ThreadInv, LoopTypes
  <2>4. (base' = Idle /\ base'.what = "none" /\ backlog' = Tail(backlog)) \/ (base' # Idle /\
          base'.what = "accept" /\ backlog' = backlog)
    <3>1. Base("accept", 0).what = "accept" /\ Idle.what = "none"
      BY BaseFacts
    <3> QED  BY <1>1, <1>8, <3>1
  <2>5. BaseInv'
    BY <1>1, <1>2, <1>5, <2>1, <2>4 DEF IInv, ThreadInv, BaseInv, Destructing, Starting
  <2>6. StartInv'
    BY <1>1, <1>2, <2>4 DEF StartInv
  <2>7. ActiveInv'
    <3> SUFFICES ASSUME NEW k \in Loops, NEW c \in Conns, c \in active'[k] PROVE io_loop[c] = k /\
                          state_[c] = "kConnected"
      BY <1>4, <2>1 DEF ActiveInv
    <3>1. c \in active[k]
      BY <1>4
    <3> QED  BY <3>1 DEF IInv, ThreadInv, ActiveInv
  <2>8. AcceptInv'
    <3>1. CASE base'.what = "none" /\ backlog' = Tail(backlog)
      <4>1. /\ Tail(backlog) \in Seq(Conns)
            /\ \A i \in DOMAIN Tail(backlog) : Tail(backlog)[i] \in came /\ state_[Tail(backlog)[i]] = "none"
            /\ \A i, j \in DOMAIN Tail(backlog) : Tail(backlog)[i] = Tail(backlog)[j] => i = j
        BY <1>2, <1>7, BacklogTail
      <4> QED  BY <1>1, <1>2, <1>7, <2>1, <3>1, <4>1 DEF AcceptInv
    <3>2. CASE backlog' = backlog
      BY <1>1, <1>2, <1>7, <2>1, <3>2 DEF AcceptInv
    <3> QED  BY <2>4, <3>1, <3>2
  <2> QED  BY <1>6, <2>2, <2>3, <2>5, <2>6, <2>7, <2>8 DEF IInv, ThreadInv
<1>9. CASE backlog' = Tail(backlog) /\ NewConnection(Head(backlog)) /\ base' = base
  <2>1. PICK c \in Conns : c = Head(backlog)
    BY <1>7
  <2>2. /\ QueueInv' /\ state_'[c] # "none"
        /\ \A d \in Conns : d # c => state_'[d] = state_[d] /\ io_loop'[d] = io_loop[d]
    BY <1>1, <1>2, <1>7, <1>9, <2>1, NewConnectionKeeps DEF IInv, ThreadInv
  <2>3. next_' = AdvanceNext
    BY <1>9 DEF NewConnection
  <2>4. LoopTypes'
    <3>1. LoopTypes
      BY DEF IInv, ThreadInv
    <3>2. next_' \in Nat \ {0} /\ (loops_ = <<>> => next_' = 1) /\ (loops_ # <<>> => next_' <= Len(loops_))
      BY <2>3, <3>1, AdvanceTyped
    <3> QED  BY <1>1, <1>4, <3>1, <3>2 DEF LoopTypes
  <2>5. BaseInv'
    BY <1>1, <1>2, <1>5, <1>9 DEF IInv, ThreadInv, BaseInv
  <2>6. StartInv'
    BY <1>1, <1>2, <1>9 DEF StartInv
  <2>7. ActiveInv'
    <3>1. ASSUME NEW k \in Loops, NEW d \in Conns, d \in active'[k] PROVE io_loop'[d] = k /\ state_'[d] = "kConnected"
      <4>1. io_loop[d] = k /\ state_[d] = "kConnected"
        BY <1>4, <3>1 DEF IInv, ThreadInv, ActiveInv
      <4>2. d # c
        BY <1>7, <2>1, <4>1
      <4> QED  BY <2>2, <4>1, <4>2
    <3> QED  BY <1>4, <3>1 DEF ActiveInv
  <2>8. AcceptInv'
    <3>1. /\ Tail(backlog) \in Seq(Conns)
          /\ \A i \in DOMAIN Tail(backlog) : Tail(backlog)[i] \in came /\ state_[Tail(backlog)[i]] = "none"
          /\ \A i \in DOMAIN Tail(backlog) : Tail(backlog)[i] # Head(backlog)
          /\ \A i, j \in DOMAIN Tail(backlog) : Tail(backlog)[i] = Tail(backlog)[j] => i = j
      BY <1>2, <1>7, BacklogTail
    <3>2. \A i \in DOMAIN Tail(backlog) : Tail(backlog)[i] \in Conns
      BY <3>1, SMTT(30)
    <3>3. \A i \in DOMAIN Tail(backlog) : state_'[Tail(backlog)[i]] = "none"
      BY <2>1, <2>2, <3>1, <3>2
    <3>4. \A d \in Conns : state_'[d] # "none" => d \in came
      BY <1>7, <2>1, <2>2 DEF AcceptInv
    <3> QED  BY <1>1, <1>2, <1>9, <3>1, <3>3, <3>4 DEF AcceptInv
  <2> QED  BY <1>6, <2>2, <2>4, <2>5, <2>6, <2>7, <2>8 DEF IInv, ThreadInv
<1> QED  BY <1>8, <1>9 DEF HandleRead

------------------------------------------------------------------------------
(* ~TcpServer() and its connections. *)

\* A functor, or ~TcpServer(), does something to connections.
LEMMA ConnStep ==
  ASSUME IInv, NEW l \in Loops, at[l] = "functors", \A k \in Loops : k # l => batch'[k] = batch[k],
         UNCHANGED <<active, at, quit_, loops_, next_, server, base, io_loop, backlog, came, listenning_>>,
         connections_' \subseteq connections_,
         \A d \in Conns : state_'[d] = "none" <=> state_[d] = "none",
         \A d \in Conns : state_[d] = "kConnected" /\ state_'[d] # "kConnected" => io_loop[d] = l
  PROVE  ThreadInv'
<1>1. LoopTypes' /\ BaseInv' /\ StartInv'
  BY DEF IInv, ThreadInv, LoopTypes, BaseInv, StartInv, Torn
<1>2. LoopInv'
  BY DEF IInv, ThreadInv, LoopInv, Torn
<1>3. ActiveInv'
  <2>1. ASSUME NEW k \in Loops, NEW d \in Conns, d \in active[k] PROVE io_loop[d] = k /\ state_'[d] = "kConnected"
    <3>1. io_loop[d] = k /\ state_[d] = "kConnected"
      BY <2>1 DEF IInv, ThreadInv, ActiveInv
    <3>2. k # l
      BY <2>1 DEF IInv, ThreadInv, LoopInv
    <3> QED  BY <3>1, <3>2
  <2> QED  BY <2>1 DEF IInv, ThreadInv, ActiveInv
<1>4. AcceptInv'
  BY AcceptStays DEF IInv, ThreadInv
<1> QED  BY <1>1, <1>2, <1>3, <1>4 DEF ThreadInv

\* ConnectDestroyed() on a connection that has been up and is out of the map.
LEMMA Destroyed ==
  ASSUME ConnTypes, NEW c \in Conns, Stage(c), destroys[c] = 0, state_[c] \in {"kConnected",
         "kDisconnected"}, ConnectDestroyed(c)
  PROVE  /\ state_' \in [Conns -> {"none", "kConnecting", "kConnected", "kDisconnected"}]
         /\ DOMAIN downs' = Conns /\ DOMAIN destroys' = Conns
         /\ state_'[c] = "kDisconnected" /\ downs'[c] = 1 /\ destroys'[c] = 1 /\ ups[c] = 1
         /\ \A d \in Conns : d # c => state_'[d] = state_[d] /\ downs'[d] = downs[d] /\ destroys'[d] = destroys[d]
<1>1. 0 + 1 = 1
  BY SMTT(30)
<1>2. destroys'[c] = 1 /\ DOMAIN destroys' = Conns /\ \A d \in Conns : d # c => destroys'[d] = destroys[d]
  BY <1>1 DEF ConnTypes, ConnectDestroyed
<1>3. CASE state_[c] = "kConnected"
  <2>1. downs[c] = 0 /\ ups[c] = 1
    BY <1>3 DEF Stage
  <2>2. state_' = [state_ EXCEPT ![c] = "kDisconnected"] /\ downs' = [downs EXCEPT ![c] = @ + 1]
    BY <1>3 DEF ConnectDestroyed
  <2> QED  BY <1>1, <1>2, <2>1, <2>2 DEF ConnTypes
<1>4. CASE state_[c] = "kDisconnected"
  <2>1. downs[c] = 1 /\ ups[c] = 1
    BY <1>4 DEF Stage
  <2>2. state_' = state_ /\ downs' = downs
    BY <1>4 DEF ConnectDestroyed
  <2> QED  BY <1>2, <1>4, <2>1, <2>2 DEF ConnTypes
<1> QED  BY <1>3, <1>4

\* ~TcpServer() destroys a connection of its own loop at once.
LEMMA DestructsHere ==
  ASSUME IInv, NEW c \in Conns, c \in connections_, io_loop[c] = BaseLoop, ConnectDestroyed(c),
         connections_' = connections_ \ {c},
         UNCHANGED <<pending, batch, server, io_loop, ups>>
  PROVE  QueueInv' /\ state_[c] = "kConnected" /\ state_'[c] = "kDisconnected" /\ \A d \in Conns : d # c =>
           state_'[d] = state_[d]
<1>1. Placed(c) /\ Stage(c) /\ ConnTypes /\ QueueTypes /\ OnceInv /\ ConnsInv
  BY DEF IInv, QueueInv, ConnsInv
<1>2. BaseLoop \in Loops /\ state_[c] \in {"none", "kConnecting", "kConnected", "kDisconnected"}
  BY <1>1, LoopFacts DEF ConnTypes
<1>3. state_[c] = "kConnected" /\ destroys[c] = 0
  <2>1. state_[c] # "none" /\ state_[c] # "kConnecting"
    BY <1>1 DEF Stage
  <2>2. state_[c] # "kDisconnected"
    BY <1>1, <1>2 DEF Stage, Placed
  <2>3. state_[c] = "kConnected"
    BY <1>2, <2>1, <2>2
  <2> QED  BY <1>1, <2>3 DEF Stage
<1>4. \A k \in Loops : ~Has(Functors(k), Est(c)) /\ ~Has(Functors(k), Des(c)) /\ ~Has(Functors(k), Rem(c))
  BY <1>1, <1>3 DEF Placed
<1>5. /\ state_' \in [Conns -> {"none", "kConnecting", "kConnected", "kDisconnected"}]
      /\ DOMAIN downs' = Conns /\ DOMAIN destroys' = Conns
      /\ state_'[c] = "kDisconnected" /\ downs'[c] = 1 /\ destroys'[c] = 1 /\ ups[c] = 1
      /\ \A d \in Conns : d # c => state_'[d] = state_[d] /\ downs'[d] = downs[d] /\ destroys'[d] = destroys[d]
  BY <1>1, <1>3, Destroyed
<1>6. \A k \in Loops : Functors(k)' = Functors(k)
  BY DEF Functors
<1>7. QueueTypes' /\ OnceInv' /\ ConnTypes'
  BY <1>1, <1>5, <1>6 DEF QueueTypes, OnceInv, ConnTypes
<1>8. ASSUME NEW d \in Conns, d # c PROVE Placed(d)' /\ Stage(d)'
  <2>1. \A k \in Loops : Kept(Functors(k), Functors(k)', d)
    BY <1>6, KeptSame
  <2>2. d \in connections_' <=> d \in connections_
    BY <1>8
  <2> QED  BY <1>1, <1>5, <1>8, <2>1, <2>2, OthersUntouched
<1>9. Placed(c)'
  BY <1>4, <1>6 DEF Placed
<1>10. Stage(c)'
  BY <1>5 DEF Stage
<1> QED  BY <1>3, <1>5, <1>7, <1>8, <1>9, <1>10 DEF QueueInv, ConnsInv

\* ~TcpServer() hands ConnectDestroyed() to the connection's loop, where
\* ConnectEstablished() may still be waiting before it.
LEMMA DestructsThere ==
  ASSUME IInv, server = "destructs", NEW c \in Conns, c \in connections_, NEW m \in Loops, m = io_loop[c],
         m # BaseLoop,
         pending' = QueueInLoop(pending, m, Des(c)), connections_' = connections_ \ {c},
         UNCHANGED <<batch, server, io_loop, ups, downs, destroys, state_>>
  PROVE  QueueInv'
<1>1. Placed(c) /\ Stage(c) /\ ConnTypes /\ QueueTypes /\ OnceInv /\ ConnsInv
  BY DEF IInv, QueueInv, ConnsInv
<1>2. Des(c) \in FunctorSet /\ Des(c).conn = c /\ Est(c) # Des(c) /\ Rem(c) # Des(c) /\
        Est(c) \in FunctorSet /\ Rem(c) \in FunctorSet
  BY Three
<1>3. ~Has(Functors(m), Des(c)) /\ \A k \in Loops : ~Has(Functors(k), Des(c))
  BY <1>1 DEF Placed
<1>4. /\ QueueTypes' /\ OnceInv'
      /\ \A k \in Loops, g \in FunctorSet : Has(Functors(k)', g) <=> Has(Functors(k), g) \/ (k = m /\ g = Des(c))
      /\ \A d \in Conns : d # c => \A k \in Loops : Kept(Functors(k), Functors(k)', d)
  BY <1>1, <1>2, <1>3, PutInv
<1>5. ConnTypes'
  BY <1>1 DEF ConnTypes
<1>6. ASSUME NEW d \in Conns, d # c PROVE Placed(d)' /\ Stage(d)'
  <2>1. d \in connections_' <=> d \in connections_
    BY <1>6
  <2> QED  BY <1>1, <1>4, <1>6, <2>1, OthersUntouched
<1>7. destroys[c] = 0 /\ state_[c] # "none"
  <2>1. state_[c] \in {"none", "kConnecting", "kConnected", "kDisconnected"}
    BY <1>1 DEF ConnTypes
  <2> QED  BY <1>1, <2>1 DEF Stage
<1>8. Placed(c)'
  <2>1. \A k \in Loops : (Has(Functors(k)', Est(c)) => Has(Functors(k), Est(c))) /\ (Has(Functors(k)',
        Rem(c)) => Has(Functors(k), Rem(c)))
    BY <1>2, <1>4
  <2>2. \A k \in Loops : Has(Functors(k)', Des(c)) => k = m
    BY <1>2, <1>3, <1>4
  <2> QED  BY <1>1, <1>7, <2>1, <2>2 DEF Placed
<1>9. state_[c] = "kConnecting" => Precedes(Functors(m)', Est(c), Des(c))
  <2>1. Functors(m)' = Append(Functors(m), Des(c)) /\ Functors(m) \in Seq(FunctorSet)
    BY <1>1, <1>2, Put, FunctorsTyped
  <2>2. state_[c] = "kConnecting" => Has(Functors(m), Est(c)) /\ Precedes(Functors(m), Est(c), Des(c))
    BY <1>1 DEF Stage
  <2>3. state_[c] = "kConnecting" => Precedes(Append(Functors(m), Des(c)), Est(c), Des(c))
    BY <1>2, <2>1, <2>2, Appended
  <2> QED  BY <2>1, <2>3
<1>10. Stage(c)'
  BY <1>1, <1>7, <1>9 DEF Stage
<1> QED  BY <1>4, <1>5, <1>6, <1>8, <1>10 DEF QueueInv, ConnsInv

\* ~TcpServer() goes through the map.
LEMMA DestructConnectionKeeps ==
  ASSUME IInv, DestructConnection
  PROVE  IInv'
<1>1. /\ UNCHANGED <<batch, active, at, quit_, loops_, next_, server, backlog, came, listenning_>>
      /\ base = Base("~TcpServer", 0)
  BY DEF DestructConnection, threads, pool, acceptor, world
<1>2. base.what = "~TcpServer"
  BY <1>1, BaseFacts
<1>3. server = "destructs" /\ at[BaseLoop] = "functors" /\ BaseLoop \in Loops
  BY <1>2, LoopFacts DEF IInv, ThreadInv, BaseInv, Destructing
<1>4. ASSUME NEW c \in connections_, connections_' = connections_ \ {c}, UNCHANGED <<base, ups, io_loop>>,
             io_loop[c] = BaseLoop, ConnectDestroyed(c), pending' = pending
      PROVE  IInv'
  <2>1. c \in Conns
    BY DEF IInv, QueueInv, ConnTypes
  <2>2. QueueInv' /\ state_[c] = "kConnected" /\ state_'[c] = "kDisconnected" /\ \A d \in Conns : d # c =>
          state_'[d] = state_[d]
    BY <1>1, <1>4, <2>1, DestructsHere
  <2>3. \A d \in Conns : state_'[d] = "none" <=> state_[d] = "none"
    BY <2>2
  <2>4. \A d \in Conns : state_[d] = "kConnected" /\ state_'[d] # "kConnected" => io_loop[d] = BaseLoop
    BY <1>4, <2>2
  <2>5. connections_' \subseteq connections_
    BY <1>4
  <2>6. ThreadInv'
    BY <1>1, <1>3, <1>4, <2>3, <2>4, <2>5, ConnStep
  <2> QED  BY <2>2, <2>6 DEF IInv
<1>5. ASSUME NEW c \in connections_, connections_' = connections_ \ {c}, UNCHANGED <<base, ups, io_loop>>,
             io_loop[c] # BaseLoop, pending' = QueueInLoop(pending, io_loop[c], Des(c)), UNCHANGED <<state_,
                                                                                                     downs, destroys>>
      PROVE  IInv'
  <2>1. c \in Conns
    BY DEF IInv, QueueInv, ConnTypes
  <2>2. PICK m \in Loops : m = io_loop[c]
    BY <2>1 DEF IInv, QueueInv, ConnTypes
  <2>3. QueueInv'
    BY <1>1, <1>3, <1>5, <2>1, <2>2, DestructsThere
  <2>4. connections_' \subseteq connections_
    BY <1>5
  <2>5. ThreadInv'
    BY <1>1, <1>3, <1>5, <2>4, ConnStep
  <2> QED  BY <2>3, <2>5 DEF IInv
<1>6. ASSUME connections_ = {}, base' = AfterConnections, UNCHANGED <<pending, conn>>
      PROVE  IInv'
  <2>1. base'.what \in {"~Acceptor", "~EventLoopThread"}
    BY <1>6, BaseFacts DEF AfterConnections
  <2>2. UNCHANGED <<connections_, state_, io_loop>>
    BY <1>6 DEF conn
  <2>3. QueueInv'
    BY <1>1, <1>6, QuietConns DEF IInv
  <2>4. LoopTypes' /\ StartInv'
    BY <1>1, <1>3, <2>1 DEF IInv, ThreadInv, LoopTypes, StartInv
  <2>5. BaseInv'
    <3>1. base' # Idle
      BY <2>1, BaseFacts
    <3> QED  BY <1>1, <1>3, <1>6, <2>1, <2>2, <3>1 DEF IInv, ThreadInv, BaseInv, Destructing, Starting
  <2>6. Torn'
    BY <1>1, <1>3, <2>1 DEF Torn
  <2> QED  BY <1>1, <2>1, <2>2, <2>3, <2>4, <2>5, <2>6, BaseMoves DEF IInv
<1> QED  BY <1>4, <1>5, <1>6 DEF DestructConnection, Des

------------------------------------------------------------------------------
(* The functors. *)

\* A loop takes a functor: it was there once, so it is nowhere now.
LEMMA TakeInv ==
  ASSUME QueueTypes, OnceInv, NEW k \in Loops, batch[k] # <<>>, batch' = [batch EXCEPT ![k] = Tail(@)],
         pending' = pending, NEW f, f = Head(batch[k])
  PROVE  /\ QueueTypes' /\ OnceInv' /\ f \in FunctorSet /\ Has(Functors(k), f)
         /\ \A l \in Loops, g \in FunctorSet : Has(Functors(l)', g) <=> Has(Functors(l), g) /\ ~(l = k /\ g = f)
         /\ \A d \in Conns : d # f.conn => \A l \in Loops : Kept(Functors(l), Functors(l)', d)
         /\ \A g, h : Precedes(Functors(k), g, h) => h # f
<1>1. /\ QueueTypes' /\ Functors(k) # <<>> /\ Functors(k)' = Tail(Functors(k)) /\ Functors(k) \in Seq(FunctorSet)
      /\ f = Head(Functors(k)) /\ f \in FunctorSet
      /\ \A l \in Loops : l # k => Functors(l)' = Functors(l)
  BY Take, FunctorsTyped
<1>2. /\ Has(Functors(k), f)
      /\ \A g : Has(Tail(Functors(k)), g) => Has(Functors(k), g)
      /\ \A g : Has(Functors(k), g) /\ f # g => Has(Tail(Functors(k)), g)
      /\ \A g : Once(Functors(k), g) => Once(Tail(Functors(k)), g)
      /\ \A g : Once(Functors(k), g) /\ f = g => ~Has(Tail(Functors(k)), g)
      /\ \A g, h : Precedes(Functors(k), g, h) => f # h
  BY <1>1, Taken
<1>3. OnceInv'
  BY <1>1, <1>2 DEF OnceInv
<1>4. Once(Functors(k), f)
  BY <1>1 DEF OnceInv
<1>5. \A g : Has(Functors(k)', g) <=> Has(Functors(k), g) /\ g # f
  BY <1>1, <1>2, <1>4
<1>6. \A l \in Loops, g \in FunctorSet : Has(Functors(l)', g) <=> Has(Functors(l), g) /\ ~(l = k /\ g = f)
  BY <1>1, <1>5
<1>7. ASSUME NEW d \in Conns, d # f.conn, NEW l \in Loops PROVE Kept(Functors(l), Functors(l)', d)
  <2>1. Kept(Functors(k), Tail(Functors(k)), d)
    BY <1>1, <1>7, KeptTail
  <2> QED  BY <1>1, <2>1, KeptSame
<1> QED  BY <1>1, <1>2, <1>3, <1>6, <1>7

\* The functor ConnectEstablished() finds its connection kConnecting.
LEMMA RunEstablished ==
  ASSUME IInv, NEW l \in Loops, batch[l] # <<>>, batch' = [batch EXCEPT ![l] = Tail(@)], pending' = pending,
         NEW c \in Conns, Head(batch[l]) = Est(c), ConnectEstablished(c),
         UNCHANGED <<connections_, downs, destroys, server, io_loop>>
  PROVE  /\ QueueInv' /\ state_[c] = "kConnecting" /\ state_'[c] = "kConnected"
         /\ \A d \in Conns : d # c => state_'[d] = state_[d]
<1>1. Placed(c) /\ Stage(c) /\ ConnTypes /\ QueueTypes /\ OnceInv /\ ConnsInv
  BY DEF IInv, QueueInv, ConnsInv
<1>2. /\ Est(c) \in FunctorSet /\ Des(c) \in FunctorSet /\ Rem(c) \in FunctorSet /\ Est(c).conn = c
      /\ Est(c) # Des(c) /\ Est(c) # Rem(c)
  BY Three
<1>3. /\ QueueTypes' /\ OnceInv' /\ Has(Functors(l), Est(c))
      /\ \A k \in Loops, g \in FunctorSet : Has(Functors(k)', g) <=> Has(Functors(k), g) /\ ~(k = l /\ g = Est(c))
      /\ \A d \in Conns : d # c => \A k \in Loops : Kept(Functors(k), Functors(k)', d)
  BY <1>1, <1>2, TakeInv
<1>4. l = io_loop[c] /\ state_[c] = "kConnecting"
  BY <1>1, <1>3 DEF Placed
<1>5. ups[c] = 0 /\ downs[c] = 0 /\ destroys[c] = 0 /\ io_loop[c] # BaseLoop
  BY <1>1, <1>4 DEF Stage
<1>6. /\ state_'[c] = "kConnected" /\ ups'[c] = 1 /\ \A d \in Conns : d # c => state_'[d] = state_[d] /\
           ups'[d] = ups[d]
      /\ state_' \in [Conns -> {"none", "kConnecting", "kConnected", "kDisconnected"}] /\ DOMAIN ups' = Conns
  <2>1. 0 + 1 = 1
    BY SMTT(30)
  <2> QED  BY <1>1, <1>5, <2>1 DEF ConnTypes, ConnectEstablished
<1>7. ConnTypes'
  BY <1>1, <1>6 DEF ConnTypes
<1>8. ASSUME NEW d \in Conns, d # c PROVE Placed(d)' /\ Stage(d)'
  BY <1>1, <1>3, <1>6, <1>8, OthersUntouched
<1>9. Placed(c)'
  <2>1. \A k \in Loops : Has(Functors(k)', Des(c)) => Has(Functors(k), Des(c))
    BY <1>2, <1>3
  <2>2. \A k \in Loops : ~Has(Functors(k)', Rem(c))
    BY <1>1, <1>2, <1>3, <1>4 DEF Placed
  <2>3. \A k \in Loops : ~Has(Functors(k)', Est(c))
    BY <1>1, <1>2, <1>3, <1>4 DEF Placed
  <2> QED  BY <1>1, <1>6, <2>1, <2>2, <2>3 DEF Placed
<1>10. Stage(c)'
  BY <1>1, <1>4, <1>5, <1>6 DEF Stage
<1> QED  BY <1>3, <1>4, <1>6, <1>7, <1>8, <1>9, <1>10 DEF QueueInv, ConnsInv

\* The functor ConnectDestroyed() finds its connection established, in its own loop.
LEMMA RunDestroyed ==
  ASSUME IInv, NEW l \in Loops, batch[l] # <<>>, batch' = [batch EXCEPT ![l] = Tail(@)], pending' = pending,
         NEW c \in Conns, Head(batch[l]) = Des(c), ConnectDestroyed(c),
         UNCHANGED <<connections_, ups, server, io_loop>>
  PROVE  /\ QueueInv' /\ io_loop[c] = l /\ state_[c] # "none" /\ state_'[c] = "kDisconnected"
         /\ \A d \in Conns : d # c => state_'[d] = state_[d]
<1>1. Placed(c) /\ Stage(c) /\ ConnTypes /\ QueueTypes /\ OnceInv /\ ConnsInv
  BY DEF IInv, QueueInv, ConnsInv
<1>2. /\ Est(c) \in FunctorSet /\ Des(c) \in FunctorSet /\ Rem(c) \in FunctorSet /\ Des(c).conn = c
      /\ Est(c) # Des(c) /\ Des(c) # Rem(c)
  BY Three
<1>3. /\ QueueTypes' /\ OnceInv' /\ Has(Functors(l), Des(c))
      /\ \A k \in Loops, g \in FunctorSet : Has(Functors(k)', g) <=> Has(Functors(k), g) /\ ~(k = l /\ g = Des(c))
      /\ \A d \in Conns : d # c => \A k \in Loops : Kept(Functors(k), Functors(k)', d)
      /\ ~Precedes(Functors(l), Est(c), Des(c))
  BY <1>1, <1>2, TakeInv
<1>4. l = io_loop[c] /\ c \notin connections_ /\ destroys[c] = 0 /\ state_[c] # "none"
  BY <1>1, <1>3 DEF Placed
<1>5. state_[c] \in {"kConnected", "kDisconnected"}
  <2>1. state_[c] \in {"none", "kConnecting", "kConnected", "kDisconnected"}
    BY <1>1 DEF ConnTypes
  <2>2. state_[c] # "kConnecting"
    BY <1>1, <1>3, <1>4 DEF Stage
  <2> QED  BY <1>4, <2>1, <2>2
<1>6. /\ state_' \in [Conns -> {"none", "kConnecting", "kConnected", "kDisconnected"}]
      /\ DOMAIN downs' = Conns /\ DOMAIN destroys' = Conns
      /\ state_'[c] = "kDisconnected" /\ downs'[c] = 1 /\ destroys'[c] = 1 /\ ups[c] = 1
      /\ \A d \in Conns : d # c => state_'[d] = state_[d] /\ downs'[d] = downs[d] /\ destroys'[d] = destroys[d]
  BY <1>1, <1>4, <1>5, Destroyed
<1>7. ConnTypes'
  BY <1>1, <1>6 DEF ConnTypes
<1>8. ASSUME NEW d \in Conns, d # c PROVE Placed(d)' /\ Stage(d)'
  BY <1>1, <1>3, <1>6, <1>8, OthersUntouched
<1>9. Placed(c)'
  <2>1. \A k \in Loops : ~Has(Functors(k)', Est(c))
    BY <1>1, <1>2, <1>3, <1>5 DEF Placed
  <2>2. \A k \in Loops : ~Has(Functors(k)', Des(c))
    BY <1>1, <1>2, <1>3, <1>4 DEF Placed
  <2>3. \A k \in Loops : Has(Functors(k)', Rem(c)) => Has(Functors(k), Rem(c))
    BY <1>2, <1>3
  <2> QED  BY <1>1, <1>6, <2>1, <2>2, <2>3 DEF Placed
<1>10. Stage(c)'
  BY <1>4, <1>6 DEF Stage
<1> QED  BY <1>3, <1>4, <1>6, <1>7, <1>8, <1>9, <1>10 DEF QueueInv, ConnsInv

\* The functor RemoveConnectionInLoop() of a running server finds the connection in the
\* map, and queues the ConnectDestroyed() that was nowhere.
LEMMA RunRemoval ==
  ASSUME IInv, NEW l \in Loops, batch[l] # <<>>, batch' = [batch EXCEPT ![l] = Tail(@)],
         NEW c \in Conns, Head(batch[l]) = Rem(c), server = "started", NEW m \in Loops, m = io_loop[c],
         connections_' = connections_ \ {c}, pending' = QueueInLoop(pending, m, Des(c)),
         UNCHANGED <<state_, ups, downs, destroys, server, io_loop>>
  PROVE  QueueInv'
<1>1. Placed(c) /\ Stage(c) /\ ConnTypes /\ QueueTypes /\ OnceInv /\ ConnsInv
  BY DEF IInv, QueueInv, ConnsInv
<1>2. /\ Est(c) \in FunctorSet /\ Des(c) \in FunctorSet /\ Rem(c) \in FunctorSet /\ Rem(c).conn = c /\ Des(c).conn = c
      /\ Est(c) # Des(c) /\ Des(c) # Rem(c) /\ Est(c) # Rem(c)
  BY Three
<1> DEFINE q == Functors(l)
           p == Functors(m)
<1>3. /\ q \in Seq(FunctorSet) /\ q # <<>> /\ Head(q) = Rem(c) /\ p \in Seq(FunctorSet)
  <2>1. batch[l] \o pending[l] # <<>> /\ Head(batch[l] \o pending[l]) = Head(batch[l])
    BY <1>1, FunctorsTyped, Joined
  <2> QED  BY <1>1, <2>1, FunctorsTyped DEF Functors
<1>4. Has(q, Rem(c))
  BY <1>3, Taken
<1>5. l = BaseLoop /\ m # BaseLoop /\ state_[c] = "kDisconnected" /\ c \in connections_
  BY <1>1, <1>4 DEF Placed
<1>6. ups[c] = 1 /\ downs[c] = 1 /\ destroys[c] = 0
  BY <1>1, <1>5 DEF Stage
<1>7. \A k \in Loops : ~Has(Functors(k), Est(c)) /\ ~Has(Functors(k), Des(c)) /\ (Has(Functors(k), Rem(c)) => k = l)
  BY <1>1, <1>5 DEF Placed
<1>8. /\ QueueTypes' /\ Functors(l)' = Tail(q) /\ Functors(m)' = Append(p, Des(c))
      /\ \A k \in Loops : k # l /\ k # m => Functors(k)' = Functors(k)
  BY <1>1, <1>2, <1>5, TakePut
<1>9. ASSUME NEW g \in FunctorSet PROVE Once(Tail(q), g) /\ Once(Append(p, Des(c)), g)
  <2>1. Once(q, g) /\ Once(p, g) /\ (Des(c) = g => ~Has(p, g))
    BY <1>1, <1>7 DEF OnceInv
  <2>2. Once(Tail(q), g)
    BY <1>3, <2>1, Taken
  <2>3. Once(Append(p, Des(c)), g)
    BY <1>2, <1>3, <2>1, Appended
  <2> QED  BY <2>2, <2>3
<1>10. OnceInv'
  BY <1>1, <1>8, <1>9 DEF OnceInv
<1>11. ConnTypes'
  BY <1>1 DEF ConnTypes
<1>12. ASSUME NEW d \in Conns, d # c PROVE Placed(d)' /\ Stage(d)'
  <2>1. Kept(q, Tail(q), d)
    BY <1>2, <1>3, <1>12, KeptTail
  <2>2. Kept(p, Append(p, Des(c)), d)
    BY <1>2, <1>3, <1>12, KeptAppend
  <2>3. \A k \in Loops : Kept(Functors(k), Functors(k)', d)
    BY <1>8, <2>1, <2>2, KeptSame
  <2>4. d \in connections_' <=> d \in connections_
    BY <1>12
  <2> QED  BY <1>1, <1>12, <2>3, <2>4, OthersUntouched
<1>13. /\ ~Has(Tail(q), Rem(c)) /\ ~Has(Tail(q), Est(c)) /\ ~Has(Tail(q), Des(c))
       /\ ~Has(Append(p, Des(c)), Rem(c)) /\ ~Has(Append(p, Des(c)), Est(c))
  <2>1. Once(q, Rem(c))
    BY <1>1, <1>2 DEF OnceInv
  <2>2. ~Has(q, Est(c)) /\ ~Has(q, Des(c)) /\ ~Has(p, Est(c)) /\ ~Has(p, Rem(c))
    BY <1>5, <1>7
  <2>3. ~Has(Tail(q), Rem(c)) /\ ~Has(Tail(q), Est(c)) /\ ~Has(Tail(q), Des(c))
    BY <1>3, <2>1, <2>2, Taken
  <2>4. ~Has(Append(p, Des(c)), Rem(c)) /\ ~Has(Append(p, Des(c)), Est(c))
    BY <1>2, <1>3, <2>2, Appended
  <2> QED  BY <2>3, <2>4
<1>14. \A k \in Loops : ~Has(Functors(k)', Est(c)) /\ ~Has(Functors(k)', Rem(c)) /\ (Has(Functors(k)',
       Des(c)) => k = m)
  BY <1>7, <1>8, <1>13
<1>15. Placed(c)'
  BY <1>5, <1>6, <1>14 DEF Placed
<1>16. Stage(c)'
  BY <1>5, <1>6 DEF Stage
<1> QED  BY <1>8, <1>10, <1>11, <1>12, <1>15, <1>16 DEF QueueInv, ConnsInv

\* RemoveConnectionInLoop() of a server whose destructor has begun.
LEMMA RunLateRemoval ==
  ASSUME IInv, NEW l \in Loops, batch[l] # <<>>, batch' = [batch EXCEPT ![l] = Tail(@)], pending' = pending,
         NEW c \in Conns, Head(batch[l]) = Rem(c), Free(l), server # "started",
         UNCHANGED <<connections_, state_, ups, downs, destroys, server, io_loop>>
  PROVE  QueueInv'
<1>1. Placed(c) /\ Stage(c) /\ ConnTypes /\ QueueTypes /\ OnceInv /\ ConnsInv
  BY DEF IInv, QueueInv, ConnsInv
<1>2. /\ Est(c) \in FunctorSet /\ Des(c) \in FunctorSet /\ Rem(c) \in FunctorSet /\ Rem(c).conn = c
      /\ Des(c) # Rem(c) /\ Est(c) # Rem(c)
  BY Three
<1>3. /\ QueueTypes' /\ OnceInv' /\ Has(Functors(l), Rem(c))
      /\ \A k \in Loops, g \in FunctorSet : Has(Functors(k)', g) <=> Has(Functors(k), g) /\ ~(k = l /\ g = Rem(c))
      /\ \A d \in Conns : d # c => \A k \in Loops : Kept(Functors(k), Functors(k)', d)
  BY <1>1, <1>2, TakeInv
<1>4. l = BaseLoop /\ state_[c] = "kDisconnected"
  BY <1>1, <1>3 DEF Placed
<1>5. connections_ = {}
  <2>1. base.what = "none"
    BY <1>4, BaseFacts DEF Free
  <2>2. server \in {"new", "gone"}
    BY <2>1 DEF IInv, ThreadInv, BaseInv, Destructing
  <2> QED  BY <2>2 DEF IInv, ThreadInv, BaseInv, Torn
<1>6. ConnTypes'
  BY <1>1 DEF ConnTypes
<1>7. ASSUME NEW d \in Conns, d # c PROVE Placed(d)' /\ Stage(d)'
  BY <1>1, <1>3, <1>7, OthersUntouched
<1>8. Placed(c)'
  <2>1. \A k \in Loops : (Has(Functors(k)', Est(c)) => Has(Functors(k), Est(c))) /\ (Has(Functors(k)',
        Des(c)) => Has(Functors(k), Des(c)))
    BY <1>2, <1>3
  <2>2. \A k \in Loops : Has(Functors(k)', Rem(c)) => Has(Functors(k), Rem(c))
    BY <1>2, <1>3
  <2> QED  BY <1>1, <2>1, <2>2 DEF Placed
<1>9. Stage(c)'
  BY <1>1, <1>4, <1>5 DEF Stage
<1> QED  BY <1>3, <1>6, <1>7, <1>8, <1>9 DEF QueueInv, ConnsInv

\* A loop calls a functor.
LEMMA RunFunctorKeeps ==
  ASSUME IInv, NEW l \in Loops, RunFunctor(l)
  PROVE  IInv'
<1>1. /\ UNCHANGED <<active, at, quit_, loops_, next_, base, server, backlog, came, listenning_, io_loop>>
      /\ Free(l) /\ at[l] = "functors" /\ batch[l] # <<>> /\ batch' = [batch EXCEPT ![l] = Tail(@)]
  BY DEF RunFunctor, threads, pool, acceptor, world
<1>2. \A k \in Loops : k # l => batch'[k] = batch[k]
  BY <1>1 DEF IInv, QueueInv, QueueTypes
<1>3. PICK f \in FunctorSet : f = Head(batch[l])
  BY <1>1, FunctorsTyped, Taken DEF IInv, QueueInv
<1>4. f.op \in Ops /\ f.conn \in Conns /\ f = Functor(f.op, f.conn)
  BY <1>3, FunctorFacts
<1>5. PICK c \in Conns : c = f.conn
  BY <1>4
<1>6. ASSUME f.op = "ConnectEstablished", ConnectEstablished(c), UNCHANGED <<pending, connections_, downs, destroys>>
      PROVE  IInv'
  <2>1. Head(batch[l]) = Est(c)
    BY <1>3, <1>4, <1>5, <1>6 DEF Est
  <2>2. QueueInv' /\ state_[c] = "kConnecting" /\ state_'[c] = "kConnected" /\ \A d \in Conns : d # c =>
          state_'[d] = state_[d]
    BY <1>1, <1>6, <2>1, RunEstablished
  <2>3. \A d \in Conns : (state_'[d] = "none" <=> state_[d] = "none") /\ (state_[d] = "kConnected" =>
          state_'[d] = "kConnected")
    BY <2>2
  <2>4. connections_' \subseteq connections_
    BY <1>6
  <2>5. ThreadInv'
    BY <1>1, <1>2, <2>3, <2>4, ConnStep
  <2> QED  BY <2>2, <2>5 DEF IInv
<1>7. ASSUME f.op = "ConnectDestroyed", ConnectDestroyed(c), UNCHANGED <<pending, connections_, ups>>
      PROVE  IInv'
  <2>1. Head(batch[l]) = Des(c)
    BY <1>3, <1>4, <1>5, <1>7 DEF Des
  <2>2. /\ QueueInv' /\ io_loop[c] = l /\ state_[c] # "none" /\ state_'[c] = "kDisconnected"
        /\ \A d \in Conns : d # c => state_'[d] = state_[d]
    BY <1>1, <1>7, <2>1, RunDestroyed
  <2>3. \A d \in Conns : state_'[d] = "none" <=> state_[d] = "none"
    BY <2>2
  <2>4. \A d \in Conns : state_[d] = "kConnected" /\ state_'[d] # "kConnected" => io_loop[d] = l
    BY <2>2
  <2>5. connections_' \subseteq connections_
    BY <1>7
  <2>6. ThreadInv'
    BY <1>1, <1>2, <2>3, <2>4, <2>5, ConnStep
  <2> QED  BY <2>2, <2>6 DEF IInv
<1>8. ASSUME f.op = "RemoveConnectionInLoop", server = "started", RemoveConnectionInLoop(pending, c),
             UNCHANGED <<state_, ups, downs, destroys>>
      PROVE  IInv'
  <2>1. Head(batch[l]) = Rem(c)
    BY <1>3, <1>4, <1>5, <1>8 DEF Rem
  <2>2. PICK m \in Loops : m = io_loop[c]
    BY DEF IInv, QueueInv, ConnTypes
  <2>3. connections_' = connections_ \ {c} /\ pending' = QueueInLoop(pending, m, Des(c))
    BY <1>8, <2>2 DEF RemoveConnectionInLoop, Des
  <2>4. QueueInv'
    BY <1>1, <1>8, <2>1, <2>2, <2>3, RunRemoval
  <2>5. connections_' \subseteq connections_
    BY <2>3
  <2>6. ThreadInv'
    BY <1>1, <1>2, <1>8, <2>5, ConnStep
  <2> QED  BY <2>4, <2>6 DEF IInv
<1>9. ASSUME f.op = "RemoveConnectionInLoop", server # "started", UNCHANGED <<pending, connections_, state_,
                                                                              ups, downs, destroys>>
      PROVE  IInv'
  <2>1. Head(batch[l]) = Rem(c)
    BY <1>3, <1>4, <1>5, <1>9 DEF Rem
  <2>2. QueueInv'
    BY <1>1, <1>9, <2>1, RunLateRemoval
  <2>3. connections_' \subseteq connections_
    BY <1>9
  <2>4. ThreadInv'
    BY <1>1, <1>2, <1>9, <2>3, ConnStep
  <2> QED  BY <2>2, <2>4 DEF IInv
<1> QED  BY <1>3, <1>5, <1>6, <1>7, <1>8, <1>9 DEF RunFunctor

\* The invariant holds of a new server.
LEMMA InitInv == Init => IInv
<1> SUFFICES ASSUME Init PROVE IInv
  OBVIOUS
<1>1. /\ pending = [l \in Loops |-> <<>>] /\ batch = [l \in Loops |-> <<>>] /\ active = [l \in Loops |-> {}]
      /\ quit_ = [l \in Loops |-> FALSE] /\ next_ = 1 /\ loops_ = <<>> /\ base = Idle
      /\ at = [l \in Loops |-> IF l = BaseLoop THEN "functors" ELSE "none"]
      /\ listenning_ = FALSE /\ backlog = <<>> /\ server = "new" /\ connections_ = {}
      /\ state_ = [c \in Conns |-> "none"] /\ io_loop = [c \in Conns |-> BaseLoop]
      /\ ups = [c \in Conns |-> 0] /\ downs = [c \in Conns |-> 0] /\ destroys = [c \in Conns |-> 0]
  BY DEF Init, LoopsInit, AcceptorInit
<1>2. /\ <<>> \in Seq(FunctorSet) /\ <<>> \in Seq(IoLoops) /\ <<>> \in Seq(Conns) /\ DOMAIN <<>> = {}
      /\ 1 \in Nat \ {0}
  BY SMTT(30)
<1>3. QueueTypes
  BY <1>1, <1>2 DEF QueueTypes
<1>4. \A l \in Loops : Functors(l) = <<>>
  <2>1. <<>> \o <<>> = <<>>
    BY <1>2, Joined
  <2> QED  BY <1>1, <2>1 DEF Functors
<1>5. \A f : Once(<<>>, f) /\ ~Has(<<>>, f)
  BY <1>2 DEF Once, Has
<1>6. OnceInv /\ ConnTypes
  BY <1>1, <1>4, <1>5, LoopFacts DEF OnceInv, ConnTypes
<1>7. ASSUME NEW c \in Conns PROVE Placed(c) /\ Stage(c)
  BY <1>1, <1>4, <1>5 DEF Placed, Stage
<1>8. LoopTypes
  BY <1>1, <1>2 DEF LoopTypes
<1>9. base.what = "none" /\ base = Idle
  BY <1>1, BaseFacts
<1>10. BaseInv
  BY <1>1, <1>9 DEF BaseInv, Destructing, Starting
<1>11. StartInv
  BY <1>1, <1>9, LoopFacts DEF StartInv
<1>12. LoopInv
  BY <1>1 DEF LoopInv
<1>13. ActiveInv
  BY <1>1 DEF ActiveInv
<1>14. AcceptInv
  BY <1>1, <1>2, <1>9 DEF AcceptInv
<1> QED  BY <1>3, <1>6, <1>7, <1>8, <1>10, <1>11, <1>12, <1>13, <1>14 DEF IInv, QueueInv, ThreadInv, ConnsInv

\* A loop, of the server or of the pool, takes a step.
LEMMA LoopStepKeeps ==
  ASSUME IInv, NEW l \in Loops, LoopStep(l)
  PROVE  IInv'
BY IterateKeeps, SwapFunctorsKeeps, HandleCloseKeeps, RunFunctorKeeps DEF LoopStep

\* Every step keeps the invariant.
LEMMA StepKeeps ==
  ASSUME IInv, [Next]_vars
  PROVE  IInv'
<1>1. CASE UNCHANGED vars
  <2>1. UNCHANGED <<pending, batch, active, conn, loops_, next_, base, server, connections_, state_, io_loop,
                    backlog, came,
                    listenning_, quit_, at>>
    BY <1>1 DEF vars, loops, queues, threads, pool, acceptor, conn, world
  <2>2. QueueInv'
    BY <2>1, QuietConns DEF IInv
  <2>3. LoopTypes' /\ BaseInv' /\ StartInv' /\ Torn' = Torn
    BY <2>1 DEF IInv, ThreadInv, LoopTypes, BaseInv, StartInv, Torn
  <2> QED  BY <2>1, <2>2, <2>3, BaseMoves DEF IInv
<1>2. CASE BaseStep
  <2>1. CASE LoopStep(BaseLoop)
    BY <2>1, LoopFacts, LoopStepKeeps
  <2>2. CASE HandleRead \/ AcceptSpare \/ OpenSpare \/ Listen \/ DestructConnection \/ DestructAcceptor
    BY <2>2, HandleReadKeeps, AcceptorKeeps, DestructConnectionKeeps, DestructAcceptorKeeps
  <2>3. ASSUME NEW i \in IoLoops, UNCHANGED Rest,
               StartLoop(i) \/ StartLoopReturns(i, Base("Listen", 0)) \/ Quit(i) \/ Wakeup(i) \/ Join(i,
               Base("~Acceptor", 0))
        PROVE  IInv'
    BY <2>3, StartLoopKeeps, StartLoopReturnsKeeps, PoolKeeps
  <2> QED  BY <1>2, <2>1, <2>2, <2>3 DEF BaseStep
<1>3. ASSUME NEW i \in IoLoops, ThreadStep(i) PROVE IInv'
  <2>1. i \in Loops
    BY LoopFacts
  <2> QED  BY <1>3, <2>1, LoopStepKeeps, PublishKeeps, EnterLoopKeeps, ThreadEndsKeeps DEF ThreadStep
<1>4. CASE Start \/ Destruct
  BY <1>4, StartKeeps, DestructKeeps
<1>5. CASE (\E n \in 0 .. MaxThreads : set_thread_num(n)) \/ OtherOpens \/ OtherCloses \/
             \E c \in Conns : PeerCloses(c)
  BY <1>5, OthersKeep
<1>6. ASSUME NEW c \in Conns, PeerConnects(c) PROVE IInv'
  BY <1>6, PeerConnectsKeeps
<1> QED  BY <1>1, <1>2, <1>3, <1>4, <1>5, <1>6 DEF Next

\* The inductive invariant holds throughout, for any number of threads in the pool, any
\* peers and any number of descriptors.
THEOREM Invariance == Spec => []IInv
BY InitInv, StepKeeps, PTL DEF Spec

------------------------------------------------------------------------------
(* What the invariant says of the functors in the queues. *)

\* Queued() is empty exactly when no loop has the functor.
LEMMA QueuedPlaces ==
  ASSUME QueueInv, NEW op \in Ops, NEW c \in Conns
  PROVE  /\ \A x \in Queued(op, c) : \E l \in Loops : \E i \in DOMAIN Functors(l) : x = <<l, i>> /\
              Functors(l)[i] = Functor(op, c)
         /\ Queued(op, c) # {} <=> \E l \in Loops : Has(Functors(l), Functor(op, c))
<1>1. ASSUME NEW x \in Queued(op, c)
      PROVE  \E l \in Loops : \E i \in DOMAIN Functors(l) : x = <<l, i>> /\ Functors(l)[i] = Functor(op, c)
  <2>1. PICK l \in Loops : x \in {l} \X {i \in DOMAIN Functors(l) : Functors(l)[i] = Functor(op, c)}
    BY DEF Queued
  <2> DEFINE D == {i \in DOMAIN Functors(l) : Functors(l)[i] = Functor(op, c)}
  <2>2. \E i \in D : x = <<l, i>>
    <3> HIDE DEF D
    <3>1. x \in {l} \X D
      BY <2>1 DEF D
    <3> QED  BY <3>1, SMTT(30)
  <2> QED  BY <2>2
<1>2. ASSUME NEW l \in Loops, NEW i \in DOMAIN Functors(l), Functors(l)[i] = Functor(op, c)
      PROVE  Queued(op, c) # {}
  <2> DEFINE D == {j \in DOMAIN Functors(l) : Functors(l)[j] = Functor(op, c)}
  <2>1. i \in D
    BY <1>2
  <2>2. <<l, i>> \in {l} \X D
    <3> HIDE DEF D
    <3> QED  BY <2>1, SMTT(30)
  <2>3. {l} \X D \subseteq Queued(op, c)
    BY DEF Queued
  <2> QED  BY <2>2, <2>3
<1> QED  BY <1>1, <1>2 DEF Has

\* A functor that only one loop can have is queued at most once.
LEMMA QueuedOnce ==
  ASSUME QueueInv, NEW op \in Ops, NEW c \in Conns, NEW k \in Loops, \A l \in Loops : Has(Functors(l),
         Functor(op, c)) => l = k
  PROVE  AtMostOne(Queued(op, c))
<1>1. SUFFICES ASSUME NEW x \in Queued(op, c), NEW y \in Queued(op, c) PROVE x = y
  BY DEF AtMostOne
<1>2. PICK l \in Loops : \E i \in DOMAIN Functors(l) : x = <<l, i>> /\ Functors(l)[i] = Functor(op, c)
  BY QueuedPlaces
<1>3. PICK i \in DOMAIN Functors(l) : x = <<l, i>> /\ Functors(l)[i] = Functor(op, c)
  BY <1>2
<1>4. PICK m \in Loops : \E j \in DOMAIN Functors(m) : y = <<m, j>> /\ Functors(m)[j] = Functor(op, c)
  BY QueuedPlaces
<1>5. PICK j \in DOMAIN Functors(m) : y = <<m, j>> /\ Functors(m)[j] = Functor(op, c)
  BY <1>4
<1>6. l = k /\ m = k
  BY <1>3, <1>5 DEF Has
<1>7. Once(Functors(k), Functor(op, c))
  BY FunctorFacts DEF QueueInv, OnceInv
<1>8. i = j
  BY <1>3, <1>5, <1>6, <1>7 DEF Once
<1> QED  BY <1>3, <1>5, <1>6, <1>8

\* While the server runs its map has every connection that is up or on its way up, and
\* RemoveConnectionInLoop() finds what it erases: a connection that HandleClose() has
\* reported down stays in the map until its one removal, whatever the loops do meanwhile.
THEOREM MapStaysComplete == Spec => []MapComplete
<1>1. IInv => MapComplete
  <2> SUFFICES ASSUME IInv, server = "started", NEW c \in Conns
               PROVE  /\ state_[c] \in {"kConnecting", "kConnected"} => c \in connections_
                      /\ c \in connections_ /\ state_[c] = "kDisconnected" => Queued("RemoveConnectionInLoop", c) # {}
                      /\ AtMostOne(Queued("RemoveConnectionInLoop", c))
                      /\ Queued("RemoveConnectionInLoop", c) # {} => c \in connections_
    BY DEF MapComplete
  <2>1. QueueInv /\ Placed(c) /\ Stage(c) /\ "RemoveConnectionInLoop" \in Ops /\ BaseLoop \in Loops
    BY LoopFacts DEF IInv, QueueInv, ConnsInv, Ops
  <2>2. state_[c] \in {"kConnecting", "kConnected"} => c \in connections_
    BY <2>1 DEF Stage
  <2>3. c \in connections_ /\ state_[c] = "kDisconnected" => Has(Functors(BaseLoop), Rem(c))
    BY <2>1 DEF Stage
  <2>4. \A l \in Loops : Has(Functors(l), Rem(c)) => l = BaseLoop /\ c \in connections_
    BY <2>1 DEF Placed
  <2>5. Queued("RemoveConnectionInLoop", c) # {} <=> \E l \in Loops : Has(Functors(l), Rem(c))
    BY <2>1, QueuedPlaces DEF Rem
  <2>6. AtMostOne(Queued("RemoveConnectionInLoop", c))
    BY <2>1, <2>4, QueuedOnce DEF Rem
  <2> QED  BY <2>1, <2>2, <2>3, <2>4, <2>5, <2>6
<1> QED  BY Invariance, <1>1, PTL

\* ConnectDestroyed() is called at most once per connection, whether RemoveConnectionInLoop()
\* or ~TcpServer() asked for it, and the user hears of each connection up and then down,
\* each at most once, and down before it is destroyed.
THEOREM DestroyedAtMostOnce == Spec => []DestroyedOnce
<1>1. IInv => DestroyedOnce
  <2> SUFFICES ASSUME IInv, NEW c \in Conns
               PROVE  /\ destroys[c] <= 1 /\ AtMostOne(Queued("ConnectDestroyed", c))
                      /\ destroys[c] = 1 => Queued("ConnectDestroyed", c) = {}
                      /\ downs[c] <= ups[c] /\ ups[c] <= 1
                      /\ destroys[c] = 1 => downs[c] = 1
    BY DEF DestroyedOnce
  <2>1. QueueInv /\ Placed(c) /\ Stage(c) /\ "ConnectDestroyed" \in Ops
    BY DEF IInv, QueueInv, ConnsInv, Ops
  <2>2. io_loop[c] \in Loops /\ state_[c] \in {"none", "kConnecting", "kConnected", "kDisconnected"}
    BY <2>1 DEF QueueInv, ConnTypes
  <2>3. \A l \in Loops : Has(Functors(l), Des(c)) => l = io_loop[c] /\ destroys[c] = 0
    BY <2>1 DEF Placed
  <2>4. Queued("ConnectDestroyed", c) # {} <=> \E l \in Loops : Has(Functors(l), Des(c))
    BY <2>1, QueuedPlaces DEF Des
  <2>5. AtMostOne(Queued("ConnectDestroyed", c))
    BY <2>1, <2>2, <2>3, QueuedOnce DEF Des
  <2>6. \/ ups[c] = 0 /\ downs[c] = 0 /\ destroys[c] = 0
        \/ ups[c] = 1 /\ downs[c] = 0 /\ destroys[c] = 0
        \/ ups[c] = 1 /\ downs[c] = 1 /\ destroys[c] \in {0, 1}
    BY <2>1, <2>2 DEF Stage
  <2>7. destroys[c] <= 1 /\ downs[c] <= ups[c] /\ ups[c] <= 1 /\ (destroys[c] = 1 => downs[c] = 1)
    BY <2>6, SMTT(30)
  <2>8. 0 # 1
    BY SMTT(30)
  <2> QED  BY <2>3, <2>4, <2>5, <2>7, <2>8
<1> QED  BY Invariance, <1>1, PTL
=============================================================================
