------------------------- MODULE TcpConnectionProofs -------------------------
(***************************************************************************)
(* What TcpConnection.tla says of a connection, for any threads, methods   *)
(* they call, sizes of messages and high water mark.                       *)
(*                                                                         *)
(* The control invariant ties state_, the channel, the functors, the owner *)
(* and the reports to each other; it says less once another thread has put *)
(* kDisconnecting over kDisconnected.  The data invariant says where the   *)
(* bytes of each caller are on their way from Send() to the kernel: in the *)
(* stream (the kernel's and then output_buffer_), in order, then in the    *)
(* queued SendInLoop() functors, in order and without a gap.               *)
(***************************************************************************)
EXTENDS TcpConnection, SequenceTheorems, TLAPS

\* Zenon proves the leaves that do not name a prover.
USE ZenonT(30)

------------------------------------------------------------------------------
(* The invariant. *)

ByteSet == Callers \X Int
Ops == {"ConnectEstablished", "ConnectDestroyed", "SendInLoop", "ShutdownInLoop", "ForceCloseInLoop", "Notify"}
FunctorSet == [op : Ops, bytes : Seq(ByteSet)]
CallStates == {<<"none", "none">>, <<"Send", "queue">>} \cup ({"Shutdown", "ForceClose"} \X {"set_state", "queue"})

\* A functor op is in the queue q; exactly one is.
HasOp(q, op) == \E i \in DOMAIN q : q[i].op = op
OnceOp(q, op) == \E i \in DOMAIN q : q[i].op = op /\ \A j \in DOMAIN q : q[j].op = op => j = i

Closing == state_ \in {"kDisconnecting", "kDisconnected"}

\* The values the proofs need of the variables.
TypeInv ==
  /\ state_ \in {"kConnecting", "kConnected", "kDisconnecting", "kDisconnected"}
  /\ pending \in Seq(FunctorSet)
  /\ call \in [Threads -> CallStates]
  /\ ups \in {0, 1} /\ downs \in Nat /\ destroys \in Nat /\ removals \in Nat
DataTypes == output_buffer_ \in Seq(ByteSet) /\ wire \in Seq(ByteSet) /\ sent \in [Callers -> Nat]

\* Before ConnectEstablished() nothing happens but ~TcpServer(); afterwards no
\* other one is queued.
NewInv ==
  /\ ups = 0 =>
       /\ state_ = "kConnecting" /\ events = {} /\ ~registered /\ revents = {}
       /\ output_buffer_ = <<>> /\ wire = <<>> /\ ~fin /\ sent = [c \in Callers |-> 0]
       /\ downs = 0 /\ destroys = 0 /\ removals = 0 /\ ~overwritten
       /\ holders \subseteq {"owner"} /\ delayed = "no"
       /\ IF "owner" \in holders THEN owner_exists /\ pending = <<Functor("ConnectEstablished")>>
          ELSE ~owner_exists /\ pending = <<Functor("ConnectEstablished"), Functor("ConnectDestroyed")>>
  /\ ups = 1 => state_ # "kConnecting" /\ ~HasOp(pending, "ConnectEstablished")

\* A thread in a call holds the connection; shutting down comes after state_
\* has left kConnected.
CallInv ==
  /\ \A t \in Threads : call[t][1] # "none" => t \in holders
  /\ \A t \in Threads : call[t][1] \in {"Shutdown", "ForceClose"} /\ call[t][2] = "queue" => Closing
  /\ HasOp(pending, "ShutdownInLoop") \/ fin => Closing

\* A hangup or input still to be handled: no handler has called the user yet.
EventInv ==
  /\ "hup" \in revents \/ "in" \in revents => ~in_callback
  /\ ~("hup" \in revents /\ "in" \in revents)

\* Reported down, kDisconnected and a channel that watches nothing are one.
DownInv ==
  /\ removals > 0 \/ state_ = "kDisconnected" => downs > 0
  /\ ~overwritten =>
       /\ downs \in {0, 1} /\ (downs = 1 <=> state_ = "kDisconnected")
       /\ state_ = "kDisconnected" => events = {}
       /\ ups = 1 /\ state_ # "kDisconnected" => "read" \in events
       /\ "hup" \in revents \/ "in" \in revents => state_ # "kDisconnected"

\* Until the owner lets go no ConnectDestroyed() is queued; afterwards exactly one
\* is, or it has run.
Owned ==
  /\ "owner" \in holders =>
       owner_exists /\ destroys = 0 /\ ~HasOp(pending, "ConnectDestroyed") /\ removals = downs
  /\ "owner" \notin holders =>
       /\ removals = 0
       /\ \/ destroys = 0 /\ OnceOp(pending, "ConnectDestroyed")
          \/ destroys = 1 /\ ~HasOp(pending, "ConnectDestroyed") /\ (owner_exists => ~registered)
       /\ owner_exists => downs = 1
OwnerInv == ~overwritten => Owned

Ctl == TypeInv /\ NewInv /\ CallInv /\ EventInv /\ DownInv /\ OwnerInv

\* What the kernel took and then what it is still to take.
Stream == wire \o output_buffer_

\* m is the message of c that comes after its first n bytes.
IsMessage(m, c, n) == DOMAIN m = 1 .. MessageSize /\ \A k \in 1 .. MessageSize : m[k] = <<c, n + k>>

\* A queued message of c, and the bytes that c passed to Send() before it.
IsSend(f, c) == f.op = "SendInLoop" /\ f.bytes[1][1] = c
Before(f) == f.bytes[1][2] - 1

\* The queued messages are messages of other threads than the loop's.
Messages(q) ==
  \A i \in DOMAIN q :
    q[i].op = "SendInLoop" => \E t \in Threads, n \in Int : IsMessage(q[i].bytes, t, n)

\* The bytes of c that are queued or have been: those of a Send() that has only
\* tested state_ are not.
Passed(c) == IF c \in Threads /\ call[c][1] = "Send" THEN sent[c] - MessageSize ELSE sent[c]

\* The messages of c in q are, in order, its bytes after the b-th up to the e-th.
Follows(q, c, b, e) ==
  /\ b <= e
  /\ \A i \in DOMAIN q : IsSend(q[i], c) => b <= Before(q[i]) /\ Before(q[i]) + MessageSize <= e
  /\ \A i, j \in DOMAIN q :
       i < j /\ IsSend(q[i], c) /\ IsSend(q[j], c) => Before(q[i]) + MessageSize <= Before(q[j])
  /\ \A n \in Int : b < n /\ n <= e =>
       \E i \in DOMAIN q : IsSend(q[i], c) /\ Before(q[i]) < n /\ n <= Before(q[i]) + MessageSize

\* A direct write() fails: SendInLoop() drops what it is given.
Refused == MayWriteDirectly /\ WriteFails

InOrder(s) == \A i \in 1 .. Len(s) : NumbersOf(s[i][1], s, i - 1) = 1 .. (s[i][2] - 1)

\* s holds the first n bytes of c and no other byte of c.
HasUpTo(c, s, n) == NumbersOf(c, s, Len(s)) = 1 .. n

\* The stream is in order, and the messages in the queue go on where it ends.
DataInv ==
  downs = 0 =>
    /\ InOrder(Stream)
    /\ ~Refused /\ Alive =>
         \A c \in Callers : \E b \in Nat : HasUpTo(c, Stream, b) /\ Follows(pending, c, b, Passed(c))

\* What the loop's thread sends is in the stream at once; ShutdownWrite() comes
\* when the stream is all written.
LoopDataInv ==
  ~overwritten /\ state_ # "kDisconnected" =>
    /\ peer \in {"open", "closed"} => HasUpTo(LoopThread, Stream, sent[LoopThread])
    /\ fin => output_buffer_ = <<>> /\ ~IsWriting

Data == DataTypes /\ Messages(pending) /\ WritingIffOutput /\ DataInv /\ LoopDataInv

IInv == Ctl /\ Data

\* Steps that leave the queued messages, the Send() calls under way and a
\* connection that is gone as they are.
QuietQueue ==
  \/ pending' = pending
  \/ pending # <<>> /\ Head(pending).op # "SendInLoop" /\ pending' = Tail(pending)
  \/ \E f \in FunctorSet : f.op # "SendInLoop" /\ pending' = Append(pending, f)
KeepsSending == \A t \in Threads : call'[t][1] = "Send" <=> call[t][1] = "Send"
StaysDead == downs' = 0 => downs = 0 /\ (Alive' => Alive)

------------------------------------------------------------------------------
(* Functors, calls and numbers. *)

\* The arithmetic on 0 and 1 that the proofs need.
LEMMA Numbers == 0 # 1 /\ 0 + 1 = 1 /\ 1 - 1 = 0 /\ ~(0 > 0) /\ 1 > 0
BY SMTT(30)

\* Counting connection callbacks up and removals down stays in the naturals.
LEMMA Positive == ASSUME NEW n \in Nat PROVE n + 1 \in Nat /\ n + 1 > 0 /\ (n > 0 => n - 1 \in Nat)
BY SMTT(30)

\* What QueueInLoop() is given, messages apart, is a functor without bytes.
LEMMA FunctorTypes ==
  ASSUME NEW op \in Ops
  PROVE  Functor(op) \in FunctorSet /\ Functor(op).op = op /\ Functor(op).bytes = <<>>
BY SMTT(30) DEF Functor, FunctorSet

\* QueueInLoop() adds the functor it is given and no other.
LEMMA Appended ==
  ASSUME NEW q \in Seq(FunctorSet), NEW f \in FunctorSet, NEW op
  PROVE  /\ Append(q, f) \in Seq(FunctorSet) /\ Append(q, f) # <<>>
         /\ HasOp(Append(q, f), op) <=> HasOp(q, op) \/ f.op = op
         /\ OnceOp(q, op) /\ f.op # op => OnceOp(Append(q, f), op)
         /\ ~HasOp(q, op) /\ f.op = op => OnceOp(Append(q, f), op)
<1> DEFINE r == Append(q, f)
<1>1. /\ r \in Seq(FunctorSet) /\ r # <<>>
      /\ DOMAIN r = 1 .. (Len(q) + 1) /\ DOMAIN q = 1 .. Len(q) /\ Len(q) \in Nat
      /\ \A i \in 1 .. Len(q) : r[i] = q[i]
      /\ r[Len(q) + 1] = f
  BY SMTT(30)
<1> DEFINE n == Len(q) + 1
<1>2. DOMAIN r = DOMAIN q \cup {n} /\ n \notin DOMAIN q /\ r[n] = f /\ \A i \in DOMAIN q : r[i] = q[i]
  BY <1>1, SMTT(30)
<1> HIDE DEF r, n
<1>3. HasOp(r, op) <=> HasOp(q, op) \/ f.op = op
  BY <1>2 DEF HasOp
<1>4. OnceOp(q, op) /\ f.op # op => OnceOp(r, op)
  BY <1>2 DEF OnceOp
<1>5. ~HasOp(q, op) /\ f.op = op => OnceOp(r, op)
  BY <1>2 DEF OnceOp, HasOp
<1> QED  BY <1>1, <1>3, <1>4, <1>5 DEF r

\* Taking the first functor off the queue leaves the others.
LEMMA Taken ==
  ASSUME NEW q \in Seq(FunctorSet), q # <<>>, NEW op
  PROVE  /\ Tail(q) \in Seq(FunctorSet) /\ Head(q) \in FunctorSet
         /\ HasOp(q, op) <=> HasOp(Tail(q), op) \/ Head(q).op = op
         /\ OnceOp(q, op) /\ Head(q).op # op => OnceOp(Tail(q), op)
         /\ OnceOp(q, op) /\ Head(q).op = op => ~HasOp(Tail(q), op)
<1> DEFINE r == Tail(q)
<1>1. /\ r \in Seq(FunctorSet) /\ Head(q) = q[1] /\ Head(q) \in FunctorSet
      /\ 1 \in DOMAIN q
      /\ \A i \in DOMAIN r : i + 1 \in DOMAIN q /\ r[i] = q[i + 1] /\ i + 1 # 1 /\ (i + 1) - 1 = i
      /\ \A i \in DOMAIN q : i # 1 => i - 1 \in DOMAIN r /\ r[i - 1] = q[i] /\ (i - 1) + 1 = i
  BY SMTT(30)
<1> HIDE DEF r
<1>2. HasOp(q, op) <=> HasOp(r, op) \/ Head(q).op = op
  <2>1. ASSUME NEW i \in DOMAIN q, q[i].op = op, Head(q).op # op PROVE HasOp(r, op)
    <3>1. i - 1 \in DOMAIN r /\ r[i - 1].op = op
      BY <1>1, <2>1
    <3> QED  BY <3>1 DEF HasOp
  <2>2. ASSUME NEW i \in DOMAIN r, r[i].op = op PROVE HasOp(q, op)
    <3>1. i + 1 \in DOMAIN q /\ q[i + 1].op = op
      BY <1>1, <2>2
    <3> QED  BY <3>1 DEF HasOp
  <2>3. Head(q).op = op => HasOp(q, op)
    BY <1>1 DEF HasOp
  <2> QED  BY <2>1, <2>2, <2>3 DEF HasOp
<1>3. ASSUME OnceOp(q, op), Head(q).op = op, NEW i \in DOMAIN r, r[i].op = op PROVE FALSE
  <2>1. i + 1 \in DOMAIN q /\ q[i + 1].op = op /\ i + 1 # 1 /\ q[1].op = op
    BY <1>1, <1>3
  <2> QED  BY <1>1, <1>3, <2>1 DEF OnceOp
<1>4. ASSUME OnceOp(q, op), Head(q).op # op PROVE OnceOp(r, op)
  <2>1. PICK i \in DOMAIN q : q[i].op = op /\ \A j \in DOMAIN q : q[j].op = op => j = i
    BY <1>4 DEF OnceOp
  <2>2. i # 1
    BY <1>1, <1>4, <2>1
  <2>3. i - 1 \in DOMAIN r /\ r[i - 1].op = op
    BY <1>1, <2>1, <2>2
  <2>4. ASSUME NEW j \in DOMAIN r, r[j].op = op PROVE j = i - 1
    BY <1>1, <2>1, <2>4
  <2> QED  BY <2>3, <2>4 DEF OnceOp
<1> QED  BY <1>1, <1>2, <1>3, <1>4 DEF r, HasOp

\* The connection lives as long as a holder, HandleEvent()'s guard or a functor bound
\* to shared_from_this() keeps it.
LEMMA AliveOps ==
  ASSUME pending \in Seq(FunctorSet)
  PROVE  Alive <=> holders # {} \/ revents # {} \/ \E op \in SharedFunctors : HasOp(pending, op)
<1>1. DOMAIN pending = 1 .. Len(pending)
  BY SMTT(30)
<1> QED  BY <1>1 DEF Alive, HasOp

\* The two components of a call in progress.
LEMMA Pairs ==
  /\ <<"none", "none">>[1] = "none" /\ <<"none", "none">>[2] = "none" /\ <<"none", "none">> \in CallStates
  /\ <<"Send", "queue">>[1] = "Send" /\ <<"Send", "queue">>[2] = "queue" /\ <<"Send", "queue">> \in CallStates
  /\ \A m \in {"Shutdown", "ForceClose"}, s \in {"set_state", "queue"} :
       <<m, s>>[1] = m /\ <<m, s>>[2] = s /\ <<m, s>> \in CallStates
  /\ \A v \in CallStates :
       \/ v = <<"none", "none">> /\ v[1] = "none" /\ v[2] = "none"
       \/ v = <<"Send", "queue">> /\ v[1] = "Send" /\ v[2] = "queue"
       \/ v[1] \in {"Shutdown", "ForceClose"} /\ v[2] \in {"set_state", "queue"} /\ v = <<v[1], v[2]>>
BY SMTT(30) DEF CallStates

\* A step of one thread's call leaves the other threads' calls alone.
LEMMA Calling ==
  ASSUME NEW c \in [Threads -> CallStates], NEW t \in Threads, NEW v \in CallStates, NEW d, d = [c EXCEPT ![t] = v]
  PROVE  d \in [Threads -> CallStates] /\ d[t] = v /\ \A u \in Threads : u # t => d[u] = c[u]
OBVIOUS

\* A functor queued after one other.
LEMMA TwoElements ==
  ASSUME NEW a \in FunctorSet, NEW b \in FunctorSet
  PROVE  Append(<<a>>, b) = <<a, b>>
<1>1. <<a>> \in Seq(FunctorSet) /\ <<a, b>> \in Seq(FunctorSet) /\ Append(<<a>>, b) \in Seq(FunctorSet)
  BY SMTT(30)
<1>2. Len(Append(<<a>>, b)) = 2 /\ Len(<<a, b>>) = 2
  BY SMTT(30)
<1>3. Append(<<a>>, b)[1] = a /\ Append(<<a>>, b)[2] = b
  BY SMTT(30)
<1>4. \A i \in 1 .. 2 : Append(<<a>>, b)[i] = <<a, b>>[i]
  BY <1>3, SMTT(30)
<1> QED  BY <1>1, <1>2, <1>4, SeqEqual

\* A connection reported down stays reported down.
LEMMA NotZero == ASSUME NEW n \in Nat PROVE n + 1 # 0
BY SMTT(30)

------------------------------------------------------------------------------
(* The control invariant: what each step does to state_, the channel, the owner
   and the reports. *)

\* Whatever uses the connection comes after ConnectEstablished(): the functors that
\* follow it, the handlers of the channel, the user's code, the other threads, the
\* timer of ForceCloseWithDelay() and the owner's RemoveConnection().
LEMMA Established ==
  ASSUME Ctl
  PROVE  /\ \A op \in Ops : Runs(op) /\ op # "ConnectEstablished" => ups = 1
         /\ UserCode \/ registered \/ revents # {} \/ delayed = "set" \/ removals > 0 => ups = 1
         /\ \A t \in Threads : t \in holders \/ call[t][1] # "none" => ups = 1
         /\ Runs("ConnectEstablished") => ups = 0
<1>1. ups = 0 \/ ups = 1
  BY DEF Ctl, TypeInv
<1>2. ASSUME ups = 0 PROVE Head(pending) = Functor("ConnectEstablished")
  BY <1>2, SMTT(30) DEF Ctl, NewInv
<1>3. ASSUME NEW op \in Ops, Runs(op), op # "ConnectEstablished", ups = 0 PROVE FALSE
  BY <1>2, <1>3, FunctorTypes DEF Runs, Ops
<1>4. UserCode \/ registered \/ revents # {} \/ delayed = "set" \/ removals > 0 => ups = 1
  BY <1>1, Numbers DEF Ctl, NewInv, UserCode
<1>5. \A t \in Threads : t \in holders \/ call[t][1] # "none" => ups = 1
  BY <1>1, CallersAssumption DEF Ctl, NewInv, CallInv
<1>6. ASSUME Runs("ConnectEstablished"), ups = 1 PROVE FALSE
  <2>1. HasOp(pending, "ConnectEstablished")
    BY <1>6, Taken DEF Runs, Ctl, TypeInv
  <2> QED  BY <1>6, <2>1 DEF Ctl, NewInv
<1> QED  BY <1>1, <1>3, <1>4, <1>5, <1>6

\* ConnectEstablished() runs once, first, and on a new connection.
LEMMA ConnectEstablishedCtl ==
  ASSUME Ctl, ConnectEstablished
  PROVE  Ctl'
<1>1. /\ UNCHANGED <<revents, in_callback, call, owner_exists, removals, delayed, fin, downs, destroys, overwritten>>
      /\ Runs("ConnectEstablished") /\ pending' = Tail(pending) /\ state_' = "kConnected" /\ events' = {"read"}
      /\ ups' = ups + 1 /\ holders' = holders \cup Threads
  BY DEF ConnectEstablished, socket
<1>2. ups = 0 /\ ups' = 1
  BY <1>1, Established, Numbers
<1>3. /\ state_ = "kConnecting" /\ revents = {} /\ ~fin /\ downs = 0 /\ destroys = 0 /\ removals = 0
      /\ ~overwritten
      /\ IF "owner" \in holders THEN owner_exists /\ pending = <<Functor("ConnectEstablished")>>
         ELSE ~owner_exists /\ pending = <<Functor("ConnectEstablished"), Functor("ConnectDestroyed")>>
  BY <1>2 DEF Ctl, NewInv
<1>4. IF "owner" \in holders THEN pending' = <<>> ELSE pending' = <<Functor("ConnectDestroyed")>>
  <2>1. \A a, b : Tail(<<a>>) = <<>> /\ Tail(<<a, b>>) = <<b>>
    BY SMTT(30)
  <2> QED  BY <1>1, <1>3, <2>1
<1>6. pending' \in Seq(FunctorSet) /\ pending # <<>>
  BY <1>1, Taken DEF Ctl, TypeInv, Runs
<1>7. \A op : pending' = <<>> => ~HasOp(pending', op)
  BY SMTT(30) DEF HasOp
<1>8. ASSUME pending' = <<Functor("ConnectDestroyed")>>
      PROVE  OnceOp(pending', "ConnectDestroyed") /\ \A op \in Ops : op # "ConnectDestroyed" => ~HasOp(pending', op)
  <2>1. DOMAIN pending' = {1} /\ pending'[1] = Functor("ConnectDestroyed")
    BY <1>8, SMTT(30)
  <2> QED  BY <2>1, FunctorTypes DEF OnceOp, HasOp, Ops
<1>9. "owner" \in holders' <=> "owner" \in holders
  BY <1>1, CallersAssumption
<1>10. TypeInv'
  BY <1>1, <1>2, <1>6 DEF Ctl, TypeInv
<1>11. NewInv'
  BY <1>1, <1>2, <1>4, <1>7, <1>8, Numbers DEF NewInv, Ops
<1>12. CallInv'
  BY <1>1, <1>3, <1>4, <1>7, <1>8 DEF Ctl, CallInv, Ops, Closing
<1>13. EventInv'
  BY <1>1 DEF Ctl, EventInv
<1>14. DownInv'
  BY <1>1, <1>3, Numbers DEF DownInv
<1>15. OwnerInv'
  BY <1>1, <1>3, <1>4, <1>7, <1>8, <1>9, Numbers DEF OwnerInv, Owned
<1> QED  BY <1>10, <1>11, <1>12, <1>13, <1>14, <1>15 DEF Ctl

\* The functors of the callbacks, and ShutdownInLoop(), which leave state_ alone.
LEMMA NotifyCtl ==
  ASSUME Ctl, Notify \/ RunShutdownInLoop
  PROVE  Ctl'
<1>1. /\ UNCHANGED <<state_, events, registered, revents, in_callback, call, holders, owner_exists, removals, delayed,
                     ups, downs, destroys, overwritten>>
      /\ pending' = Tail(pending) /\ pending # <<>> /\ Head(pending).op \in {"Notify", "ShutdownInLoop"}
      /\ (fin' => fin \/ Head(pending).op = "ShutdownInLoop")
  <2>1. CASE Notify
    BY <2>1 DEF Notify, channel, owner, socket, history, Runs
  <2>2. CASE RunShutdownInLoop
    BY <2>2 DEF RunShutdownInLoop, channel, owner, history, Runs
  <2> QED  BY <2>1, <2>2
<1>2. ups = 1
  BY Established DEF Notify, RunShutdownInLoop, Ops
<1>3. /\ pending' \in Seq(FunctorSet)
      /\ \A op : HasOp(pending', op) => HasOp(pending, op)
      /\ OnceOp(pending, "ConnectDestroyed") => OnceOp(pending', "ConnectDestroyed")
      /\ Head(pending).op = "ShutdownInLoop" => HasOp(pending, "ShutdownInLoop")
  BY <1>1, Taken DEF Ctl, TypeInv
<1>4. TypeInv' /\ NewInv'
  BY <1>1, <1>2, <1>3, Numbers DEF Ctl, TypeInv, NewInv
<1>5. CallInv'
  BY <1>1, <1>3 DEF Ctl, CallInv, Closing
<1>6. EventInv' /\ DownInv'
  BY <1>1 DEF Ctl, EventInv, DownInv
<1>7. OwnerInv'
  BY <1>1, <1>3 DEF Ctl, OwnerInv, Owned
<1> QED  BY <1>4, <1>5, <1>6, <1>7 DEF Ctl

\* What SendInLoop() does apart from the bytes: it watches for writability only on
\* a connection that is not kDisconnected.
LEMMA SendInLoopCtl ==
  ASSUME NEW bytes, NEW q, SendInLoop(bytes, q)
  PROVE  /\ pending' = q \/ pending' = Append(q, Functor("Notify"))
         /\ \/ UNCHANGED <<events, registered>>
            \/ state_ # "kDisconnected" /\ events' = events \cup {"write"} /\ registered'
BY DEF SendInLoop, AppendOutput

\* The functor SendInLoop().
LEMMA RunSendInLoopCtl ==
  ASSUME Ctl, RunSendInLoop
  PROVE  Ctl'
<1>1. /\ UNCHANGED <<state_, revents, in_callback, call, holders, owner_exists, removals, delayed, fin,
                     ups, downs, destroys, overwritten>>
      /\ pending # <<>> /\ Head(pending).op = "SendInLoop"
  BY DEF RunSendInLoop, owner, history, Runs
<1>2. /\ pending' = Tail(pending) \/ pending' = Append(Tail(pending), Functor("Notify"))
      /\ \/ UNCHANGED <<events, registered>>
         \/ state_ # "kDisconnected" /\ events' = events \cup {"write"} /\ registered'
  BY SendInLoopCtl DEF RunSendInLoop
<1>3. ups = 1
  BY Established DEF RunSendInLoop, Ops
<1> DEFINE q == Tail(pending)
<1>4. /\ q \in Seq(FunctorSet)
      /\ \A op : HasOp(q, op) => HasOp(pending, op)
      /\ OnceOp(pending, "ConnectDestroyed") => OnceOp(q, "ConnectDestroyed")
  BY <1>1, Taken DEF Ctl, TypeInv
<1> HIDE DEF q
<1>5. /\ pending' \in Seq(FunctorSet)
      /\ \A op \in Ops : op # "Notify" /\ HasOp(pending', op) => HasOp(pending, op)
      /\ OnceOp(pending, "ConnectDestroyed") => OnceOp(pending', "ConnectDestroyed")
  <2>1. pending' = q \/ pending' = Append(q, Functor("Notify"))
    BY <1>2 DEF q
  <2>2. Functor("Notify") \in FunctorSet /\ Functor("Notify").op = "Notify"
    BY FunctorTypes DEF Ops
  <2>3. CASE pending' = q
    BY <1>4, <2>3
  <2>4. CASE pending' = Append(q, Functor("Notify"))
    BY <1>4, <2>2, <2>4, Appended
  <2> QED  BY <2>1, <2>3, <2>4
<1>6. TypeInv' /\ NewInv'
  BY <1>1, <1>3, <1>5, Numbers DEF Ctl, TypeInv, NewInv, Ops
<1>7. CallInv'
  BY <1>1, <1>5 DEF Ctl, CallInv, Closing, Ops
<1>8. EventInv'
  BY <1>1 DEF Ctl, EventInv
<1>9. DownInv'
  BY <1>1, <1>2 DEF Ctl, DownInv
<1>10. OwnerInv'
  BY <1>1, <1>2, <1>5 DEF Ctl, OwnerInv, Owned, DownInv, Ops
<1> QED  BY <1>6, <1>7, <1>8, <1>9, <1>10 DEF Ctl

\* Send() on the loop's thread.
LEMMA SendCtl ==
  ASSUME Ctl, Send
  PROVE  Ctl'
<1>1. /\ UNCHANGED <<state_, revents, in_callback, call, holders, owner_exists, removals, delayed, fin,
                     ups, downs, destroys, overwritten>>
      /\ UserCode
  BY DEF Send, owner, history
<1>2. /\ pending' = pending \/ pending' = Append(pending, Functor("Notify"))
      /\ \/ UNCHANGED <<events, registered>>
         \/ state_ # "kDisconnected" /\ events' = events \cup {"write"} /\ registered'
  BY SendInLoopCtl DEF Send
<1>3. ups = 1
  BY <1>1, Established
<1>4. /\ pending' \in Seq(FunctorSet)
      /\ \A op \in Ops : op # "Notify" /\ HasOp(pending', op) => HasOp(pending, op)
      /\ OnceOp(pending, "ConnectDestroyed") => OnceOp(pending', "ConnectDestroyed")
  <2>1. Functor("Notify") \in FunctorSet /\ Functor("Notify").op = "Notify" /\ pending \in Seq(FunctorSet)
    BY FunctorTypes DEF Ops, Ctl, TypeInv
  <2>2. CASE pending' = pending
    BY <2>1, <2>2
  <2>3. CASE pending' = Append(pending, Functor("Notify"))
    BY <2>1, <2>3, Appended
  <2> QED  BY <1>2, <2>2, <2>3
<1>5. TypeInv' /\ NewInv'
  BY <1>1, <1>3, <1>4, Numbers DEF Ctl, TypeInv, NewInv, Ops
<1>6. CallInv'
  BY <1>1, <1>4 DEF Ctl, CallInv, Closing, Ops
<1>7. EventInv'
  BY <1>1 DEF Ctl, EventInv
<1>8. DownInv'
  BY <1>1, <1>2 DEF Ctl, DownInv
<1>9. OwnerInv'
  BY <1>1, <1>2, <1>4 DEF Ctl, OwnerInv, Owned, DownInv, Ops
<1> QED  BY <1>5, <1>6, <1>7, <1>8, <1>9 DEF Ctl

\* HandleClose() on a connection that is up: reported down once, and the owner told
\* once.
LEMMA HandleCloseCtl ==
  ASSUME Ctl, ups = 1, NEW q, HandleClose(q), q \in Seq(FunctorSet), \A op : HasOp(q, op) => HasOp(pending, op),
         OnceOp(pending, "ConnectDestroyed") => OnceOp(q, "ConnectDestroyed"),
         ~overwritten => state_ # "kDisconnected",
         revents' \subseteq revents, "in" \notin revents', "hup" \notin revents',
         UNCHANGED <<call, holders, owner_exists, fin, ups, destroys, overwritten>>
  PROVE  Ctl'
<1>1. /\ state_' = "kDisconnected" /\ events' = {} /\ downs' = downs + 1 /\ pending' = q
      /\ removals' = IF owner_exists THEN removals + 1 ELSE removals
  BY DEF HandleClose
<1>2. downs' \in Nat /\ downs' > 0 /\ removals' \in Nat
  BY <1>1, Positive DEF Ctl, TypeInv
<1>3. TypeInv' /\ NewInv'
  BY <1>1, <1>2, Numbers DEF Ctl, TypeInv, NewInv
<1>4. CallInv'
  BY <1>1 DEF Ctl, CallInv, Closing
<1>5. EventInv'
  BY DEF EventInv
<1>6. ~overwritten => downs = 0 /\ downs' = 1
  BY <1>1, Numbers DEF Ctl, DownInv
<1>7. DownInv'
  BY <1>1, <1>2, <1>6, Numbers DEF DownInv
<1>8. OwnerInv'
  <2> SUFFICES ASSUME ~overwritten' PROVE Owned'
    BY DEF OwnerInv
  <2>1. ~overwritten /\ downs = 0 /\ downs' = 1
    BY <1>6
  <2>2. CASE "owner" \in holders
    BY <1>1, <2>1, <2>2, Numbers DEF Ctl, OwnerInv, Owned
  <2>3. CASE "owner" \notin holders
    BY <1>1, <2>1, <2>3, Numbers DEF Ctl, OwnerInv, Owned
  <2> QED  BY <2>2, <2>3
<1> QED  BY <1>3, <1>4, <1>5, <1>7, <1>8 DEF Ctl

\* The functor ForceCloseInLoop() closes unless that has happened.
LEMMA ForceCloseInLoopCtl ==
  ASSUME Ctl, ForceCloseInLoop
  PROVE  Ctl'
<1>1. /\ UNCHANGED <<revents, in_callback, call, holders, owner_exists, delayed, fin, ups, destroys, overwritten>>
      /\ pending # <<>> /\ Head(pending).op = "ForceCloseInLoop" /\ revents = {}
  BY DEF ForceCloseInLoop, socket, Runs
<1>2. ups = 1
  BY Established DEF ForceCloseInLoop, Ops
<1> DEFINE q == Tail(pending)
<1>3. /\ q \in Seq(FunctorSet)
      /\ \A op : HasOp(q, op) => HasOp(pending, op)
      /\ OnceOp(pending, "ConnectDestroyed") => OnceOp(q, "ConnectDestroyed")
  BY <1>1, Taken DEF Ctl, TypeInv
<1>4. CASE state_ \in {"kConnected", "kDisconnecting"}
  <2>1. HandleClose(q) /\ state_ # "kDisconnected"
    BY <1>4 DEF ForceCloseInLoop
  <2> HIDE DEF q
  <2> QED  BY <1>1, <1>2, <1>3, <2>1, HandleCloseCtl
<1>5. CASE state_ \notin {"kConnected", "kDisconnecting"}
  <2>1. pending' = q /\ UNCHANGED <<state_, events, registered, downs, removals>>
    BY <1>5 DEF ForceCloseInLoop
  <2> HIDE DEF q
  <2>2. TypeInv' /\ NewInv'
    BY <1>1, <1>2, <1>3, <2>1, Numbers DEF Ctl, TypeInv, NewInv
  <2>3. CallInv'
    BY <1>1, <1>3, <2>1 DEF Ctl, CallInv, Closing
  <2>4. EventInv' /\ DownInv'
    BY <1>1, <2>1 DEF Ctl, EventInv, DownInv
  <2>5. OwnerInv'
    BY <1>1, <1>3, <2>1 DEF Ctl, OwnerInv, Owned
  <2> QED  BY <2>2, <2>3, <2>4, <2>5 DEF Ctl
<1> QED  BY <1>4, <1>5

\* HandleEvent() finds a hangup: the connection was still up.
LEMMA HandleHangupCtl ==
  ASSUME Ctl, HandleHangup
  PROVE  Ctl'
<1>1. /\ UNCHANGED <<call, holders, owner_exists, delayed, fin, ups, destroys, overwritten>>
      /\ "hup" \in revents /\ revents' = revents \ {"hup"} /\ HandleClose(pending)
  BY DEF HandleHangup, socket, Handled
<1>2. ups = 1
  BY <1>1, Established
<1>3. "in" \notin revents' /\ (~overwritten => state_ # "kDisconnected")
  BY <1>1 DEF Ctl, EventInv, DownInv
<1>4. pending \in Seq(FunctorSet)
  BY DEF Ctl, TypeInv
<1> QED  BY <1>1, <1>2, <1>3, <1>4, HandleCloseCtl

\* A handler that leaves the connection as it is.
LEMMA HandlersCtl ==
  ASSUME Ctl, revents # {}, revents' \subseteq revents,
         in_callback' => "in" \notin revents' /\ "hup" \notin revents',
         UNCHANGED <<state_, events, registered, pending, call, holders, owner_exists, removals, delayed, fin,
                     ups, downs, destroys, overwritten>>
  PROVE  Ctl'
<1>1. ups = 1
  BY Established
<1>2. TypeInv' /\ NewInv'
  BY <1>1, Numbers DEF Ctl, TypeInv, NewInv
<1>3. CallInv'
  BY DEF Ctl, CallInv, Closing
<1>4. EventInv' /\ DownInv'
  BY DEF Ctl, EventInv, DownInv
<1>5. OwnerInv'
  BY DEF Ctl, OwnerInv, Owned
<1> QED  BY <1>2, <1>3, <1>4, <1>5 DEF Ctl

\* HandleError().
LEMMA HandleErrorCtl ==
  ASSUME Ctl, HandleError
  PROVE  Ctl'
BY HandlersCtl DEF HandleError, Handled, owner, history

\* HandleRead(), which closes at the end of the input.
LEMMA HandleReadCtl ==
  ASSUME Ctl, HandleRead
  PROVE  Ctl'
<1>1. /\ UNCHANGED <<call, holders, owner_exists, delayed, fin, ups, destroys, overwritten>>
      /\ "in" \in revents /\ revents' = revents \ {"in"}
  BY DEF HandleRead, Handled
<1>2. ups = 1
  BY <1>1, Established
<1>3. "hup" \notin revents' /\ (~overwritten => state_ # "kDisconnected")
  BY <1>1 DEF Ctl, EventInv, DownInv
<1>4. CASE UNCHANGED <<state_, events, registered, pending, removals, downs>>
  BY <1>1, <1>3, <1>4, HandlersCtl
<1>5. CASE HandleClose(pending)
  <2>1. pending \in Seq(FunctorSet)
    BY DEF Ctl, TypeInv
  <2> QED  BY <1>1, <1>2, <1>3, <1>5, <2>1, HandleCloseCtl
<1> QED  BY <1>4, <1>5 DEF HandleRead

\* HandleWrite(), which shuts down after the last byte when the connection is
\* kDisconnecting.
LEMMA HandleWriteCtl ==
  ASSUME Ctl, HandleWrite
  PROVE  Ctl'
<1>1. /\ UNCHANGED <<state_, registered, call, holders, owner_exists, removals, delayed, ups, downs, destroys, overwritten>>
      /\ revents = {"out"} /\ revents' = {} /\ ~in_callback'
  BY DEF HandleWrite, Handled, owner, history
<1>2. ups = 1
  BY <1>1, Established
<1>3. CASE UNCHANGED <<events, pending, fin>>
  BY <1>1, <1>3, HandlersCtl
<1>4. CASE /\ events' = events \ {"write"} /\ pending' = Append(pending, Functor("Notify"))
           /\ fin' => fin \/ state_ = "kDisconnecting"
  <2>1. Functor("Notify") \in FunctorSet /\ Functor("Notify").op = "Notify" /\ pending \in Seq(FunctorSet)
    BY FunctorTypes DEF Ops, Ctl, TypeInv
  <2>2. /\ pending' \in Seq(FunctorSet)
        /\ \A op \in Ops : op # "Notify" /\ HasOp(pending', op) => HasOp(pending, op)
        /\ OnceOp(pending, "ConnectDestroyed") => OnceOp(pending', "ConnectDestroyed")
    BY <1>4, <2>1, Appended
  <2>3. TypeInv' /\ NewInv'
    BY <1>1, <1>2, <1>4, <2>2, Numbers DEF Ctl, TypeInv, NewInv, Ops
  <2>4. CallInv'
    BY <1>1, <1>4, <2>2 DEF Ctl, CallInv, Closing, Ops
  <2>5. EventInv' /\ DownInv'
    BY <1>1, <1>4 DEF Ctl, EventInv, DownInv
  <2>6. OwnerInv'
    BY <1>1, <2>2 DEF Ctl, OwnerInv, Owned, Ops
  <2> QED  BY <2>3, <2>4, <2>5, <2>6 DEF Ctl
<1> QED  BY <1>3, <1>4 DEF HandleWrite, Written

\* Poll() reports only what the channel of an open connection watches.
LEMMA PollReturnsCtl ==
  ASSUME Ctl, PollReturns
  PROVE  Ctl'
<1>1. /\ UNCHANGED <<state_, events, registered, pending, call, holders, owner_exists, removals, delayed, fin,
                     ups, downs, destroys, overwritten>>
      /\ registered /\ ~in_callback'
  BY DEF PollReturns, owner, socket, history
<1>2. ups = 1
  BY <1>1, Established
<1>3. ~("hup" \in revents' /\ "in" \in revents')
  BY DEF PollReturns
<1>4. "hup" \in revents' \/ "in" \in revents' => events # {}
  BY DEF PollReturns, Ready
<1>5. TypeInv' /\ NewInv'
  BY <1>1, <1>2, Numbers DEF Ctl, TypeInv, NewInv
<1>6. CallInv'
  BY <1>1 DEF Ctl, CallInv, Closing
<1>7. EventInv' /\ DownInv'
  BY <1>1, <1>3, <1>4 DEF Ctl, EventInv, DownInv
<1>8. OwnerInv'
  BY <1>1 DEF Ctl, OwnerInv, Owned
<1> QED  BY <1>5, <1>6, <1>7, <1>8 DEF Ctl

\* The functor ConnectDestroyed(): it is queued once, and reports down a connection
\* that is kConnected.
LEMMA RunConnectDestroyedCtl ==
  ASSUME Ctl, RunConnectDestroyed
  PROVE  Ctl'
<1>1. /\ UNCHANGED <<revents, in_callback, call, holders, owner_exists, removals, delayed, fin, ups, overwritten>>
      /\ pending' = Tail(pending) /\ pending # <<>> /\ Head(pending).op = "ConnectDestroyed" /\ revents = {}
      /\ ~registered' /\ destroys' = destroys + 1
  BY DEF RunConnectDestroyed, ConnectDestroyed, owner, socket, Runs
<1>2. \/ state_ = "kConnected" /\ state_' = "kDisconnected" /\ events' = {} /\ downs' = downs + 1
      \/ state_ # "kConnected" /\ UNCHANGED <<state_, events, downs>>
  BY DEF RunConnectDestroyed, ConnectDestroyed, StillConnected
<1>3. ups = 1
  BY Established DEF RunConnectDestroyed, Ops
<1>4. /\ pending' \in Seq(FunctorSet)
      /\ \A op : HasOp(pending', op) => HasOp(pending, op)
      /\ HasOp(pending, "ConnectDestroyed")
      /\ OnceOp(pending, "ConnectDestroyed") => ~HasOp(pending', "ConnectDestroyed")
  BY <1>1, Taken DEF Ctl, TypeInv
<1>5. destroys' \in Nat /\ downs' \in Nat /\ (downs > 0 => downs' > 0) /\ (state_ = "kConnected" => downs' > 0)
  BY <1>1, <1>2, Positive DEF Ctl, TypeInv
<1>6. TypeInv' /\ NewInv'
  BY <1>1, <1>2, <1>3, <1>4, <1>5, Numbers DEF Ctl, TypeInv, NewInv
<1>7. CallInv'
  BY <1>1, <1>2, <1>4 DEF Ctl, CallInv, Closing
<1>8. EventInv'
  BY <1>1 DEF EventInv
<1>9. DownInv'
  BY <1>1, <1>2, <1>5, Numbers DEF Ctl, DownInv
<1>10. OwnerInv'
  <2> SUFFICES ASSUME ~overwritten PROVE Owned'
    BY <1>1 DEF OwnerInv
  <2>1. "owner" \notin holders /\ removals = 0 /\ destroys = 0 /\ OnceOp(pending, "ConnectDestroyed")
        /\ (owner_exists => downs = 1)
    BY <1>4 DEF Ctl, OwnerInv, Owned
  <2>2. owner_exists => downs' = 1
    BY <1>2, <2>1 DEF Ctl, DownInv
  <2> QED  BY <1>1, <1>4, <2>1, <2>2, Numbers DEF Owned
<1> QED  BY <1>6, <1>7, <1>8, <1>9, <1>10 DEF Ctl

\* A call on the loop's thread that makes the connection kDisconnecting.
LEMMA CallCtl ==
  ASSUME Ctl, ups = 1, state_ \in {"kConnected", "kDisconnecting"}, state_' = "kDisconnecting",
         pending' = pending \/ pending' = Append(pending, Functor("ForceCloseInLoop")),
         UNCHANGED <<events, registered, revents, in_callback, call, holders, owner_exists, removals,
                     ups, downs, destroys, overwritten>>
  PROVE  Ctl'
<1>1. Functor("ForceCloseInLoop") \in FunctorSet /\ Functor("ForceCloseInLoop").op = "ForceCloseInLoop"
      /\ pending \in Seq(FunctorSet)
  BY FunctorTypes DEF Ops, Ctl, TypeInv
<1>2. /\ pending' \in Seq(FunctorSet)
      /\ \A op \in Ops : op # "ForceCloseInLoop" /\ HasOp(pending', op) => HasOp(pending, op)
      /\ OnceOp(pending, "ConnectDestroyed") => OnceOp(pending', "ConnectDestroyed")
  BY <1>1, Appended
<1>3. TypeInv' /\ NewInv'
  BY <1>2, Numbers DEF Ctl, TypeInv, NewInv, Ops
<1>4. CallInv'
  BY <1>2 DEF Ctl, CallInv, Closing, Ops
<1>5. EventInv' /\ DownInv'
  BY DEF Ctl, EventInv, DownInv
<1>6. OwnerInv'
  BY <1>2 DEF Ctl, OwnerInv, Owned, Ops
<1> QED  BY <1>3, <1>4, <1>5, <1>6 DEF Ctl

\* Shutdown(), ForceClose() and ForceCloseWithDelay() on the loop's thread.
LEMMA ShutdownCtl ==
  ASSUME Ctl, Shutdown \/ ForceClose \/ ForceCloseWithDelay
  PROVE  Ctl'
<1>1. ups = 1
  BY Established DEF Shutdown, ForceClose, ForceCloseWithDelay
<1>2. CASE Shutdown
  BY <1>1, <1>2, CallCtl DEF Shutdown, channel, owner, history
<1>3. CASE ForceClose
  BY <1>1, <1>3, CallCtl DEF ForceClose, channel, owner, history
<1>4. CASE ForceCloseWithDelay
  BY <1>1, <1>4, CallCtl DEF ForceCloseWithDelay, channel, owner, history
<1> QED  BY <1>2, <1>3, <1>4

\* The timer of ForceCloseWithDelay().
LEMMA DelayExpiresCtl ==
  ASSUME Ctl, DelayExpires
  PROVE  Ctl'
<1>1. UNCHANGED <<events, registered, revents, in_callback, call, holders, owner_exists, removals, fin,
                  ups, downs, destroys, overwritten>>
      /\ delayed = "set"
  BY DEF DelayExpires, channel, owner, socket, history
<1>2. ups = 1
  BY <1>1, Established
<1>3. CASE Alive /\ state_ \in {"kConnected", "kDisconnecting"}
  BY <1>1, <1>2, <1>3, CallCtl DEF DelayExpires
<1>4. CASE UNCHANGED <<state_, pending>>
  <2>1. TypeInv' /\ NewInv'
    BY <1>1, <1>2, <1>4, Numbers DEF Ctl, TypeInv, NewInv
  <2>2. CallInv'
    BY <1>1, <1>4 DEF Ctl, CallInv, Closing
  <2>3. EventInv' /\ DownInv'
    BY <1>1, <1>4 DEF Ctl, EventInv, DownInv
  <2>4. OwnerInv'
    BY <1>1, <1>4 DEF Ctl, OwnerInv, Owned
  <2> QED  BY <2>1, <2>2, <2>3, <2>4 DEF Ctl
<1> QED  BY <1>3, <1>4 DEF DelayExpires

\* Another thread's call tests state_.
LEMMA TestStateCtl ==
  ASSUME Ctl, NEW t \in Threads, NEW method \in ThreadCalls, TestState(t, method)
  PROVE  Ctl'
<1>1. /\ UNCHANGED <<state_, events, registered, revents, in_callback, pending, holders, owner_exists, removals, fin,
                     delayed, ups, downs, destroys, overwritten>>
      /\ t \in holders
  BY DEF TestState, channel, owner, socket, history
<1>2. ups = 1
  BY <1>1, Established
<1>3. method \in {"Send", "Shutdown", "ForceClose"}
  BY CallersAssumption DEF Methods
<1>4. /\ call' \in [Threads -> CallStates] /\ (call'[t][1] = "Send" \/ call'[t][2] = "set_state")
      /\ \A u \in Threads : u # t => call'[u] = call[u]
  <2>1. CASE method = "Send"
    BY <2>1, Pairs, Calling DEF TestState, Ctl, TypeInv
  <2>2. CASE method \in {"Shutdown", "ForceClose"}
    <3>1. call' = [call EXCEPT ![t] = <<method, "set_state">>] /\ <<method, "set_state">> \in CallStates
          /\ <<method, "set_state">>[2] = "set_state"
      BY <2>2, Pairs DEF TestState
    <3> QED  BY <3>1, Calling DEF Ctl, TypeInv
  <2> QED  BY <1>3, <2>1, <2>2
<1>5. TypeInv' /\ NewInv'
  BY <1>1, <1>2, <1>4, Numbers DEF Ctl, TypeInv, NewInv
<1>6. CallInv'
  BY <1>1, <1>4 DEF Ctl, CallInv, Closing
<1>7. EventInv' /\ DownInv'
  BY <1>1 DEF Ctl, EventInv, DownInv
<1>8. OwnerInv'
  BY <1>1 DEF Ctl, OwnerInv, Owned
<1> QED  BY <1>5, <1>6, <1>7, <1>8 DEF Ctl

\* Another thread's Shutdown() or ForceClose() goes on from its SetState() to its
\* functor.
LEMMA SetsState ==
  ASSUME Ctl, NEW t \in Threads, SetState(t)
  PROVE  /\ call' \in [Threads -> CallStates] /\ call'[t][1] = call[t][1] /\ call[t][1] \in {"Shutdown", "ForceClose"}
         /\ \A u \in Threads : u # t => call'[u] = call[u]
<1> DEFINE m == call[t][1]
<1>1. call[t] \in CallStates /\ call[t][2] = "set_state"
  BY DEF Ctl, TypeInv, SetState
<1>2. call[t] = <<call[t][1], call[t][2]>> /\ call[t][1] \in {"Shutdown", "ForceClose"}
  BY <1>1, Pairs
<1>3. call[t] = <<m, "set_state">> /\ m \in {"Shutdown", "ForceClose"}
  BY <1>1, <1>2
<1>4. [call[t] EXCEPT ![2] = "queue"] = <<m, "queue">>
  <2>1. \A n : [<<n, "set_state">> EXCEPT ![2] = "queue"] = <<n, "queue">>
    BY SMTT(30)
  <2> HIDE DEF m
  <2> QED  BY <1>3, <2>1
<1>5. call' = [call EXCEPT ![t] = <<m, "queue">>]
  BY <1>4 DEF SetState
<1> HIDE DEF m
<1>6. /\ call' \in [Threads -> CallStates] /\ call'[t][1] = m
      /\ \A u \in Threads : u # t => call'[u] = call[u]
  BY <1>3, <1>5, Pairs, Calling DEF Ctl, TypeInv
<1> QED  BY <1>3, <1>6 DEF m

\* Another thread's SetState(kDisconnecting), also over kDisconnected.
LEMMA SetStateCtl ==
  ASSUME Ctl, NEW t \in Threads, SetState(t)
  PROVE  Ctl'
<1>1. /\ UNCHANGED <<events, registered, revents, in_callback, pending, holders, owner_exists, removals, fin,
                     delayed, ups, downs, destroys>>
      /\ state_' = "kDisconnecting" /\ (overwritten' <=> overwritten \/ state_ = "kDisconnected")
  BY DEF SetState, channel, owner, socket
<1>2. /\ call' \in [Threads -> CallStates] /\ call[t][1] # "none"
      /\ \A u \in Threads : u # t => call'[u] = call[u]
  BY SetsState
<1>3. ups = 1 /\ t \in holders
  BY <1>2, Established DEF Ctl, CallInv
<1>4. TypeInv' /\ NewInv'
  BY <1>1, <1>2, <1>3, Numbers DEF Ctl, TypeInv, NewInv
<1>5. CallInv'
  BY <1>1, <1>2, <1>3 DEF Ctl, CallInv, Closing
<1>6. EventInv' /\ DownInv'
  BY <1>1 DEF Ctl, EventInv, DownInv
<1>7. OwnerInv'
  BY <1>1 DEF Ctl, OwnerInv, Owned
<1> QED  BY <1>4, <1>5, <1>6, <1>7 DEF Ctl

\* What another thread's call hands in: the functor of its method, and for Send() the
\* message it was given.
LEMMA QueuedFunctor ==
  ASSUME sent \in [Callers -> Nat], NEW t \in Threads, Queue(t), call[t][1] \in {"Send", "Shutdown", "ForceClose"}
  PROVE  \E f \in FunctorSet :
            /\ pending' = Append(pending, f)
            /\ f.op \in {"SendInLoop", "ShutdownInLoop", "ForceCloseInLoop"}
            /\ f.op = "ShutdownInLoop" => call[t][1] = "Shutdown"
            /\ f.op = "SendInLoop" <=> call[t][1] = "Send"
            /\ f.op = "SendInLoop" => f.bytes = [i \in 1 .. MessageSize |-> <<t, sent[t] - MessageSize + i>>]
<1> DEFINE m == [i \in 1 .. MessageSize |-> <<t, sent[t] - MessageSize + i>>]
<1> DEFINE s == [op |-> "SendInLoop", bytes |-> m]
<1>1. MessageSize \in Nat /\ sent[t] \in Nat /\ t \in Callers
  BY SizesAssumption DEF Callers
<1>2. m \in Seq(ByteSet)
  BY <1>1, SMTT(30) DEF ByteSet
<1> HIDE DEF m
<1>3. s \in FunctorSet /\ s.op = "SendInLoop" /\ s.bytes = m
  BY <1>2, SMTT(30) DEF FunctorSet, Ops
<1>4. pending' = Append(pending, CASE call[t][1] = "Send" -> s
         [] call[t][1] = "Shutdown" -> Functor("ShutdownInLoop")
         [] call[t][1] = "ForceClose" -> Functor("ForceCloseInLoop"))
  BY DEF Queue, m
<1> HIDE DEF s
<1>5. CASE call[t][1] = "Send"
  <2>1. pending' = Append(pending, s)
    BY <1>4, <1>5
  <2> QED  BY <1>3, <1>5, <2>1 DEF m
<1>6. CASE call[t][1] = "Shutdown"
  <2>1. pending' = Append(pending, Functor("ShutdownInLoop"))
    BY <1>4, <1>6
  <2> QED  BY <1>6, <2>1, FunctorTypes DEF Ops
<1>7. CASE call[t][1] = "ForceClose"
  <2>1. pending' = Append(pending, Functor("ForceCloseInLoop"))
    BY <1>4, <1>7
  <2> QED  BY <1>7, <2>1, FunctorTypes DEF Ops
<1> QED  BY <1>5, <1>6, <1>7

\* Another thread's call hands its functor in.
LEMMA QueueCtl ==
  ASSUME Ctl, sent \in [Callers -> Nat], NEW t \in Threads, Queue(t)
  PROVE  Ctl'
<1>1. /\ UNCHANGED <<state_, events, registered, revents, in_callback, holders, owner_exists, removals, fin,
                     delayed, ups, downs, destroys, overwritten>>
      /\ call[t][2] = "queue" /\ call' = [call EXCEPT ![t] = <<"none", "none">>]
  BY DEF Queue, channel, owner, socket, history
<1>2. call[t][1] \in {"Send", "Shutdown", "ForceClose"}
  BY <1>1, Pairs DEF Ctl, TypeInv
<1>3. ups = 1
  BY <1>2, Established
<1>4. PICK f \in FunctorSet : /\ pending' = Append(pending, f)
                              /\ f.op \in {"SendInLoop", "ShutdownInLoop", "ForceCloseInLoop"}
                              /\ f.op = "ShutdownInLoop" => call[t][1] = "Shutdown"
  BY <1>2, QueuedFunctor
<1>5. /\ call' \in [Threads -> CallStates] /\ call'[t][1] = "none"
      /\ \A u \in Threads : u # t => call'[u] = call[u]
  BY <1>1, Pairs, Calling DEF Ctl, TypeInv
<1>6. /\ pending' \in Seq(FunctorSet)
      /\ \A op \in Ops : HasOp(pending', op) <=> HasOp(pending, op) \/ f.op = op
      /\ OnceOp(pending, "ConnectDestroyed") => OnceOp(pending', "ConnectDestroyed")
  BY <1>4, Appended DEF Ctl, TypeInv
<1>7. TypeInv' /\ NewInv'
  BY <1>1, <1>3, <1>4, <1>5, <1>6, Numbers DEF Ctl, TypeInv, NewInv, Ops
<1>8. CallInv'
  BY <1>1, <1>4, <1>5, <1>6 DEF Ctl, CallInv, Closing, Ops
<1>9. EventInv' /\ DownInv'
  BY <1>1 DEF Ctl, EventInv, DownInv
<1>10. OwnerInv'
  BY <1>1, <1>4, <1>6 DEF Ctl, OwnerInv, Owned, Ops
<1> QED  BY <1>7, <1>8, <1>9, <1>10 DEF Ctl

\* A thread lets go of its TcpConnectionPtr.
LEMMA ReleaseCtl ==
  ASSUME Ctl, NEW t \in Threads, Release(t)
  PROVE  Ctl'
<1>1. /\ UNCHANGED <<state_, events, registered, revents, in_callback, pending, call, owner_exists, removals, fin,
                     delayed, ups, downs, destroys, overwritten>>
      /\ t \in holders /\ call[t][1] = "none" /\ holders' = holders \ {t}
  BY DEF Release, channel, socket, history
<1>2. ups = 1
  BY <1>1, Established
<1>3. "owner" \in holders' <=> "owner" \in holders
  BY <1>1, CallersAssumption
<1>4. TypeInv' /\ NewInv'
  BY <1>1, <1>2, Numbers DEF Ctl, TypeInv, NewInv
<1>5. CallInv'
  BY <1>1 DEF Ctl, CallInv, Closing
<1>6. EventInv' /\ DownInv'
  BY <1>1 DEF Ctl, EventInv, DownInv
<1>7. OwnerInv'
  BY <1>1, <1>3 DEF Ctl, OwnerInv, Owned
<1> QED  BY <1>4, <1>5, <1>6, <1>7 DEF Ctl

\* The peer sends, closes or resets; nothing of the connection changes.
LEMMA PeerActsCtl ==
  ASSUME Ctl, PeerActs \/ UNCHANGED vars
  PROVE  Ctl'
<1>1. UNCHANGED <<state_, events, registered, revents, in_callback, output_buffer_, wire, pending, call, holders,
                  owner_exists, removals, fin, delayed, sent, ups, downs, destroys, overwritten>>
  BY DEF PeerActs, vars, channel, owner, socket, history
<1>2. TypeInv' /\ NewInv'
  BY <1>1 DEF Ctl, TypeInv, NewInv
<1>3. CallInv'
  BY <1>1 DEF Ctl, CallInv, Closing
<1>4. EventInv' /\ DownInv'
  BY <1>1 DEF Ctl, EventInv, DownInv
<1>5. OwnerInv'
  BY <1>1 DEF Ctl, OwnerInv, Owned
<1> QED  BY <1>2, <1>3, <1>4, <1>5 DEF Ctl

\* RemoveConnectionInLoop(): ConnectDestroyed() is queued when none is.
LEMMA OwnerRemovesCtl ==
  ASSUME Ctl, OwnerRemoves
  PROVE  Ctl'
<1>1. /\ UNCHANGED <<state_, events, registered, revents, in_callback, call, owner_exists, fin,
                     delayed, ups, downs, destroys, overwritten>>
      /\ removals > 0 /\ removals' = removals - 1 /\ holders' = holders \ {"owner"}
      /\ pending' = Append(pending, Functor("ConnectDestroyed"))
  BY DEF OwnerRemoves, channel, socket, history
<1>2. ups = 1
  BY <1>1, Established
<1>3. Functor("ConnectDestroyed") \in FunctorSet /\ Functor("ConnectDestroyed").op = "ConnectDestroyed"
  BY FunctorTypes DEF Ops
<1>4. /\ pending' \in Seq(FunctorSet)
      /\ \A op \in Ops : op # "ConnectDestroyed" /\ HasOp(pending', op) => HasOp(pending, op)
      /\ ~HasOp(pending, "ConnectDestroyed") => OnceOp(pending', "ConnectDestroyed")
  BY <1>1, <1>3, Appended DEF Ctl, TypeInv
<1>5. removals' \in Nat
  BY <1>1, Positive DEF Ctl, TypeInv
<1>6. TypeInv' /\ NewInv'
  BY <1>1, <1>2, <1>4, <1>5, Numbers DEF Ctl, TypeInv, NewInv, Ops
<1>7. CallInv'
  BY <1>1, <1>4, CallersAssumption DEF Ctl, CallInv, Closing, Ops
<1>8. EventInv'
  BY <1>1 DEF Ctl, EventInv
<1>9. DownInv'
  BY <1>1 DEF Ctl, DownInv
<1>10. OwnerInv'
  <2> SUFFICES ASSUME ~overwritten PROVE Owned'
    BY <1>1 DEF OwnerInv
  <2>1. "owner" \in holders
    BY <1>1, Numbers DEF Ctl, OwnerInv, Owned
  <2>2. owner_exists /\ destroys = 0 /\ ~HasOp(pending, "ConnectDestroyed") /\ removals = downs
    BY <2>1 DEF Ctl, OwnerInv, Owned
  <2>3. downs = 1 /\ removals' = 0
    BY <1>1, <2>2, Numbers DEF Ctl, DownInv
  <2> QED  BY <1>1, <1>4, <2>2, <2>3 DEF Owned
<1> QED  BY <1>6, <1>7, <1>8, <1>9, <1>10 DEF Ctl

\* ~TcpServer(): ConnectDestroyed() is queued, or runs at once in the same loop.
LEMMA OwnerDestructsCtl ==
  ASSUME Ctl, OwnerDestructs
  PROVE  Ctl'
<1>1. /\ UNCHANGED <<revents, in_callback, output_buffer_, wire, call, removals, delayed, fin, sent, ups, overwritten>>
      /\ "owner" \in holders /\ removals = 0 /\ holders' = holders \ {"owner"} /\ ~owner_exists'
  BY DEF OwnerDestructs, socket
<1> DEFINE Queued ==
      /\ pending' = Append(pending, Functor("ConnectDestroyed"))
      /\ UNCHANGED <<state_, events, registered, downs, destroys>>
<1>2. CASE Queued
  <2>1. Functor("ConnectDestroyed") \in FunctorSet /\ Functor("ConnectDestroyed").op = "ConnectDestroyed"
    BY FunctorTypes DEF Ops
  <2>2. /\ pending' \in Seq(FunctorSet)
        /\ \A op \in Ops : op # "ConnectDestroyed" /\ HasOp(pending', op) => HasOp(pending, op)
        /\ ~HasOp(pending, "ConnectDestroyed") => OnceOp(pending', "ConnectDestroyed")
    BY <1>2, <2>1, Appended DEF Ctl, TypeInv
  <2>3. TypeInv'
    BY <1>1, <1>2, <2>2 DEF Ctl, TypeInv
  <2>4. NewInv'
    <3>1. CASE ups = 1
      BY <1>1, <1>2, <2>2, <3>1, Numbers DEF Ctl, NewInv, Ops
    <3>2. CASE ups = 0
      <4>1. pending = <<Functor("ConnectEstablished")>>
        BY <1>1, <3>2 DEF Ctl, NewInv
      <4>2. pending' = <<Functor("ConnectEstablished"), Functor("ConnectDestroyed")>>
        BY <1>2, <2>1, <4>1, FunctorTypes, TwoElements DEF Ops
      <4> QED  BY <1>1, <1>2, <3>2, <4>2, Numbers DEF Ctl, NewInv
    <3> QED  BY <3>1, <3>2 DEF Ctl, TypeInv
  <2>5. CallInv'
    BY <1>1, <1>2, <2>2, CallersAssumption DEF Ctl, CallInv, Closing, Ops
  <2>6. EventInv' /\ DownInv'
    BY <1>1, <1>2 DEF Ctl, EventInv, DownInv
  <2>7. OwnerInv'
    BY <1>1, <1>2, <2>2 DEF Ctl, OwnerInv, Owned
  <2> QED  BY <2>3, <2>4, <2>5, <2>6, <2>7 DEF Ctl
<1>3. CASE UserCode /\ ConnectDestroyed /\ UNCHANGED pending
  <2>1. /\ ~registered' /\ destroys' = destroys + 1 /\ UNCHANGED pending
        /\ \/ state_ = "kConnected" /\ state_' = "kDisconnected" /\ events' = {} /\ downs' = downs + 1
           \/ state_ # "kConnected" /\ UNCHANGED <<state_, events, downs>>
    BY <1>3 DEF ConnectDestroyed, StillConnected
  <2>2. ups = 1
    BY <1>3, Established
  <2>3. "hup" \notin revents /\ "in" \notin revents
    BY <1>3 DEF Ctl, EventInv, UserCode
  <2>4. destroys' \in Nat /\ downs' \in Nat /\ (downs > 0 => downs' > 0) /\ (state_ = "kConnected" => downs' > 0)
    BY <2>1, Positive DEF Ctl, TypeInv
  <2>5. TypeInv' /\ NewInv'
    BY <1>1, <2>1, <2>2, <2>4, Numbers DEF Ctl, TypeInv, NewInv
  <2>6. CallInv'
    BY <1>1, <2>1, CallersAssumption DEF Ctl, CallInv, Closing
  <2>7. EventInv'
    BY <1>1 DEF Ctl, EventInv
  <2>8. DownInv'
    BY <1>1, <2>1, <2>3, <2>4, Numbers DEF Ctl, DownInv
  <2>9. OwnerInv'
    BY <1>1, <2>1, Numbers DEF Ctl, OwnerInv, Owned
  <2> QED  BY <2>5, <2>6, <2>7, <2>8, <2>9 DEF Ctl
<1> QED  BY <1>2, <1>3 DEF OwnerDestructs

\* A new connection satisfies the control invariant.
LEMMA InitCtl ==
  ASSUME Init
  PROVE  Ctl
<1>1. DOMAIN pending = {1} /\ pending[1] = Functor("ConnectEstablished") /\ pending \in Seq(FunctorSet)
  <2>1. Functor("ConnectEstablished") \in FunctorSet
    BY FunctorTypes DEF Ops
  <2>2. \A f \in FunctorSet : <<f>> \in Seq(FunctorSet) /\ DOMAIN <<f>> = {1} /\ <<f>>[1] = f
    BY SMTT(30)
  <2> QED  BY <2>1, <2>2 DEF Init
<1>2. \A op \in Ops : op # "ConnectEstablished" => ~HasOp(pending, op)
  BY <1>1, FunctorTypes DEF HasOp, Ops
<1>3. \A t \in Threads : call[t][1] = "none" /\ call[t] \in CallStates
  BY Pairs DEF Init
<1>4. call \in [Threads -> CallStates]
  BY <1>3 DEF Init
<1>5. 0 \in Nat
  BY SMTT(30)
<1>6. TypeInv
  BY <1>1, <1>4, <1>5 DEF TypeInv, Init
<1>7. NewInv
  BY <1>1, Numbers DEF NewInv, Init
<1>8. CallInv
  BY <1>2, <1>3 DEF CallInv, Init, Ops
<1>9. EventInv /\ DownInv
  BY Numbers DEF EventInv, DownInv, Init
<1>10. OwnerInv
  BY <1>2 DEF OwnerInv, Owned, Init, Ops
<1> QED  BY <1>6, <1>7, <1>8, <1>9, <1>10 DEF Ctl

------------------------------------------------------------------------------
(* Bytes. *)

\* write() takes a prefix of the bytes: what it took and what is left, put together,
\* are the bytes.
LEMMA Cut ==
  ASSUME NEW w \in Seq(ByteSet), NEW b \in Seq(ByteSet), NEW n \in 0 .. Len(b)
  PROVE  /\ SubSeq(b, 1, n) \in Seq(ByteSet) /\ SubSeq(b, n + 1, Len(b)) \in Seq(ByteSet)
         /\ w \o SubSeq(b, 1, n) \in Seq(ByteSet)
         /\ (w \o SubSeq(b, 1, n)) \o SubSeq(b, n + 1, Len(b)) = w \o b
         /\ SubSeq(b, n + 1, Len(b)) = <<>> <=> n = Len(b)
         /\ n = Len(b) => SubSeq(b, 1, n) = b
<1> DEFINE l == SubSeq(b, 1, n)
           r == SubSeq(b, n + 1, Len(b))
<1>1. Len(b) \in Nat /\ n \in Int /\ 1 \in 1 .. Len(b) + 1 /\ n \in 1 - 1 .. Len(b) /\ Len(b) \in n .. Len(b)
  BY SMTT(30)
<1>2. l \in Seq(ByteSet) /\ r \in Seq(ByteSet)
  BY SMTT(30)
<1>3. l \o r = SubSeq(b, 1, Len(b))
  BY <1>1, ConcatAdjacentSubSeq
<1>4. SubSeq(b, 1, Len(b)) = b
  BY SubSeqFull
<1>5. r = <<>> <=> n = Len(b)
  <2>1. Len(r) = IF n + 1 <= Len(b) THEN Len(b) - (n + 1) + 1 ELSE 0
    BY SMTT(30)
  <2> HIDE DEF r
  <2> QED  BY <1>1, <1>2, <2>1, SMTT(30)
<1> HIDE DEF l, r
<1>6. (w \o l) \o r = w \o b /\ w \o l \in Seq(ByteSet)
  <2>1. (w \o l) \o r = w \o (l \o r)
    BY <1>2, ConcatAssociative, SMTT(30)
  <2>2. w \o l \in Seq(ByteSet)
    BY <1>2, ConcatProperties
  <2> QED  BY <1>3, <1>4, <2>1, <2>2
<1> QED  BY <1>2, <1>4, <1>5, <1>6 DEF l, r

\* A stream with a message of c put after it by SendInLoop().
LEMMA MessagePut ==
  ASSUME NEW s \in Seq(ByteSet), NEW m \in Seq(ByteSet), NEW c, NEW n \in Int, IsMessage(m, c, n)
  PROVE  /\ s \o m \in Seq(ByteSet) /\ Len(s \o m) = Len(s) + MessageSize
         /\ Len(s) \in Nat /\ MessageSize \in Nat
         /\ \A i \in 1 .. Len(s) : (s \o m)[i] = s[i]
         /\ \A k \in 1 .. MessageSize : (s \o m)[Len(s) + k][1] = c /\ (s \o m)[Len(s) + k][2] = n + k
<1>1. /\ Len(m) = MessageSize /\ MessageSize \in Nat /\ Len(s) \in Nat
      /\ \A k \in 1 .. MessageSize : m[k][1] = c /\ m[k][2] = n + k
  BY SizesAssumption, SMTT(30) DEF IsMessage
<1>2. /\ s \o m \in Seq(ByteSet) /\ Len(s \o m) = Len(s) + MessageSize
      /\ \A i \in 1 .. Len(s) + MessageSize : (s \o m)[i] = IF i <= Len(s) THEN s[i] ELSE m[i - Len(s)]
  BY <1>1, ConcatProperties
<1>3. \A i \in 1 .. Len(s) : i \in 1 .. Len(s) + MessageSize /\ i <= Len(s)
  BY <1>1, SMTT(30)
<1>4. \A k \in 1 .. MessageSize : Len(s) + k \in 1 .. Len(s) + MessageSize /\ ~(Len(s) + k <= Len(s)) /\ (Len(s) + k) - Len(s) = k
  BY <1>1, SMTT(30)
<1>5. \A i \in 1 .. Len(s) : (s \o m)[i] = s[i]
  BY <1>2, <1>3
<1>6. \A k \in 1 .. MessageSize : (s \o m)[Len(s) + k] = m[k]
  BY <1>2, <1>4
<1>7. \A k \in 1 .. MessageSize : (s \o m)[Len(s) + k][1] = c /\ (s \o m)[Len(s) + k][2] = n + k
  BY <1>1, <1>6
<1> QED  BY <1>1, <1>2, <1>5, <1>7

\* With k bytes of its next message the stream holds c's bytes up to n + k.
LEMMA NumbersOn ==
  ASSUME NEW s \in Seq(ByteSet), NEW m \in Seq(ByteSet), NEW c, NEW n \in Nat, IsMessage(m, c, n), HasUpTo(c, s, n),
         NEW k \in 0 .. MessageSize
  PROVE  NumbersOf(c, s \o m, Len(s) + k) = 1 .. n + k
<1> DEFINE y == s \o m
<1>1. /\ Len(s) \in Nat /\ MessageSize \in Nat /\ k \in Nat
      /\ \A i \in 1 .. Len(s) : y[i] = s[i]
      /\ \A j \in 1 .. MessageSize : y[Len(s) + j][1] = c /\ y[Len(s) + j][2] = n + j
  <2>1. k \in Nat
    BY SizesAssumption, SMTT(30)
  <2> QED  BY <2>1, MessagePut, SMTT(30)
<1> HIDE DEF y
<1>2. \A x : x \in 1 .. n <=> \E j \in 1 .. Len(s) : s[j][1] = c /\ s[j][2] = x
  BY DEF HasUpTo, NumbersOf
<1>3. ASSUME NEW x \in NumbersOf(c, y, Len(s) + k) PROVE x \in 1 .. n + k
  <2>1. PICK j \in 1 .. Len(s) + k : y[j][1] = c /\ y[j][2] = x
    BY DEF NumbersOf
  <2>2. CASE j \in 1 .. Len(s)
    <3>1. x \in 1 .. n
      BY <1>1, <1>2, <2>1, <2>2
    <3> QED  BY <1>1, <3>1, SMTT(30)
  <2>3. CASE j \notin 1 .. Len(s)
    <3>1. j - Len(s) \in 1 .. MessageSize /\ Len(s) + (j - Len(s)) = j /\ j - Len(s) <= k /\ j - Len(s) \in Nat
          /\ 1 <= j - Len(s)
      BY <1>1, <2>3, SMTT(30)
    <3>2. x = n + (j - Len(s))
      BY <1>1, <2>1, <3>1
    <3> QED  BY <1>1, <3>1, <3>2, SMTT(30)
  <2> QED  BY <2>2, <2>3
<1>4. ASSUME NEW x \in 1 .. n + k PROVE x \in NumbersOf(c, y, Len(s) + k)
  <2>1. CASE x \in 1 .. n
    <3>1. PICK j \in 1 .. Len(s) : s[j][1] = c /\ s[j][2] = x
      BY <1>2, <2>1
    <3>2. j \in 1 .. Len(s) + k
      BY <1>1, SMTT(30)
    <3> QED  BY <1>1, <3>1, <3>2 DEF NumbersOf
  <2>2. CASE x \notin 1 .. n
    <3>1. x - n \in 1 .. MessageSize /\ Len(s) + (x - n) \in 1 .. Len(s) + k /\ n + (x - n) = x
      BY <1>1, <2>2, SMTT(30)
    <3> QED  BY <1>1, <3>1 DEF NumbersOf
  <2> QED  BY <2>1, <2>2
<1> QED  BY <1>3, <1>4 DEF y

\* A message put after a stream changes nothing before it.
LEMMA NumbersBefore ==
  ASSUME NEW s \in Seq(ByteSet), NEW m \in Seq(ByteSet), NEW c, NEW n \in Int, IsMessage(m, c, n),
         NEW d, NEW i \in 0 .. Len(s)
  PROVE  NumbersOf(d, s \o m, i) = NumbersOf(d, s, i)
<1>1. \A j \in 1 .. Len(s) : (s \o m)[j] = s[j]
  BY MessagePut, SMTT(30)
<1>2. \A j \in 1 .. i : j \in 1 .. Len(s)
  BY SMTT(30)
<1> QED  BY <1>1, <1>2 DEF NumbersOf

\* A message of c put after a stream is no byte of another caller.
LEMMA NumbersOther ==
  ASSUME NEW s \in Seq(ByteSet), NEW m \in Seq(ByteSet), NEW c, NEW n \in Int, IsMessage(m, c, n), NEW d, d # c
  PROVE  NumbersOf(d, s \o m, Len(s \o m)) = NumbersOf(d, s, Len(s))
<1> DEFINE y == s \o m
<1>1. /\ Len(s) \in Nat /\ MessageSize \in Nat /\ Len(y) = Len(s) + MessageSize
      /\ \A i \in 1 .. Len(s) : y[i] = s[i]
      /\ \A j \in 1 .. MessageSize : y[Len(s) + j][1] = c
  BY MessagePut, SMTT(30)
<1> HIDE DEF y
<1>2. ASSUME NEW x \in NumbersOf(d, y, Len(s) + MessageSize) PROVE x \in NumbersOf(d, s, Len(s))
  <2>1. PICK j \in 1 .. Len(s) + MessageSize : y[j][1] = d /\ y[j][2] = x
    BY DEF NumbersOf
  <2>2. CASE j \in 1 .. Len(s)
    BY <1>1, <2>1, <2>2 DEF NumbersOf
  <2>3. CASE j \notin 1 .. Len(s)
    <3>1. j - Len(s) \in 1 .. MessageSize /\ Len(s) + (j - Len(s)) = j
      BY <1>1, <2>3, SMTT(30)
    <3>2. y[j][1] = c
      BY <1>1, <3>1
    <3> QED  BY <2>1, <3>2
  <2> QED  BY <2>2, <2>3
<1>3. ASSUME NEW x \in NumbersOf(d, s, Len(s)) PROVE x \in NumbersOf(d, y, Len(s) + MessageSize)
  <2>1. PICK j \in 1 .. Len(s) : s[j][1] = d /\ s[j][2] = x
    BY DEF NumbersOf
  <2>2. j \in 1 .. Len(s) + MessageSize
    BY <1>1, SMTT(30)
  <2> QED  BY <1>1, <2>1, <2>2 DEF NumbersOf
<1> QED  BY <1>1, <1>2, <1>3 DEF y

\* The stream stays in order when the next message of a caller is put after it, and
\* then holds the bytes of that caller up to the end of the message.
LEMMA InOrderOn ==
  ASSUME NEW s \in Seq(ByteSet), NEW m \in Seq(ByteSet), NEW c, NEW n \in Nat, IsMessage(m, c, n), HasUpTo(c, s, n)
  PROVE  /\ s \o m \in Seq(ByteSet)
         /\ InOrder(s) => InOrder(s \o m)
         /\ HasUpTo(c, s \o m, n + MessageSize)
         /\ \A d, b : d # c /\ HasUpTo(d, s, b) => HasUpTo(d, s \o m, b)
<1> DEFINE y == s \o m
<1>0. n \in Int
  BY SMTT(30)
<1>1. /\ y \in Seq(ByteSet) /\ Len(s) \in Nat /\ MessageSize \in Nat /\ Len(y) = Len(s) + MessageSize
      /\ \A i \in 1 .. Len(s) : y[i] = s[i]
      /\ \A j \in 1 .. MessageSize : y[Len(s) + j][1] = c /\ y[Len(s) + j][2] = n + j
  BY <1>0, MessagePut, SMTT(30)
<1>2. \A k \in 0 .. MessageSize : NumbersOf(c, y, Len(s) + k) = 1 .. n + k
  BY NumbersOn, SMTT(30)
<1>3. \A d : \A i \in 0 .. Len(s) : NumbersOf(d, y, i) = NumbersOf(d, s, i)
  BY <1>0, NumbersBefore
<1>4. \A d : d # c => NumbersOf(d, y, Len(y)) = NumbersOf(d, s, Len(s))
  BY <1>0, NumbersOther
<1> HIDE DEF y
<1>5. ASSUME InOrder(s), NEW i \in 1 .. Len(y) PROVE NumbersOf(y[i][1], y, i - 1) = 1 .. (y[i][2] - 1)
  <2>1. CASE i \in 1 .. Len(s)
    <3>1. i - 1 \in 0 .. Len(s)
      BY <1>1, <2>1, SMTT(30)
    <3>2. NumbersOf(y[i][1], y, i - 1) = NumbersOf(s[i][1], s, i - 1) /\ y[i] = s[i]
      BY <1>1, <1>3, <2>1, <3>1
    <3>3. NumbersOf(s[i][1], s, i - 1) = 1 .. (s[i][2] - 1)
      BY <1>5, <2>1 DEF InOrder
    <3> QED  BY <3>2, <3>3
  <2>2. CASE i \notin 1 .. Len(s)
    <3> DEFINE k == i - Len(s)
    <3>1. k \in 1 .. MessageSize /\ Len(s) + k = i /\ k - 1 \in 0 .. MessageSize /\ i - 1 = Len(s) + (k - 1)
          /\ (n + k) - 1 = n + (k - 1)
      BY <1>1, <1>5, <2>2, SMTT(30)
    <3> HIDE DEF k
    <3>2. y[i][1] = c /\ y[i][2] = n + k
      BY <1>1, <3>1
    <3> QED  BY <1>2, <3>1, <3>2
  <2> QED  BY <2>1, <2>2
<1>6. HasUpTo(c, y, n + MessageSize)
  <2>1. MessageSize \in 0 .. MessageSize
    BY <1>1, SMTT(30)
  <2> QED  BY <1>1, <1>2, <2>1 DEF HasUpTo
<1>7. \A d, b : d # c /\ HasUpTo(d, s, b) => HasUpTo(d, y, b)
  BY <1>4 DEF HasUpTo
<1>8. InOrder(s) => InOrder(y)
  BY <1>5 DEF InOrder
<1> QED  BY <1>1, <1>6, <1>7, <1>8 DEF y

------------------------------------------------------------------------------
(* Messages in the queue of functors. *)

\* The first byte of a message tells its caller and its place.
LEMMA MessageTypes ==
  ASSUME NEW m, NEW c, NEW n \in Int, IsMessage(m, c, n)
  PROVE  m[1][1] = c /\ m[1][2] - 1 = n /\ MessageSize \in Nat /\ MessageSize > 0 /\ m # <<>>
<1>1. MessageSize \in Nat /\ 1 \in 1 .. MessageSize /\ MessageSize > 0
  BY SizesAssumption, SMTT(30)
<1>2. m[1] = <<c, n + 1>> /\ 1 \in DOMAIN m
  BY <1>1 DEF IsMessage
<1>3. <<c, n + 1>>[1] = c /\ <<c, n + 1>>[2] - 1 = n
  BY SMTT(30)
<1>4. 1 \notin DOMAIN <<>>
  BY SMTT(30)
<1> QED  BY <1>1, <1>2, <1>3, <1>4

\* A queued SendInLoop() carries a message of another thread than the loop's.
LEMMA FollowsTypes ==
  ASSUME NEW q, Messages(q), NEW i \in DOMAIN q, NEW c, IsSend(q[i], c)
  PROVE  Before(q[i]) \in Int /\ c \in Threads /\ IsMessage(q[i].bytes, c, Before(q[i]))
<1>1. PICK t \in Threads, n \in Int : IsMessage(q[i].bytes, t, n)
  BY DEF Messages, IsSend
<1>2. q[i].bytes[1][1] = t /\ Before(q[i]) = n
  BY <1>1, MessageTypes DEF Before
<1> QED  BY <1>1, <1>2 DEF IsSend

\* Queuing a functor that is no SendInLoop() leaves the queued messages as they are.
LEMMA FollowsSame ==
  ASSUME NEW q \in Seq(FunctorSet), Messages(q), NEW f \in FunctorSet, f.op # "SendInLoop"
  PROVE  /\ Messages(Append(q, f))
         /\ \A c, b, e : Follows(q, c, b, e) => Follows(Append(q, f), c, b, e)
<1> DEFINE r == Append(q, f)
           k == Len(q) + 1
<1>1. DOMAIN r = DOMAIN q \cup {k} /\ k \notin DOMAIN q /\ r[k] = f /\ \A i \in DOMAIN q : r[i] = q[i]
  <2>1. /\ DOMAIN r = 1 .. (Len(q) + 1) /\ DOMAIN q = 1 .. Len(q) /\ Len(q) \in Nat
        /\ \A i \in 1 .. Len(q) : r[i] = q[i]
        /\ r[Len(q) + 1] = f
    BY SMTT(30)
  <2> QED  BY <2>1, SMTT(30)
<1> HIDE DEF r, k
<1>2. Messages(r)
  BY <1>1 DEF Messages
<1>3. \A i, c : i \in DOMAIN r /\ IsSend(r[i], c) <=> i \in DOMAIN q /\ IsSend(q[i], c)
  BY <1>1 DEF IsSend
<1>4. ASSUME NEW c, NEW b, NEW e, Follows(q, c, b, e) PROVE Follows(r, c, b, e)
  BY <1>1, <1>3, <1>4 DEF Follows
<1> QED  BY <1>2, <1>4 DEF r

\* A Send() of another thread that hands in its message puts it behind the messages
\* of that thread.
LEMMA FollowsQueue ==
  ASSUME NEW q \in Seq(FunctorSet), Messages(q), NEW f \in FunctorSet, f.op = "SendInLoop",
         NEW t \in Threads, NEW n \in Int, IsMessage(f.bytes, t, n)
  PROVE  /\ Messages(Append(q, f))
         /\ \A b \in Int : Follows(q, t, b, n) => Follows(Append(q, f), t, b, n + MessageSize)
         /\ \A c, b, e : c # t /\ Follows(q, c, b, e) => Follows(Append(q, f), c, b, e)
<1> DEFINE r == Append(q, f)
           k == Len(q) + 1
<1>1. /\ DOMAIN r = DOMAIN q \cup {k} /\ k \notin DOMAIN q /\ r[k] = f /\ \A i \in DOMAIN q : r[i] = q[i]
      /\ \A i \in DOMAIN q : i \in Int /\ i < k
      /\ k \in Int
  <2>1. /\ DOMAIN r = 1 .. (Len(q) + 1) /\ DOMAIN q = 1 .. Len(q) /\ Len(q) \in Nat
        /\ \A i \in 1 .. Len(q) : r[i] = q[i]
        /\ r[Len(q) + 1] = f
    BY SMTT(30)
  <2> QED  BY <2>1, SMTT(30)
<1> HIDE DEF r, k
<1>2. Messages(r)
  BY <1>1 DEF Messages
<1>3. \A c : IsSend(f, c) <=> c = t
  BY MessageTypes DEF IsSend
<1>4. Before(f) = n /\ MessageSize \in Nat /\ MessageSize > 0
  BY MessageTypes DEF Before
<1>5. ASSUME NEW c, NEW b, NEW e, c # t, Follows(q, c, b, e) PROVE Follows(r, c, b, e)
  <2>1. \A i : i \in DOMAIN r /\ IsSend(r[i], c) <=> i \in DOMAIN q /\ IsSend(q[i], c)
    BY <1>1, <1>3, <1>5
  <2> QED  BY <1>1, <1>5, <2>1 DEF Follows
<1>6. ASSUME NEW b \in Int, Follows(q, t, b, n) PROVE Follows(r, t, b, n + MessageSize)
  <2>0. \A i \in DOMAIN q : IsSend(q[i], t) => Before(q[i]) \in Int
    BY FollowsTypes
  <2>1. \A i \in DOMAIN q : IsSend(q[i], t) => b <= Before(q[i]) /\ Before(q[i]) + MessageSize <= n
    BY <1>6 DEF Follows
  <2>2. b <= n
    BY <1>6 DEF Follows
  <2>3. ASSUME NEW i \in DOMAIN r, IsSend(r[i], t)
        PROVE  b <= Before(r[i]) /\ Before(r[i]) + MessageSize <= n + MessageSize
    <3>1. CASE i = k
      BY <1>1, <1>4, <2>2, <3>1, SMTT(30)
    <3>2. CASE i \in DOMAIN q
      <4>1. r[i] = q[i] /\ IsSend(q[i], t)
        BY <1>1, <2>3, <3>2
      <4>2. Before(q[i]) \in Int /\ b <= Before(q[i]) /\ Before(q[i]) + MessageSize <= n
        BY <2>0, <2>1, <3>2, <4>1
      <4> QED  BY <1>4, <4>1, <4>2, SMTT(30)
    <3> QED  BY <1>1, <2>3, <3>1, <3>2
  <2>4. ASSUME NEW i \in DOMAIN r, NEW j \in DOMAIN r, i < j, IsSend(r[i], t), IsSend(r[j], t)
        PROVE  Before(r[i]) + MessageSize <= Before(r[j])
    <3>1. i # k /\ i \in DOMAIN q /\ r[i] = q[i]
      <4>1. i # k
        BY <1>1, <2>4, SMTT(30)
      <4> QED  BY <1>1, <2>4, <4>1
    <3>2. CASE j = k
      BY <1>1, <1>4, <2>1, <2>4, <3>1, <3>2
    <3>3. CASE j # k
      BY <1>1, <1>6, <2>4, <3>1, <3>3 DEF Follows
    <3> QED  BY <3>2, <3>3
  <2>5. ASSUME NEW x \in Int, b < x, x <= n + MessageSize
        PROVE  \E i \in DOMAIN r : IsSend(r[i], t) /\ Before(r[i]) < x /\ x <= Before(r[i]) + MessageSize
    <3>1. CASE x <= n
      BY <1>1, <1>6, <2>5, <3>1 DEF Follows
    <3>2. CASE n < x
      BY <1>1, <1>3, <1>4, <2>5, <3>2
    <3> QED  BY <2>5, <3>1, <3>2, SMTT(30)
  <2>6. b <= n + MessageSize
    BY <1>4, <2>2, SMTT(30)
  <2> QED  BY <2>3, <2>4, <2>5, <2>6 DEF Follows
<1> QED  BY <1>2, <1>5, <1>6 DEF r

\* The first functor of the queue, when it is a message of c, is the next one of c.
LEMMA FollowsTail ==
  ASSUME NEW q \in Seq(FunctorSet), Messages(q), q # <<>>
  PROVE  /\ Messages(Tail(q))
         /\ \A c, b, e : ~IsSend(Head(q), c) /\ Follows(q, c, b, e) => Follows(Tail(q), c, b, e)
         /\ \A c : \A b, e \in Int : IsSend(Head(q), c) /\ Follows(q, c, b, e) =>
              Before(Head(q)) = b /\ Follows(Tail(q), c, b + MessageSize, e)
<1> DEFINE r == Tail(q)
<1>1. /\ r \in Seq(FunctorSet) /\ Head(q) = q[1]
      /\ 1 \in DOMAIN q
      /\ \A i \in DOMAIN r : i + 1 \in DOMAIN q /\ r[i] = q[i + 1] /\ i \in Int /\ 1 < i + 1
      /\ \A i \in DOMAIN q : i # 1 => i - 1 \in DOMAIN r /\ r[i - 1] = q[i] /\ i \in Int /\ 1 < i
      /\ \A i, j \in DOMAIN r : i < j => i + 1 < j + 1
  <2>1. /\ Head(q) = q[1] /\ DOMAIN q = 1 .. Len(q) /\ Len(q) \in Nat /\ Len(q) > 0
        /\ r \in Seq(FunctorSet) /\ DOMAIN r = 1 .. (Len(q) - 1) /\ \A i \in 1 .. Len(q) - 1 : r[i] = q[i + 1]
    BY SMTT(30)
  <2> HIDE DEF r
  <2> QED  BY <2>1, SMTT(30)
<1> HIDE DEF r
<1>2. Messages(r)
  BY <1>1 DEF Messages
<1>3. MessageSize \in Nat /\ MessageSize > 0
  BY SizesAssumption, SMTT(30)
<1>4. ASSUME NEW c, NEW b, NEW e, ~IsSend(Head(q), c), Follows(q, c, b, e) PROVE Follows(r, c, b, e)
  <2>1. ASSUME NEW x \in Int, b < x, x <= e
        PROVE  \E i \in DOMAIN r : IsSend(r[i], c) /\ Before(r[i]) < x /\ x <= Before(r[i]) + MessageSize
    <3>1. PICK i \in DOMAIN q : IsSend(q[i], c) /\ Before(q[i]) < x /\ x <= Before(q[i]) + MessageSize
      BY <1>4, <2>1 DEF Follows
    <3>2. i - 1 \in DOMAIN r /\ r[i - 1] = q[i]
      BY <1>1, <1>4, <3>1
    <3> QED  BY <3>1, <3>2
  <2>2. \A i \in DOMAIN r : IsSend(r[i], c) => b <= Before(r[i]) /\ Before(r[i]) + MessageSize <= e
    BY <1>1, <1>4 DEF Follows
  <2>3. ASSUME NEW i \in DOMAIN r, NEW j \in DOMAIN r, i < j, IsSend(r[i], c), IsSend(r[j], c)
        PROVE  Before(r[i]) + MessageSize <= Before(r[j])
    BY <1>1, <1>4, <2>3 DEF Follows
  <2> QED  BY <1>4, <2>1, <2>2, <2>3 DEF Follows
<1>5. ASSUME NEW c, NEW b \in Int, NEW e \in Int, IsSend(Head(q), c), Follows(q, c, b, e)
      PROVE  Before(Head(q)) = b /\ Follows(r, c, b + MessageSize, e)
  <2>0. \A i \in DOMAIN q : IsSend(q[i], c) => Before(q[i]) \in Int
    BY FollowsTypes
  <2>1. \A i \in DOMAIN q : IsSend(q[i], c) => b <= Before(q[i]) /\ Before(q[i]) + MessageSize <= e
    BY <1>5 DEF Follows
  <2>2. \A i \in DOMAIN q : IsSend(q[i], c) /\ i # 1 => Before(q[1]) + MessageSize <= Before(q[i])
    BY <1>1, <1>5 DEF Follows
  <2>3. IsSend(q[1], c) /\ Before(q[1]) \in Int /\ b <= Before(q[1]) /\ Before(q[1]) + MessageSize <= e
    BY <1>1, <1>5, <2>0, <2>1
  <2>4. Before(q[1]) = b
    <3>1. b + 1 \in Int /\ b < b + 1 /\ b + 1 <= e
      BY <1>3, <2>3, SMTT(30)
    <3>2. PICK i \in DOMAIN q : IsSend(q[i], c) /\ Before(q[i]) < b + 1 /\ b + 1 <= Before(q[i]) + MessageSize
      BY <1>5, <3>1 DEF Follows
    <3>3. Before(q[i]) \in Int /\ b <= Before(q[i])
      BY <2>0, <2>1, <3>2
    <3>4. CASE i = 1
      BY <3>2, <3>3, <3>4, SMTT(30)
    <3>5. CASE i # 1
      <4>1. Before(q[1]) + MessageSize <= Before(q[i])
        BY <2>2, <3>2, <3>5
      <4> QED  BY <1>3, <2>3, <3>2, <3>3, <4>1, SMTT(30)
    <3> QED  BY <3>4, <3>5
  <2>5. ASSUME NEW i \in DOMAIN r, IsSend(r[i], c)
        PROVE  b + MessageSize <= Before(r[i]) /\ Before(r[i]) + MessageSize <= e
    <3>1. i + 1 \in DOMAIN q /\ r[i] = q[i + 1] /\ i + 1 # 1
      BY <1>1, SMTT(30)
    <3> QED  BY <2>1, <2>2, <2>4, <2>5, <3>1
  <2>6. ASSUME NEW i \in DOMAIN r, NEW j \in DOMAIN r, i < j, IsSend(r[i], c), IsSend(r[j], c)
        PROVE  Before(r[i]) + MessageSize <= Before(r[j])
    BY <1>1, <1>5, <2>6 DEF Follows
  <2>7. ASSUME NEW x \in Int, b + MessageSize < x, x <= e
        PROVE  \E i \in DOMAIN r : IsSend(r[i], c) /\ Before(r[i]) < x /\ x <= Before(r[i]) + MessageSize
    <3>1. b < x
      BY <1>3, <2>7, SMTT(30)
    <3>2. PICK i \in DOMAIN q : IsSend(q[i], c) /\ Before(q[i]) < x /\ x <= Before(q[i]) + MessageSize
      BY <1>5, <2>7, <3>1 DEF Follows
    <3>3. i # 1
      <4> SUFFICES ASSUME i = 1 PROVE FALSE
        OBVIOUS
      <4>1. x <= b + MessageSize
        BY <2>4, <3>2
      <4> QED  BY <1>3, <2>7, <4>1, SMTT(30)
    <3>4. i - 1 \in DOMAIN r /\ r[i - 1] = q[i]
      BY <1>1, <3>3
    <3> QED  BY <3>2, <3>4
  <2>8. b + MessageSize <= e
    BY <2>3, <2>4
  <2> QED  BY <1>1, <2>4, <2>5, <2>6, <2>7, <2>8 DEF Follows
<1> QED  BY <1>2, <1>4, <1>5 DEF r

------------------------------------------------------------------------------
(* The data invariant: what each step does to the bytes. *)

\* A step that leaves the stream, the messages queued and what was sent as they are
\* keeps the stream complete.
LEMMA QuietData ==
  ASSUME pending \in Seq(FunctorSet), Messages(pending), DataInv,
         Stream' = Stream, QuietQueue, StaysDead, Refused => Refused',
         \A c \in Callers : Passed(c)' = Passed(c)
  PROVE  Messages(pending') /\ DataInv'
<1>1. /\ Messages(pending')
      /\ \A c, b, e : Follows(pending, c, b, e) => Follows(pending', c, b, e)
  <2>1. CASE pending' = pending
    BY <2>1
  <2>2. CASE pending # <<>> /\ Head(pending).op # "SendInLoop" /\ pending' = Tail(pending)
    <3>1. \A c : ~IsSend(Head(pending), c)
      BY <2>2 DEF IsSend
    <3> QED  BY <2>2, <3>1, FollowsTail
  <2>3. CASE \E f \in FunctorSet : f.op # "SendInLoop" /\ pending' = Append(pending, f)
    BY <2>3, FollowsSame
  <2> QED  BY <2>1, <2>2, <2>3 DEF QuietQueue
<1>2. ASSUME downs' = 0 PROVE InOrder(Stream')
  BY <1>2 DEF DataInv, StaysDead
<1>3. ASSUME downs' = 0, ~Refused', Alive', NEW c \in Callers
      PROVE  \E b \in Nat : HasUpTo(c, Stream', b) /\ Follows(pending', c, b, Passed(c)')
  <2>1. PICK b \in Nat : HasUpTo(c, Stream, b) /\ Follows(pending, c, b, Passed(c))
    BY <1>3 DEF DataInv, StaysDead
  <2> QED  BY <1>1, <2>1
<1> QED  BY <1>1, <1>2, <1>3 DEF DataInv

\* A connection whose next direct write() fails (SendInLoop() drops what it is given)
\* stays so.
LEMMA StillRefused ==
  ASSUME "write" \in events' => "write" \in events, output_buffer_' = output_buffer_, fin => fin',
         peer \in {"reset", "error"} => peer' \in {"reset", "error"}
  PROVE  Refused => Refused'
BY DEF Refused, MayWriteDirectly, WriteFails, IsWriting

\* A step that leaves the stream alone keeps what the loop's thread has sent in it.
LEMMA QuietLoop ==
  ASSUME LoopDataInv, Stream' = Stream, sent'[LoopThread] = sent[LoopThread],
         peer' \in {"open", "closed"} => peer \in {"open", "closed"},
         ~overwritten' /\ state_' # "kDisconnected" =>
           /\ ~overwritten /\ state_ # "kDisconnected"
           /\ fin' => output_buffer_' = <<>> /\ "write" \notin events'
  PROVE  LoopDataInv'
BY DEF LoopDataInv, IsWriting

\* A step that does not touch the bytes, the messages or ShutdownWrite().
LEMMA PlainData ==
  ASSUME Ctl, Data, UNCHANGED <<wire, output_buffer_, fin, sent>>, QuietQueue, KeepsSending, StaysDead,
         events' = events \/ events' = {} \/ (events' = {"read"} /\ output_buffer_ = <<>>),
         peer' \in {"open", "closed"} => peer \in {"open", "closed"},
         peer \in {"reset", "error"} => peer' \in {"reset", "error"},
         ~overwritten' /\ state_' # "kDisconnected" => ~overwritten /\ state_ # "kDisconnected"
  PROVE  Data'
<1>1. Stream' = Stream
  BY DEF Stream
<1>0. ("write" \in events' => "write" \in events) /\ output_buffer_' = output_buffer_ /\ (fin => fin')
  OBVIOUS
<1>2. Refused => Refused'
  BY <1>0, StillRefused
<1>3. \A c \in Callers : Passed(c)' = Passed(c)
  BY DEF Passed, KeepsSending
<1>4. Messages(pending') /\ DataInv'
  BY <1>1, <1>2, <1>3, QuietData DEF Ctl, TypeInv, Data
<1>5. fin /\ ~overwritten /\ state_ # "kDisconnected" => output_buffer_ = <<>> /\ "write" \notin events
  BY DEF Data, LoopDataInv, IsWriting
<1>6. LoopDataInv'
  BY <1>1, <1>5, QuietLoop DEF Data
<1>7. WritingIffOutput'
  <2>1. CASE events' = events
    BY <1>0, <2>1 DEF Data, WritingIffOutput, IsWriting
  <2>2. CASE events' = {}
    BY <2>2 DEF WritingIffOutput
  <2>3. CASE events' = {"read"} /\ output_buffer_ = <<>>
    BY <1>0, <2>3 DEF WritingIffOutput, IsWriting
  <2> QED  BY <2>1, <2>2, <2>3
<1>8. DataTypes'
  BY DEF Data, DataTypes
<1> QED  BY <1>4, <1>6, <1>7, <1>8 DEF Data

\* Running a functor revives no connection.
LEMMA StillDead ==
  ASSUME pending \in Seq(FunctorSet), UNCHANGED <<holders, revents>>, downs' = 0 => downs = 0,
         pending' = pending \/ (pending # <<>> /\ pending' = Tail(pending))
  PROVE  StaysDead
<1>1. pending' \in Seq(FunctorSet) /\ \A op : HasOp(pending', op) => HasOp(pending, op)
  BY Taken
<1>2. Alive <=> holders # {} \/ revents # {} \/ \E op \in SharedFunctors : HasOp(pending, op)
  BY AliveOps
<1>3. Alive' => holders' # {} \/ revents' # {} \/ \E op \in SharedFunctors : HasOp(pending', op)
  <2>1. DOMAIN pending' = 1 .. Len(pending')
    BY <1>1, SMTT(30)
  <2> QED  BY <2>1 DEF Alive, HasOp
<1> QED  BY <1>1, <1>2, <1>3 DEF StaysDead

\* Running a functor other than SendInLoop() takes no message off the queue.
LEMMA RunsTail ==
  ASSUME NEW op \in Ops, Runs(op), op # "SendInLoop", pending' = Tail(pending)
  PROVE  QuietQueue /\ pending # <<>>
BY DEF Runs, QuietQueue

\* ConnectEstablished(): the channel watches for input, and there is no output.
LEMMA ConnectEstablishedData ==
  ASSUME Ctl, Data, ConnectEstablished
  PROVE  Data'
<1>1. /\ UNCHANGED <<wire, output_buffer_, fin, sent, call, peer, downs, overwritten, revents>>
      /\ Runs("ConnectEstablished") /\ pending' = Tail(pending) /\ events' = {"read"} /\ state_' = "kConnected"
  BY DEF ConnectEstablished, socket
<1>2. ups = 0
  BY <1>1, Established
<1>3. output_buffer_ = <<>> /\ state_ = "kConnecting" /\ ~overwritten
  BY <1>2 DEF Ctl, NewInv
<1>4. Alive
  BY <1>1, Taken, AliveOps DEF Runs, Ctl, TypeInv, SharedFunctors
<1>5. QuietQueue
  BY <1>1, RunsTail DEF Ops
<1> QED  BY <1>1, <1>3, <1>4, <1>5, PlainData DEF KeepsSending, StaysDead

\* The functor ConnectDestroyed() touches no byte.
LEMMA RunConnectDestroyedData ==
  ASSUME Ctl, Data, RunConnectDestroyed
  PROVE  Data'
<1>1. /\ UNCHANGED <<wire, output_buffer_, fin, sent, call, peer, overwritten, revents, holders>>
      /\ Runs("ConnectDestroyed") /\ pending' = Tail(pending)
      /\ \/ state_' = "kDisconnected" /\ events' = {} /\ downs' = downs + 1
         \/ UNCHANGED <<state_, events, downs>>
  BY DEF RunConnectDestroyed, ConnectDestroyed, StillConnected, socket, owner
<1>2. downs' = 0 => downs = 0
  BY <1>1, NotZero DEF Ctl, TypeInv
<1>3. QuietQueue /\ pending # <<>>
  BY <1>1, RunsTail DEF Ops
<1>4. StaysDead
  BY <1>1, <1>2, <1>3, StillDead DEF Ctl, TypeInv
<1> QED  BY <1>1, <1>3, <1>4, PlainData DEF KeepsSending

\* The functor ForceCloseInLoop() touches no byte.
LEMMA ForceCloseInLoopData ==
  ASSUME Ctl, Data, ForceCloseInLoop
  PROVE  Data'
<1>1. /\ UNCHANGED <<wire, output_buffer_, fin, sent, call, peer, overwritten, revents, holders>>
      /\ Runs("ForceCloseInLoop") /\ pending' = Tail(pending)
      /\ \/ state_' = "kDisconnected" /\ events' = {} /\ downs' = downs + 1
         \/ UNCHANGED <<state_, events, downs>>
  BY DEF ForceCloseInLoop, HandleClose, socket
<1>2. downs' = 0 => downs = 0
  BY <1>1, NotZero DEF Ctl, TypeInv
<1>3. QuietQueue /\ pending # <<>>
  BY <1>1, RunsTail DEF Ops
<1>4. StaysDead
  BY <1>1, <1>2, <1>3, StillDead DEF Ctl, TypeInv
<1> QED  BY <1>1, <1>3, <1>4, PlainData DEF KeepsSending

\* The functors of the callbacks touch no byte.
LEMMA NotifyData ==
  ASSUME Ctl, Data, Notify
  PROVE  Data'
<1>1. /\ UNCHANGED <<wire, output_buffer_, fin, sent, call, peer, overwritten, revents, holders, state_, events, downs>>
      /\ Runs("Notify") /\ pending' = Tail(pending)
  BY DEF Notify, channel, owner, socket, history
<1>2. QuietQueue /\ pending # <<>>
  BY <1>1, RunsTail DEF Ops
<1>3. StaysDead
  BY <1>1, <1>2, StillDead DEF Ctl, TypeInv
<1> QED  BY <1>1, <1>2, <1>3, PlainData DEF KeepsSending

\* ShutdownInLoop() on an open connection: the channel is not writing, so nothing is
\* left in output_buffer_.
LEMMA ShutdownData ==
  ASSUME Ctl, Data, ups = 1, UNCHANGED <<wire, output_buffer_, sent, call, peer, events, overwritten, downs>>,
         QuietQueue, StaysDead, fin => fin', fin' => fin \/ ~IsWriting,
         state_' # "kDisconnected" => state_ # "kDisconnected"
  PROVE  Data'
<1>1. Stream' = Stream
  BY DEF Stream
<1>2. Refused => Refused'
  BY StillRefused
<1>3. \A c \in Callers : Passed(c)' = Passed(c)
  BY DEF Passed
<1>4. Messages(pending') /\ DataInv'
  BY <1>1, <1>2, <1>3, QuietData DEF Ctl, TypeInv, Data
<1>5. fin' /\ ~overwritten /\ state_ # "kDisconnected" => output_buffer_ = <<>> /\ "write" \notin events
  <2>1. ~overwritten /\ state_ # "kDisconnected" => "read" \in events
    BY DEF Ctl, DownInv
  <2>2. fin /\ ~overwritten /\ state_ # "kDisconnected" => output_buffer_ = <<>> /\ "write" \notin events
    BY DEF Data, LoopDataInv, IsWriting
  <2> QED  BY <2>1, <2>2 DEF Data, WritingIffOutput, IsWriting
<1>6. LoopDataInv'
  BY <1>1, <1>5, QuietLoop DEF Data
<1>7. WritingIffOutput' /\ DataTypes'
  BY DEF Data, WritingIffOutput, IsWriting, DataTypes
<1> QED  BY <1>4, <1>6, <1>7 DEF Data

\* Shutdown() on the loop's thread, and the functor ShutdownInLoop().
LEMMA ShutdownsData ==
  ASSUME Ctl, Data, Shutdown \/ RunShutdownInLoop
  PROVE  Data'
<1>1. CASE Shutdown
  <2>1. /\ UNCHANGED <<wire, output_buffer_, sent, call, peer, events, overwritten, downs, holders, revents, pending>>
        /\ UserCode /\ state_ = "kConnected" /\ (fin => fin') /\ (fin' => fin \/ ~IsWriting)
    BY <1>1 DEF Shutdown, channel, owner, history, ShutdownInLoop, IsWriting
  <2>2. ups = 1
    BY <2>1, Established
  <2>3. QuietQueue /\ StaysDead
    BY <2>1, StillDead DEF QuietQueue, Ctl, TypeInv
  <2> QED  BY <2>1, <2>2, <2>3, ShutdownData
<1>2. CASE RunShutdownInLoop
  <2>1. /\ UNCHANGED <<wire, output_buffer_, sent, call, peer, events, overwritten, downs, holders, revents, state_>>
        /\ Runs("ShutdownInLoop") /\ pending' = Tail(pending)
        /\ (fin => fin') /\ (fin' => fin \/ ~IsWriting)
    BY <1>2 DEF RunShutdownInLoop, channel, owner, history, ShutdownInLoop, IsWriting
  <2>2. ups = 1
    BY <2>1, Established DEF Ops
  <2>3. QuietQueue /\ pending # <<>>
    BY <2>1, RunsTail DEF Ops
  <2>4. StaysDead
    BY <2>1, <2>3, StillDead DEF Ctl, TypeInv
  <2> QED  BY <2>1, <2>2, <2>3, <2>4, ShutdownData
<1> QED  BY <1>1, <1>2

\* ForceClose() and ForceCloseWithDelay() on the loop's thread, and the latter's timer.
LEMMA ForceCloseData ==
  ASSUME Ctl, Data, ForceClose \/ ForceCloseWithDelay \/ DelayExpires
  PROVE  Data'
<1>1. /\ UNCHANGED <<wire, output_buffer_, fin, sent, call, peer, events, overwritten, downs, holders, revents>>
      /\ \/ pending' = pending /\ state_' = state_
         \/ Alive /\ state_ \in {"kConnected", "kDisconnecting"}
            /\ (pending' = pending \/ pending' = Append(pending, Functor("ForceCloseInLoop")))
  <2>1. CASE ForceClose
    BY <2>1 DEF ForceClose, channel, owner, history, socket, UserCode
  <2>2. CASE ForceCloseWithDelay
    BY <2>2 DEF ForceCloseWithDelay, channel, owner, history, socket, UserCode
  <2>3. CASE DelayExpires
    BY <2>3 DEF DelayExpires, channel, owner, history, socket
  <2> QED  BY <2>1, <2>2, <2>3
<1>2. Functor("ForceCloseInLoop") \in FunctorSet /\ Functor("ForceCloseInLoop").op = "ForceCloseInLoop"
  BY FunctorTypes DEF Ops
<1>3. QuietQueue
  BY <1>1, <1>2 DEF QuietQueue
<1>4. StaysDead
  BY <1>1, StillDead DEF StaysDead, Ctl, TypeInv
<1>5. state_' # "kDisconnected" => state_ # "kDisconnected"
  BY <1>1
<1> QED  BY <1>1, <1>3, <1>4, <1>5, PlainData DEF KeepsSending

\* Poll(), HandleClose(), HandleError() and HandleRead() touch no byte.
LEMMA HandleCloseData ==
  ASSUME Ctl, Data, HandleHangup \/ HandleError \/ HandleRead \/ PollReturns
  PROVE  Data'
<1>1. /\ UNCHANGED <<wire, output_buffer_, fin, sent, call, overwritten, pending>>
      /\ Alive
      /\ peer' \in {"open", "closed"} => peer \in {"open", "closed"}
      /\ peer \in {"reset", "error"} => peer' \in {"reset", "error"}
      /\ \/ state_' = "kDisconnected" /\ events' = {} /\ downs' = downs + 1
         \/ UNCHANGED <<state_, events, downs>>
  <2>1. CASE HandleHangup
    BY <2>1 DEF HandleHangup, HandleClose, socket, Alive
  <2>2. CASE HandleError
    BY <2>2 DEF HandleError, ClearError, history, Alive
  <2>3. CASE HandleRead
    BY <2>3 DEF HandleRead, HandleClose, ClearError, Alive
  <2>4. CASE PollReturns
    BY <2>4 DEF PollReturns, socket, history
  <2> QED  BY <2>1, <2>2, <2>3, <2>4
<1>2. downs' = 0 => downs = 0
  BY <1>1, NotZero DEF Ctl, TypeInv
<1>3. QuietQueue /\ StaysDead
  BY <1>1, <1>2 DEF QuietQueue, StaysDead
<1> QED  BY <1>1, <1>3, PlainData DEF KeepsSending

\* RemoveConnectionInLoop() and ~TcpServer() touch no byte.
LEMMA OwnerData ==
  ASSUME Ctl, Data, OwnerRemoves \/ OwnerDestructs
  PROVE  Data'
<1>1. /\ UNCHANGED <<wire, output_buffer_, fin, sent, call, overwritten, peer>>
      /\ pending' = pending \/ pending' = Append(pending, Functor("ConnectDestroyed"))
      /\ downs > 0 \/ holders # {}
      /\ \/ state_' = "kDisconnected" /\ events' = {} /\ downs' = downs + 1
         \/ UNCHANGED <<state_, events, downs>>
  <2>1. CASE OwnerRemoves
    BY <2>1 DEF OwnerRemoves, channel, socket, history, Ctl, DownInv
  <2>2. CASE OwnerDestructs
    BY <2>2 DEF OwnerDestructs, ConnectDestroyed, StillConnected, socket
  <2> QED  BY <2>1, <2>2
<1>2. downs' = 0 => downs = 0
  BY <1>1, NotZero DEF Ctl, TypeInv
<1>3. downs' = 0 => Alive
  BY <1>1, <1>2, Numbers DEF Alive
<1>4. Functor("ConnectDestroyed") \in FunctorSet /\ Functor("ConnectDestroyed").op = "ConnectDestroyed"
  BY FunctorTypes DEF Ops
<1>5. QuietQueue /\ StaysDead
  BY <1>1, <1>2, <1>3, <1>4 DEF QuietQueue, StaysDead
<1> QED  BY <1>1, <1>5, PlainData DEF KeepsSending

\* The peer may reset the connection, and never repairs it.
LEMMA PeerData ==
  ASSUME Ctl, Data, PeerActs \/ UNCHANGED vars
  PROVE  Data'
<1>1. /\ UNCHANGED <<state_, wire, output_buffer_, fin, sent, call, overwritten, pending, events, downs, holders, revents>>
      /\ peer' \in {"open", "closed"} => peer \in {"open", "closed"}
      /\ peer \in {"reset", "error"} => peer' \in {"reset", "error"}
  BY DEF PeerActs, vars, channel, owner, socket, history
<1>2. QuietQueue /\ StaysDead
  BY <1>1, StillDead DEF QuietQueue, Ctl, TypeInv
<1> QED  BY <1>1, <1>2, PlainData DEF KeepsSending

\* A thread lets go of its TcpConnectionPtr.
LEMMA ReleaseData ==
  ASSUME Ctl, Data, NEW t \in Threads, Release(t)
  PROVE  Data'
<1>1. /\ UNCHANGED <<state_, wire, output_buffer_, fin, sent, call, overwritten, pending, events, downs, peer>>
      /\ t \in holders
  BY DEF Release, channel, socket, history
<1>2. QuietQueue /\ StaysDead
  BY <1>1 DEF QuietQueue, StaysDead, Alive
<1> QED  BY <1>1, <1>2, PlainData DEF KeepsSending

\* Another thread's SetState(kDisconnecting).
LEMMA SetStateData ==
  ASSUME Ctl, Data, NEW t \in Threads, SetState(t)
  PROVE  Data'
<1>1. /\ UNCHANGED <<wire, output_buffer_, fin, sent, pending, events, downs, peer, holders, revents>>
      /\ (overwritten' <=> overwritten \/ state_ = "kDisconnected")
  BY DEF SetState, channel, owner, socket
<1>2. KeepsSending
  BY SetsState DEF KeepsSending
<1>3. QuietQueue /\ StaysDead
  BY <1>1, StillDead DEF QuietQueue, Ctl, TypeInv
<1> QED  BY <1>1, <1>2, <1>3, PlainData

\* Another thread's call tests state_: a Send() has its bytes accepted, not yet queued.
LEMMA TestStateData ==
  ASSUME Ctl, Data, NEW t \in Threads, NEW method \in ThreadCalls, TestState(t, method)
  PROVE  Data'
<1>1. /\ UNCHANGED <<state_, wire, output_buffer_, fin, overwritten, pending, events, downs, peer, holders, revents>>
      /\ call[t][1] = "none"
      /\ call' = [call EXCEPT ![t] = <<method, IF method = "Send" THEN "queue" ELSE "set_state">>]
      /\ IF method = "Send" THEN CountSent(t) ELSE UNCHANGED sent
  BY DEF TestState, channel, owner, socket
<1>2. QuietQueue /\ StaysDead
  BY <1>1, StillDead DEF QuietQueue, Ctl, TypeInv
<1>3. call'[t][1] = method /\ \A u \in Threads : u # t => call'[u] = call[u]
  <2>1. \A a, b : <<a, b>>[1] = a
    BY SMTT(30)
  <2> QED  BY <1>1, <2>1 DEF Ctl, TypeInv
<1>4. CASE method # "Send"
  BY <1>1, <1>2, <1>3, <1>4, PlainData DEF KeepsSending
<1>5. CASE method = "Send"
  <2>1. sent' = [sent EXCEPT ![t] = sent[t] + MessageSize] /\ sent \in [Callers -> Nat] /\ t \in Callers
        /\ LoopThread \in Callers /\ LoopThread # t
    BY <1>1, <1>5, CallersAssumption DEF CountSent, Data, DataTypes, Callers
  <2>2. sent[t] \in Nat /\ MessageSize \in Nat /\ sent[t] + MessageSize \in Nat
        /\ (sent[t] + MessageSize) - MessageSize = sent[t]
    <3>1. sent[t] \in Nat
      BY <2>1
    <3> QED  BY <3>1, SizesAssumption, SMTT(30)
  <2>3. sent' \in [Callers -> Nat] /\ sent'[t] = sent[t] + MessageSize /\ \A c \in Callers : c # t => sent'[c] = sent[c]
    BY <2>1, <2>2
  <2>4. \A c \in Callers : Passed(c)' = Passed(c)
    BY <1>1, <1>3, <1>5, <2>2, <2>3 DEF Passed
  <2>5. Stream' = Stream /\ (Refused => Refused')
    BY <1>1, StillRefused DEF Stream
  <2>6. Messages(pending') /\ DataInv'
    BY <1>2, <2>4, <2>5, QuietData DEF Ctl, TypeInv, Data
  <2>7. LoopDataInv'
    <3>1. fin /\ ~overwritten /\ state_ # "kDisconnected" => output_buffer_ = <<>> /\ "write" \notin events
      BY DEF Data, LoopDataInv, IsWriting
    <3> QED  BY <1>1, <2>1, <2>3, <2>5, <3>1, QuietLoop DEF Data
  <2>8. WritingIffOutput' /\ DataTypes'
    BY <1>1, <2>3 DEF Data, WritingIffOutput, IsWriting, DataTypes
  <2> QED  BY <2>6, <2>7, <2>8 DEF Data
<1> QED  BY <1>4, <1>5

\* Another thread's call hands its functor in; a message comes behind the earlier ones.
LEMMA QueueData ==
  ASSUME Ctl, Data, NEW t \in Threads, Queue(t)
  PROVE  Data'
<1>1. /\ UNCHANGED <<state_, wire, output_buffer_, fin, sent, overwritten, events, downs, peer, holders, revents>>
      /\ call[t][2] = "queue" /\ call' = [call EXCEPT ![t] = <<"none", "none">>]
  BY DEF Queue, channel, owner, socket, history
<1>2. call[t][1] \in {"Send", "Shutdown", "ForceClose"}
  BY <1>1, Pairs DEF Ctl, TypeInv
<1>3. sent \in [Callers -> Nat] /\ t \in Callers /\ sent[t] \in Nat /\ MessageSize \in Nat
  BY SizesAssumption DEF Data, DataTypes, Callers
<1>4. PICK f \in FunctorSet :
         /\ pending' = Append(pending, f)
         /\ f.op \in {"SendInLoop", "ShutdownInLoop", "ForceCloseInLoop"}
         /\ f.op = "SendInLoop" <=> call[t][1] = "Send"
         /\ f.op = "SendInLoop" => f.bytes = [i \in 1 .. MessageSize |-> <<t, sent[t] - MessageSize + i>>]
  BY <1>2, <1>3, QueuedFunctor
<1>5. call'[t][1] = "none" /\ \A u \in Threads : u # t => call'[u] = call[u]
  BY <1>1, Pairs, Calling DEF Ctl, TypeInv
<1>6. Alive
  BY <1>2 DEF Ctl, CallInv, Alive
<1>7. StaysDead
  BY <1>1, <1>6 DEF StaysDead
<1>8. CASE f.op # "SendInLoop"
  BY <1>1, <1>4, <1>5, <1>7, <1>8, PlainData DEF KeepsSending, QuietQueue
<1>9. CASE f.op = "SendInLoop"
  <2> DEFINE n == sent[t] - MessageSize
  <2>1. n \in Int /\ n + MessageSize = sent[t]
    BY <1>3, SMTT(30)
  <2>2. IsMessage(f.bytes, t, n)
    BY <1>4, <1>9 DEF IsMessage
  <2>3. Passed(t) = n /\ Passed(t)' = n + MessageSize
    BY <1>1, <1>4, <1>5, <1>9, <2>1 DEF Passed
  <2>4. \A c \in Callers : c # t => Passed(c)' = Passed(c)
    BY <1>1, <1>5 DEF Passed
  <2> HIDE DEF n
  <2>5. /\ Messages(pending')
        /\ \A b \in Int : Follows(pending, t, b, n) => Follows(pending', t, b, n + MessageSize)
        /\ \A c, b, e : c # t /\ Follows(pending, c, b, e) => Follows(pending', c, b, e)
    BY <1>4, <1>9, <2>1, <2>2, FollowsQueue DEF Ctl, TypeInv, Data
  <2>6. Stream' = Stream /\ (Refused => Refused')
    BY <1>1, StillRefused DEF Stream
  <2>7. ASSUME downs' = 0, ~Refused', Alive', NEW c \in Callers
        PROVE  \E b \in Nat : HasUpTo(c, Stream', b) /\ Follows(pending', c, b, Passed(c)')
    <3>1. PICK b \in Nat : HasUpTo(c, Stream, b) /\ Follows(pending, c, b, Passed(c))
      BY <1>7, <2>6, <2>7 DEF Data, DataInv, StaysDead
    <3>2. b \in Int
      BY SMTT(30)
    <3>3. CASE c = t
      BY <2>3, <2>5, <2>6, <3>1, <3>2, <3>3
    <3>4. CASE c # t
      BY <2>4, <2>5, <2>6, <3>1, <3>4
    <3> QED  BY <3>3, <3>4
  <2>8. DataInv'
    BY <1>1, <2>6, <2>7 DEF Data, DataInv
  <2>9. LoopDataInv'
    <3>1. fin /\ ~overwritten /\ state_ # "kDisconnected" => output_buffer_ = <<>> /\ "write" \notin events
      BY DEF Data, LoopDataInv, IsWriting
    <3> QED  BY <1>1, <2>6, <3>1, QuietLoop DEF Data
  <2>10. WritingIffOutput' /\ DataTypes'
    BY <1>1 DEF Data, WritingIffOutput, IsWriting, DataTypes
  <2> QED  BY <2>5, <2>8, <2>9, <2>10 DEF Data
<1> QED  BY <1>8, <1>9

\* With no message of c queued the stream is complete exactly when it holds all that
\* c has handed in.
LEMMA NothingQueued ==
  ASSUME NEW q, NEW c, NEW b \in Int, NEW e \in Int, \A i \in DOMAIN q : ~IsSend(q[i], c)
  PROVE  Follows(q, c, b, e) <=> b = e
<1>1. b = e => b <= e /\ \A x \in Int : ~(b < x /\ x <= e)
  BY SMTT(30)
<1>2. (b < e /\ e <= e) \/ ~(b <= e) \/ b = e
  BY SMTT(30)
<1> QED  BY <1>1, <1>2 DEF Follows

\* What SendInLoop() does to the bytes: nothing on a connection that is kDisconnected
\* or whose write() fails, and otherwise they come at the end of the stream, in the
\* kernel or in output_buffer_, with the channel watching exactly when some are left.
LEMMA SendEffect ==
  ASSUME DataTypes, WritingIffOutput, NEW bytes \in Seq(ByteSet), bytes # <<>>, NEW q, SendInLoop(bytes, q)
  PROVE  /\ wire' \in Seq(ByteSet) /\ output_buffer_' \in Seq(ByteSet)
         /\ WritingIffOutput'
         /\ pending' = q \/ pending' = Append(q, Functor("Notify"))
         /\ \/ /\ state_ = "kDisconnected" \/ Refused
               /\ UNCHANGED <<wire, output_buffer_, events>>
            \/ state_ # "kDisconnected" /\ ~Refused /\ Stream' = Stream \o bytes
<1>0. wire \in Seq(ByteSet) /\ output_buffer_ \in Seq(ByteSet)
  BY DEF DataTypes
<1>1. CASE /\ state_ = "kDisconnected" \/ (MayWriteDirectly /\ WriteFails)
           /\ pending' = q
           /\ UNCHANGED <<output_buffer_, events, registered, wire>>
  BY <1>0, <1>1 DEF Refused, WritingIffOutput, IsWriting
<1>2. CASE /\ state_ # "kDisconnected" /\ MayWriteDirectly /\ ~WriteFails
           /\ \E n \in 0..Len(bytes) :
                /\ peer = "timedout" => n = 0
                /\ wire' = wire \o SubSeq(bytes, 1, n)
                /\ IF n = Len(bytes)
                   THEN /\ pending' = Append(q, Functor("Notify"))
                        /\ UNCHANGED <<output_buffer_, events, registered>>
                   ELSE AppendOutput(SubSeq(bytes, n + 1, Len(bytes)), q)
  <2>1. PICK n \in 0 .. Len(bytes) :
                /\ wire' = wire \o SubSeq(bytes, 1, n)
                /\ IF n = Len(bytes)
                   THEN /\ pending' = Append(q, Functor("Notify"))
                        /\ UNCHANGED <<output_buffer_, events, registered>>
                   ELSE AppendOutput(SubSeq(bytes, n + 1, Len(bytes)), q)
    BY <1>2
  <2> DEFINE l == SubSeq(bytes, 1, n)
             r == SubSeq(bytes, n + 1, Len(bytes))
  <2>2. /\ r \in Seq(ByteSet) /\ wire \o l \in Seq(ByteSet) /\ (wire \o l) \o r = wire \o bytes
        /\ r = <<>> <=> n = Len(bytes)
        /\ n = Len(bytes) => l = bytes
    BY <1>0, Cut
  <2>3. output_buffer_ = <<>> /\ ~Refused /\ state_ # "kDisconnected"
    BY <1>2 DEF MayWriteDirectly, Refused
  <2>4. /\ wire' = wire \o l
        /\ \/ /\ n = Len(bytes) /\ output_buffer_' = <<>> /\ events' = events
              /\ pending' = Append(q, Functor("Notify"))
           \/ /\ n # Len(bytes) /\ output_buffer_' = <<>> \o r /\ events' = events \cup {"write"}
              /\ pending' = q \/ pending' = Append(q, Functor("Notify"))
    BY <2>1, <2>3 DEF AppendOutput
  <2> HIDE DEF l, r
  <2>5. <<>> \o r = r /\ wire \o <<>> = wire /\ wire' \o <<>> = wire'
    BY <1>0, <2>2, <2>4, ConcatEmptySeq
  <2>6. Stream' = Stream \o bytes
    BY <2>2, <2>3, <2>4, <2>5 DEF Stream
  <2>7. WritingIffOutput'
    BY <2>2, <2>3, <2>4, <2>5 DEF WritingIffOutput, IsWriting
  <2>8. output_buffer_' \in Seq(ByteSet) /\ wire' \in Seq(ByteSet)
    BY <1>0, <2>2, <2>3, <2>4, <2>5
  <2> QED  BY <2>3, <2>4, <2>6, <2>7, <2>8
<1>3. CASE /\ state_ # "kDisconnected" /\ ~MayWriteDirectly
           /\ AppendOutput(bytes, q)
           /\ UNCHANGED wire
  <2>1. /\ output_buffer_' = output_buffer_ \o bytes /\ wire' = wire /\ events' = events \cup {"write"}
        /\ pending' = q \/ pending' = Append(q, Functor("Notify"))
    BY <1>3 DEF AppendOutput
  <2>2. output_buffer_ \o bytes \in Seq(ByteSet)
    BY <1>0, ConcatProperties
  <2>3. wire \o (output_buffer_ \o bytes) = (wire \o output_buffer_) \o bytes
    BY <1>0, ConcatAssociative, SMTT(30)
  <2>4. output_buffer_ \o bytes # <<>>
    BY <1>0, ConcatEqualIffEmpty, SMTT(30)
  <2>5. WritingIffOutput'
    BY <2>1, <2>4 DEF WritingIffOutput, IsWriting
  <2>6. Stream' = Stream \o bytes
    BY <2>1, <2>3 DEF Stream
  <2> QED  BY <1>0, <1>3, <2>1, <2>2, <2>5, <2>6 DEF Refused
<1> QED  BY <1>1, <1>2, <1>3 DEF SendInLoop

\* SendInLoop() against ShutdownInLoop(): after ShutdownWrite() nothing is buffered.
LEMMA SendLoop ==
  ASSUME Data, UNCHANGED <<state_, fin, peer, overwritten>>,
         \/ /\ state_ = "kDisconnected" \/ Refused
            /\ UNCHANGED <<wire, output_buffer_, events>>
         \/ state_ # "kDisconnected" /\ ~Refused,
         state_ # "kDisconnected" /\ ~overwritten /\ peer \in {"open", "closed"} =>
           HasUpTo(LoopThread, Stream', sent'[LoopThread])
  PROVE  LoopDataInv'
<1>1. ASSUME ~overwritten, state_ # "kDisconnected", fin PROVE output_buffer_' = <<>> /\ "write" \notin events'
  <2>1. output_buffer_ = <<>> /\ ~IsWriting
    BY <1>1 DEF Data, LoopDataInv
  <2>2. Refused
    BY <1>1, <2>1 DEF Refused, MayWriteDirectly, WriteFails
  <2> QED  BY <1>1, <2>1, <2>2 DEF IsWriting
<1> QED  BY <1>1 DEF LoopDataInv, IsWriting

\* Send() on the loop's thread: its message is the next one, as none of its own are
\* queued.
LEMMA SendData ==
  ASSUME Ctl, Data, Send
  PROVE  Data'
<1> DEFINE m == Message(LoopThread)
           L == LoopThread
<1>1. /\ UNCHANGED <<state_, call, fin, peer, downs, overwritten>>
      /\ UserCode /\ state_ = "kConnected" /\ SendInLoop(m, pending)
      /\ sent' = [sent EXCEPT ![L] = sent[L] + MessageSize]
  BY DEF Send, CountSent
<1>2. L \in Callers /\ sent \in [Callers -> Nat] /\ sent[L] \in Nat /\ MessageSize \in Nat /\ L \notin Threads
  BY SizesAssumption, CallersAssumption DEF Callers, Data, DataTypes
<1>3. sent[L] \in Int /\ sent[L] + MessageSize \in Nat /\ sent[L] + MessageSize \in Int
  BY <1>2, SMTT(30)
<1>4. m \in Seq(ByteSet) /\ IsMessage(m, L, sent[L])
  <2>1. ASSUME NEW n \in Nat PROVE [i \in 1 .. MessageSize |-> <<L, n + i>>] \in Seq(ByteSet)
    <3>1. L \in Callers /\ MessageSize \in Nat
      BY <1>2
    <3> HIDE DEF L
    <3> QED  BY <3>1, SMTT(30) DEF ByteSet
  <2>2. IsMessage(m, L, sent[L])
    BY DEF Message, IsMessage
  <2> QED  BY <1>2, <2>1, <2>2 DEF Message
<1>5. m # <<>>
  BY <1>3, <1>4, MessageTypes
<1> HIDE DEF m, L
<1>6. /\ wire' \in Seq(ByteSet) /\ output_buffer_' \in Seq(ByteSet)
      /\ WritingIffOutput'
      /\ pending' = pending \/ pending' = Append(pending, Functor("Notify"))
      /\ \/ Refused /\ UNCHANGED <<wire, output_buffer_, events>>
         \/ ~Refused /\ Stream' = Stream \o m
  BY <1>1, <1>4, <1>5, SendEffect DEF Data
<1>7. sent' \in [Callers -> Nat] /\ sent'[L] = sent[L] + MessageSize /\ \A c \in Callers : c # L => sent'[c] = sent[c]
  BY <1>1, <1>2, <1>3
<1>8. DataTypes'
  BY <1>6, <1>7 DEF DataTypes
<1>9. Functor("Notify") \in FunctorSet /\ Functor("Notify").op = "Notify"
  BY FunctorTypes DEF Ops
<1>10. /\ Messages(pending')
       /\ \A c, b, e : Follows(pending, c, b, e) => Follows(pending', c, b, e)
  BY <1>6, <1>9, FollowsSame DEF Ctl, TypeInv, Data
<1>11. Stream \in Seq(ByteSet)
  BY ConcatProperties DEF Stream, Data, DataTypes
<1>12. ASSUME HasUpTo(L, Stream, sent[L])
       PROVE  /\ InOrder(Stream) => InOrder(Stream \o m)
              /\ HasUpTo(L, Stream \o m, sent[L] + MessageSize)
              /\ \A d, b : d # L /\ HasUpTo(d, Stream, b) => HasUpTo(d, Stream \o m, b)
  <2>1. \A s \in Seq(ByteSet) : HasUpTo(L, s, sent[L]) =>
          /\ InOrder(s) => InOrder(s \o m)
          /\ HasUpTo(L, s \o m, sent[L] + MessageSize)
          /\ \A d, b : d # L /\ HasUpTo(d, s, b) => HasUpTo(d, s \o m, b)
    BY <1>2, <1>4, InOrderOn
  <2> QED  BY <1>11, <1>12, <2>1
<1>13. Alive /\ ~fin
  BY <1>1 DEF UserCode, Ctl, CallInv, Closing
<1>14. LoopDataInv'
  <2>1. ASSUME ~overwritten, peer \in {"open", "closed"} PROVE HasUpTo(L, Stream', sent'[L])
    <3>1. ~Refused
      BY <1>13, <2>1 DEF Refused, WriteFails
    <3>2. Stream' = Stream \o m
      BY <1>6, <3>1
    <3>3. HasUpTo(L, Stream, sent[L])
      BY <1>1, <2>1 DEF Data, LoopDataInv, L
    <3> QED  BY <1>7, <1>12, <3>2, <3>3
  <2> QED  BY <1>1, <1>6, <2>1, SendLoop DEF L
<1>15. DataInv'
  <2>1. CASE Refused
    <3>1. Stream' = Stream /\ Refused'
      BY <1>1, <1>6, <2>1, StillRefused DEF Stream
    <3> QED  BY <1>1, <3>1 DEF Data, DataInv
  <2>2. CASE ~Refused
    <3> SUFFICES ASSUME downs = 0
                 PROVE  /\ InOrder(Stream')
                        /\ \A c \in Callers : \E b \in Nat : HasUpTo(c, Stream', b) /\ Follows(pending', c, b, Passed(c)')
      BY <1>1 DEF DataInv
    <3>1. Stream' = Stream \o m
      BY <1>6, <2>2
    <3>2. InOrder(Stream) /\ \A c \in Callers : \E b \in Nat : HasUpTo(c, Stream, b) /\ Follows(pending, c, b, Passed(c))
      BY <1>13, <2>2 DEF Data, DataInv
    <3>3. \A i \in DOMAIN pending : ~IsSend(pending[i], L)
      BY <1>2, FollowsTypes DEF Data
    <3>4. \A i \in DOMAIN pending' : ~IsSend(pending'[i], L)
      BY <1>2, <1>10, FollowsTypes
    <3>5. Passed(L) = sent[L] /\ Passed(L)' = sent[L] + MessageSize
      BY <1>2, <1>7 DEF Passed
    <3>6. HasUpTo(L, Stream, sent[L])
      <4>1. PICK b \in Nat : HasUpTo(L, Stream, b) /\ Follows(pending, L, b, Passed(L))
        BY <1>2, <3>2
      <4>2. b \in Int /\ Follows(pending, L, b, sent[L])
        <5>1. b \in Int
          BY SMTT(30)
        <5> QED  BY <3>5, <4>1, <5>1
      <4>3. b = sent[L]
        BY <1>3, <3>3, <4>2, NothingQueued
      <4> QED  BY <4>1, <4>3
    <3>7. /\ InOrder(Stream \o m)
          /\ HasUpTo(L, Stream \o m, sent[L] + MessageSize)
          /\ \A d, b : d # L /\ HasUpTo(d, Stream, b) => HasUpTo(d, Stream \o m, b)
      BY <1>12, <3>2, <3>6
    <3>8. HasUpTo(L, Stream', sent[L] + MessageSize) /\ Follows(pending', L, sent[L] + MessageSize, Passed(L)')
      <4> DEFINE e == sent[L] + MessageSize
      <4>1. e \in Int
        BY <1>3
      <4> HIDE DEF e
      <4>2. Follows(pending', L, e, e)
        BY <3>4, <4>1, NothingQueued
      <4> QED  BY <3>1, <3>5, <3>7, <4>2 DEF e
    <3>9. ASSUME NEW c \in Callers, c # L PROVE \E b \in Nat : HasUpTo(c, Stream', b) /\ Follows(pending', c, b, Passed(c)')
      <4>1. Passed(c)' = Passed(c)
        BY <1>1, <1>7, <3>9 DEF Passed
      <4>2. PICK b \in Nat : HasUpTo(c, Stream, b) /\ Follows(pending, c, b, Passed(c))
        BY <3>2
      <4> QED  BY <1>10, <3>1, <3>7, <3>9, <4>1, <4>2
    <3> QED  BY <1>3, <3>1, <3>7, <3>8, <3>9
  <2> QED  BY <2>1, <2>2
<1> QED  BY <1>6, <1>8, <1>10, <1>14, <1>15 DEF Data

\* The functor SendInLoop(): its message is the next one of its thread.
LEMMA RunSendInLoopData ==
  ASSUME Ctl, Data, RunSendInLoop
  PROVE  Data'
<1> DEFINE m == Head(pending).bytes
           q == Tail(pending)
<1>1. /\ UNCHANGED <<state_, call, fin, peer, downs, overwritten, sent, holders, revents>>
      /\ pending # <<>> /\ Head(pending).op = "SendInLoop"
      /\ IF Alive THEN SendInLoop(m, q)
         ELSE pending' = q /\ UNCHANGED <<output_buffer_, events, registered, wire>>
  BY DEF RunSendInLoop, Runs, owner, history
<1>2. pending \in Seq(FunctorSet) /\ Head(pending) = pending[1] /\ 1 \in DOMAIN pending /\ Head(pending) \in FunctorSet
      /\ q \in Seq(FunctorSet)
  <2>1. pending \in Seq(FunctorSet)
    BY DEF Ctl, TypeInv
  <2> QED  BY <1>1, <2>1, SMTT(30)
<1>3. m \in Seq(ByteSet)
  BY <1>2, SMTT(30) DEF FunctorSet
<1>4. PICK t \in Threads, n \in Int : IsMessage(m, t, n)
  BY <1>1, <1>2 DEF Data, Messages
<1>5. m # <<>> /\ MessageSize \in Nat /\ Before(Head(pending)) = n /\ \A c : IsSend(Head(pending), c) <=> c = t
  BY <1>1, <1>4, MessageTypes DEF IsSend, Before
<1>6. LoopThread # t /\ t \in Callers
  BY CallersAssumption DEF Callers
<1>7. /\ Messages(q)
      /\ \A c, b, e : c # t /\ Follows(pending, c, b, e) => Follows(q, c, b, e)
      /\ \A b, e \in Int : Follows(pending, t, b, e) => n = b /\ Follows(q, t, b + MessageSize, e)
  BY <1>1, <1>2, <1>5, FollowsTail DEF Data
<1>8. Stream \in Seq(ByteSet)
  BY ConcatProperties DEF Stream, Data, DataTypes
<1>9. \A c \in Callers : Passed(c)' = Passed(c)
  BY <1>1 DEF Passed
<1> HIDE DEF m, q
<1>10. CASE ~Alive
  <2>1. UNCHANGED <<output_buffer_, events, wire>> /\ pending' = q
    BY <1>1, <1>10
  <2>2. StaysDead
    BY <1>1, <1>2, <2>1, StillDead DEF q
  <2>3. Stream' = Stream
    BY <2>1 DEF Stream
  <2>4. DataInv'
    BY <1>1, <1>10, <2>2, <2>3 DEF Data, DataInv, StaysDead
  <2>5. LoopDataInv' /\ WritingIffOutput' /\ DataTypes'
    BY <1>1, <2>1, <2>3 DEF Data, LoopDataInv, WritingIffOutput, DataTypes, IsWriting
  <2> QED  BY <1>7, <2>1, <2>4, <2>5 DEF Data
<1>11. CASE Alive
  <2>1. /\ wire' \in Seq(ByteSet) /\ output_buffer_' \in Seq(ByteSet)
        /\ WritingIffOutput'
        /\ pending' = q \/ pending' = Append(q, Functor("Notify"))
        /\ \/ /\ state_ = "kDisconnected" \/ Refused
              /\ UNCHANGED <<wire, output_buffer_, events>>
           \/ state_ # "kDisconnected" /\ ~Refused /\ Stream' = Stream \o m
    <3>1. SendInLoop(m, q) /\ DataTypes /\ WritingIffOutput
      BY <1>1, <1>11 DEF Data
    <3> QED  BY <1>3, <1>5, <3>1, SendEffect
  <2>2. DataTypes'
    BY <1>1, <2>1 DEF Data, DataTypes
  <2>3. Functor("Notify") \in FunctorSet /\ Functor("Notify").op = "Notify"
    BY FunctorTypes DEF Ops
  <2>4. /\ Messages(pending')
        /\ \A c, b, e : Follows(q, c, b, e) => Follows(pending', c, b, e)
    BY <1>2, <1>7, <2>1, <2>3, FollowsSame
  <2>5. ASSUME NEW d, NEW b, d # t, HasUpTo(d, Stream, b) PROVE HasUpTo(d, Stream \o m, b)
    <3>1. \A s \in Seq(ByteSet) : NumbersOf(d, s \o m, Len(s \o m)) = NumbersOf(d, s, Len(s))
      BY <1>3, <1>4, <2>5, NumbersOther
    <3> QED  BY <1>8, <2>5, <3>1 DEF HasUpTo
  <2>6. LoopDataInv'
    <3>1. UNCHANGED <<wire, output_buffer_>> => Stream' = Stream
      BY DEF Stream
    <3>2. ASSUME ~overwritten, state_ # "kDisconnected", peer \in {"open", "closed"}
          PROVE  HasUpTo(LoopThread, Stream', sent'[LoopThread])
      BY <1>1, <1>6, <2>1, <2>5, <3>1, <3>2 DEF Data, LoopDataInv
    <3> QED  BY <1>1, <2>1, <3>2, SendLoop
  <2>7. DataInv'
    <3> SUFFICES ASSUME downs = 0
                 PROVE  /\ InOrder(Stream')
                        /\ ~Refused' =>
                             \A c \in Callers : \E b \in Nat : HasUpTo(c, Stream', b) /\ Follows(pending', c, b, Passed(c)')
      BY <1>1 DEF DataInv
    <3>1. state_ # "kDisconnected"
      BY Numbers DEF Ctl, DownInv
    <3>2. InOrder(Stream)
      BY DEF Data, DataInv
    <3>3. CASE Refused
      <4>1. Stream' = Stream /\ Refused'
        BY <1>1, <2>1, <3>3, StillRefused DEF Stream
      <4> QED  BY <3>2, <4>1
    <3>4. CASE ~Refused
      <4>1. Stream' = Stream \o m
        BY <2>1, <3>1, <3>4
      <4>2. \A c \in Callers : \E b \in Nat : HasUpTo(c, Stream, b) /\ Follows(pending, c, b, Passed(c))
        BY <1>11, <3>4 DEF Data, DataInv
      <4>3. Passed(t) \in Int
        <5>1. sent[t] \in Nat /\ MessageSize \in Nat
          BY <1>5, <1>6 DEF Data, DataTypes
        <5>2. sent[t] \in Int /\ sent[t] - MessageSize \in Int
          BY <5>1, SMTT(30)
        <5> QED  BY <5>2 DEF Passed
      <4>4. n \in Nat /\ HasUpTo(t, Stream, n) /\ Follows(q, t, n + MessageSize, Passed(t)) /\ n + MessageSize \in Nat
        <5>1. PICK b \in Nat : HasUpTo(t, Stream, b) /\ Follows(pending, t, b, Passed(t))
          BY <1>6, <4>2
        <5>2. b \in Int /\ b + MessageSize \in Nat
          BY <1>5, SMTT(30)
        <5>3. n = b /\ Follows(q, t, b + MessageSize, Passed(t))
          BY <1>7, <4>3, <5>1, <5>2
        <5> QED  BY <5>1, <5>2, <5>3
      <4>5. /\ InOrder(Stream \o m)
            /\ HasUpTo(t, Stream \o m, n + MessageSize)
        <5>1. \A s \in Seq(ByteSet) : HasUpTo(t, s, n) =>
                (InOrder(s) => InOrder(s \o m)) /\ HasUpTo(t, s \o m, n + MessageSize)
          BY <1>3, <1>4, <4>4, InOrderOn
        <5> QED  BY <1>8, <3>2, <4>4, <5>1
      <4>6. Follows(pending', t, n + MessageSize, Passed(t)')
        BY <1>6, <1>9, <2>4, <4>4
      <4>7. ASSUME NEW c \in Callers, c # t
            PROVE  \E b \in Nat : HasUpTo(c, Stream', b) /\ Follows(pending', c, b, Passed(c)')
        <5>1. PICK b \in Nat : HasUpTo(c, Stream, b) /\ Follows(pending, c, b, Passed(c))
          BY <4>2
        <5>2. HasUpTo(c, Stream \o m, b)
          BY <2>5, <4>7, <5>1
        <5> QED  BY <1>7, <1>9, <2>4, <4>1, <4>7, <5>1, <5>2
      <4> QED  BY <4>1, <4>4, <4>5, <4>6, <4>7
    <3> QED  BY <3>3, <3>4
  <2> QED  BY <2>1, <2>2, <2>4, <2>6, <2>7 DEF Data
<1> QED  BY <1>10, <1>11

\* HandleWrite() moves a prefix of output_buffer_ to the kernel, and stops watching
\* and shuts down when that was all.
LEMMA HandleWriteData ==
  ASSUME Ctl, Data, HandleWrite
  PROVE  Data'
<1>1. /\ UNCHANGED <<state_, call, peer, downs, overwritten, sent, holders>>
      /\ revents # {}
  BY DEF HandleWrite, owner, history
<1>2. Alive /\ StaysDead
  BY <1>1 DEF Alive, StaysDead
<1>3. CASE UNCHANGED <<events, output_buffer_, pending, wire, fin>>
  BY <1>1, <1>2, <1>3, PlainData DEF QuietQueue, KeepsSending
<1>4. ASSUME IsWriting, ~WriteFails, NEW n \in 1 .. Len(output_buffer_), Written(n) PROVE Data'
  <2> DEFINE l == SubSeq(output_buffer_, 1, n)
             r == SubSeq(output_buffer_, n + 1, Len(output_buffer_))
  <2>0. wire \in Seq(ByteSet) /\ output_buffer_ \in Seq(ByteSet) /\ n \in 0 .. Len(output_buffer_)
    <3>1. wire \in Seq(ByteSet) /\ output_buffer_ \in Seq(ByteSet)
      BY DEF Data, DataTypes
    <3> QED  BY <3>1, SMTT(30)
  <2>1. /\ r \in Seq(ByteSet) /\ wire \o l \in Seq(ByteSet) /\ (wire \o l) \o r = wire \o output_buffer_
        /\ r = <<>> <=> n = Len(output_buffer_)
    BY <2>0, Cut
  <2>2. /\ wire' = wire \o l /\ output_buffer_' = r
        /\ \/ /\ n = Len(output_buffer_) /\ events' = events \ {"write"}
              /\ pending' = Append(pending, Functor("Notify"))
           \/ n # Len(output_buffer_) /\ UNCHANGED <<events, pending>> /\ (fin' => fin)
    BY <1>4 DEF Written
  <2> HIDE DEF l, r
  <2>3. Stream' = Stream /\ DataTypes'
    BY <1>1, <2>1, <2>2 DEF Stream, Data, DataTypes
  <2>4. Functor("Notify") \in FunctorSet /\ Functor("Notify").op = "Notify"
    BY FunctorTypes DEF Ops
  <2>5. QuietQueue
    BY <2>2, <2>4 DEF QuietQueue
  <2>6. ~Refused /\ ~fin
    BY <1>4 DEF Refused, MayWriteDirectly, WriteFails
  <2>7. \A c \in Callers : Passed(c)' = Passed(c)
    BY <1>1 DEF Passed
  <2>8. Messages(pending') /\ DataInv'
    BY <1>2, <2>3, <2>5, <2>6, <2>7, QuietData DEF Ctl, TypeInv, Data
  <2>9. fin' => output_buffer_' = <<>> /\ "write" \notin events'
    BY <2>1, <2>2, <2>6
  <2>10. LoopDataInv'
    BY <1>1, <2>3, <2>9, QuietLoop DEF Data
  <2>11. WritingIffOutput'
    BY <1>4, <2>1, <2>2 DEF WritingIffOutput, IsWriting
  <2> QED  BY <2>3, <2>8, <2>10, <2>11 DEF Data
<1> QED  BY <1>3, <1>4 DEF HandleWrite

\* A new connection satisfies the data invariant.
LEMMA InitData ==
  ASSUME Init
  PROVE  Data
<1>1. DOMAIN pending = {1} /\ pending[1].op = "ConnectEstablished"
  <2>1. \A f : DOMAIN <<f>> = {1} /\ <<f>>[1] = f
    BY SMTT(30)
  <2> QED  BY <2>1, FunctorTypes DEF Init, Ops
<1>2. <<>> \in Seq(ByteSet) /\ 0 \in Nat /\ 0 \in Int /\ DOMAIN <<>> = {} /\ Len(<<>>) = 0 /\ 1 .. 0 = {}
  BY SMTT(30)
<1>3. Stream = <<>>
  <2>1. <<>> \o <<>> = <<>>
    BY <1>2, ConcatEmptySeq
  <2> QED  BY <2>1 DEF Stream, Init
<1>4. DataTypes
  BY <1>2 DEF DataTypes, Init
<1>5. Messages(pending) /\ WritingIffOutput
  BY <1>1 DEF Messages, WritingIffOutput, Init
<1>6. \A c : HasUpTo(c, <<>>, 0)
  BY <1>2 DEF HasUpTo, NumbersOf
<1>7. \A t \in Threads : call[t][1] # "Send"
  BY Pairs DEF Init
<1>8. \A c \in Callers : Passed(c) = 0
  BY <1>7 DEF Passed, Init
<1>9. \A c : \A i \in DOMAIN pending : ~IsSend(pending[i], c)
  BY <1>1 DEF IsSend
<1>10. InOrder(Stream)
  BY <1>2, <1>3 DEF InOrder
<1>11. ASSUME NEW c \in Callers PROVE \E b \in Nat : HasUpTo(c, Stream, b) /\ Follows(pending, c, b, Passed(c))
  <2>1. \A i \in DOMAIN pending : ~IsSend(pending[i], c)
    BY <1>9
  <2>2. Follows(pending, c, 0, 0)
    <3> DEFINE e == 0
    <3>1. e \in Int
      BY <1>2
    <3> HIDE DEF e
    <3>2. Follows(pending, c, e, e)
      BY <2>1, <3>1, NothingQueued
    <3> QED  BY <3>2 DEF e
  <2> QED  BY <1>2, <1>3, <1>6, <1>8, <2>2
<1>12. LoopDataInv
  BY <1>3, <1>6 DEF LoopDataInv, Init, IsWriting, Callers
<1> QED  BY <1>4, <1>5, <1>10, <1>11, <1>12 DEF Data, DataInv

------------------------------------------------------------------------------
(* The theorems. *)

\* The inductive invariant holds throughout, whatever the loop, the other threads, the
\* owner and the peer do in whatever order.
THEOREM Invariance == Spec => []IInv
<1>1. ASSUME Init PROVE IInv
  BY <1>1, InitCtl, InitData DEF IInv
<1>2. ASSUME IInv, Next \/ UNCHANGED vars PROVE IInv'
  <2>0. Ctl /\ Data /\ sent \in [Callers -> Nat]
    BY <1>2 DEF IInv, Data, DataTypes
  <2>1. CASE RunFunctor
    BY <2>0, <2>1, ConnectEstablishedCtl, ConnectEstablishedData, RunConnectDestroyedCtl, RunConnectDestroyedData,
       RunSendInLoopCtl, RunSendInLoopData, NotifyCtl, NotifyData, ShutdownsData,
       ForceCloseInLoopCtl, ForceCloseInLoopData DEF RunFunctor, IInv
  <2>2. CASE PollReturns
    BY <2>0, <2>2, PollReturnsCtl, HandleCloseData DEF IInv
  <2>3. CASE HandleEvent
    BY <2>0, <2>3, HandleHangupCtl, HandleErrorCtl, HandleReadCtl, HandleCloseData, HandleWriteCtl, HandleWriteData
       DEF HandleEvent, IInv
  <2>4. CASE Send
    BY <2>0, <2>4, SendCtl, SendData DEF IInv
  <2>5. CASE Shutdown \/ ForceClose \/ ForceCloseWithDelay
    BY <2>0, <2>5, ShutdownCtl, ShutdownsData, ForceCloseData DEF IInv
  <2>6. CASE DelayExpires
    BY <2>0, <2>6, DelayExpiresCtl, ForceCloseData DEF IInv
  <2>7. ASSUME NEW t \in Threads, NEW method \in ThreadCalls, TestState(t, method) PROVE IInv'
    BY <2>0, <2>7, TestStateCtl, TestStateData DEF IInv
  <2>8. ASSUME NEW t \in Threads, SetState(t) PROVE IInv'
    BY <2>0, <2>8, SetStateCtl, SetStateData DEF IInv
  <2>9. ASSUME NEW t \in Threads, Queue(t) PROVE IInv'
    BY <2>0, <2>9, QueueCtl, QueueData DEF IInv
  <2>10. ASSUME NEW t \in Threads, Release(t) PROVE IInv'
    BY <2>0, <2>10, ReleaseCtl, ReleaseData DEF IInv
  <2>11. CASE OwnerRemoves
    BY <2>0, <2>11, OwnerRemovesCtl, OwnerData DEF IInv
  <2>12. CASE OwnerDestructs
    BY <2>0, <2>12, OwnerDestructsCtl, OwnerData DEF IInv
  <2>13. CASE PeerActs \/ UNCHANGED vars
    BY <2>0, <2>13, PeerActsCtl, PeerData DEF IInv
  <2> QED
    BY <1>2, <2>1, <2>2, <2>3, <2>4, <2>5, <2>6, <2>7, <2>8, <2>9, <2>10, <2>11, <2>12, <2>13 DEF Next
<1> QED  BY <1>1, <1>2, PTL DEF Spec

\* SendInLoop() and HandleWrite() keep the bytes of each caller in order, none twice
\* and none left out, until the connection is reported down: for any threads, any
\* sizes of messages and of high_watermark_, and any lengths write() takes.
THEOREM StreamInOrder == Spec => []BytesInOrder
<1>1. IInv => BytesInOrder
  BY DEF IInv, Data, DataInv, InOrder, Stream, BytesInOrder
<1> QED  BY <1>1, Invariance, PTL

\* While the connection is open its channel watches for writability exactly when
\* output_buffer_ has bytes (SendInLoop(), HandleWrite(), HandleClose()).
THEOREM WatchesOutput == Spec => []WritingIffOutput
<1>1. IInv => WritingIffOutput
  BY DEF IInv, Data
<1> QED  BY <1>1, Invariance, PTL

\* ShutdownInLoop() and HandleWrite() shut the writing side down only after all that
\* the loop's thread has sent is written, on a connection that works.
THEOREM GracefulShutdown == Spec => []ShutdownAfterData
<1>1. ASSUME IInv PROVE ShutdownAfterData
  <2> SUFFICES ASSUME fin, ~overwritten, peer \in {"open", "closed"}, state_ # "kDisconnected"
               PROVE  NumbersOf(LoopThread, wire, Len(wire)) = 1 .. sent[LoopThread]
    BY DEF ShutdownAfterData
  <2>1. output_buffer_ = <<>> /\ HasUpTo(LoopThread, Stream, sent[LoopThread])
    BY <1>1 DEF IInv, Data, LoopDataInv
  <2>2. wire \o <<>> = wire
    BY <1>1, ConcatEmptySeq DEF IInv, Data, DataTypes
  <2> QED  BY <2>1, <2>2 DEF Stream, HasUpTo
<1> QED  BY <1>1, Invariance, PTL

\* ConnectEstablished(), HandleClose() and ConnectDestroyed() report the connection up
\* once and down at most once, and it is destroyed at most once, as long as no other
\* thread has put kDisconnecting over kDisconnected.
THEOREM ReportedOnce == Spec => []UpThenDownOnce
<1>1. ASSUME IInv PROVE UpThenDownOnce
  <2> SUFFICES ASSUME ~overwritten
               PROVE  downs <= ups /\ ups <= 1 /\ destroys <= 1 /\ (downs = 1 <=> state_ = "kDisconnected")
    BY DEF UpThenDownOnce
  <2>1. ups \in {0, 1} /\ downs \in {0, 1} /\ (downs = 1 <=> state_ = "kDisconnected") /\ (ups = 0 => downs = 0)
    BY <1>1 DEF IInv, Ctl, TypeInv, DownInv, NewInv
  <2>2. destroys = 0 \/ destroys = 1
    BY <1>1 DEF IInv, Ctl, OwnerInv, Owned
  <2>3. downs <= ups /\ ups <= 1 /\ destroys <= 1
    BY <2>1, <2>2, SMTT(30)
  <2> QED  BY <2>1, <2>3
<1> QED  BY <1>1, Invariance, PTL

\* ~TcpConnection() and ~Channel() find the connection kDisconnected and its channel
\* out of the poller, unless the owner was destructed before it or another thread put
\* kDisconnecting over kDisconnected.
THEOREM CleanEnd == Spec => []DestructedClean
<1>1. ASSUME IInv PROVE DestructedClean
  <2> SUFFICES ASSUME ~Alive, owner_exists, ~overwritten
               PROVE  state_ = "kDisconnected" /\ ~registered /\ events = {}
    BY DEF DestructedClean
  <2>1. holders = {} /\ \A op \in SharedFunctors : ~HasOp(pending, op)
    BY <1>1, AliveOps DEF IInv, Ctl, TypeInv
  <2>2. "owner" \notin holders /\ ~HasOp(pending, "ConnectDestroyed") /\ ~OnceOp(pending, "ConnectDestroyed")
    BY <2>1 DEF SharedFunctors, HasOp, OnceOp
  <2>3. ~registered /\ downs = 1
    BY <1>1, <2>2 DEF IInv, Ctl, OwnerInv, Owned
  <2> QED  BY <1>1, <2>3 DEF IInv, Ctl, DownInv
<1> QED  BY <1>1, Invariance, PTL
==============================================================================
