---------------------------- MODULE TcpConnection ----------------------------
(***************************************************************************)
(* net/tcp_connection.cpp with net/channel.cpp: one connection, its        *)
(* channel, the functors its loop holds for it, the peer at the other end  *)
(* and the TcpServer that owns it, in the same loop or in another one.     *)
(* The loop's thread runs every handler; other threads that hold a         *)
(* TcpConnectionPtr call the public methods, whose test of state_,         *)
(* assignment of state_ and queuing of a functor are separate steps there. *)
(*                                                                         *)
(* Payload is abstracted to numbered bytes <<caller, n>>, n counting what  *)
(* that caller has passed to Send().  write() takes any prefix, none too   *)
(* (a full socket, or an error that passes), and fails with EPIPE or       *)
(* ECONNRESET once the writing side is shut down or the peer has reset the *)
(* connection, with another errno (ETIMEDOUT, say) when that is what ended *)
(* the connection.  A functor that runs on a destructed connection (two of *)
(* them are bound to a raw this) does nothing here: nothing of the         *)
(* connection is left to describe.                                         *)
(***************************************************************************)
EXTENDS Integers, Sequences

CONSTANTS LoopThread,     \* the thread of loop_
          Threads,        \* other threads that are given a TcpConnectionPtr
          ThreadCalls,    \* the methods those threads call
          LoopCalls,      \* the methods the loop's thread calls
          MaxBytes,       \* bound: bytes each caller passes to Send()
          MessageSize,    \* bytes of one message
          HighWaterMark   \* high_watermark_

Methods == {"Send", "Shutdown", "ForceClose"}

ASSUME CallersAssumption ==
  /\ LoopThread \notin Threads /\ "owner" \notin Threads
  /\ ThreadCalls \subseteq Methods
  /\ LoopCalls \subseteq Methods \cup {"ForceCloseWithDelay"}
ASSUME SizesAssumption ==
  /\ MaxBytes \in Nat
  /\ MessageSize \in Nat \ {0} /\ HighWaterMark \in Nat \ {0}

VARIABLES
  state_,
  events,           \* channel_'s events_
  registered,       \* channel_'s added_to_loop_
  revents,          \* what is left to handle of channel_'s revents_
  in_callback,      \* the handler that just ran called the user
  output_buffer_,
  pending,          \* the loop's functors for this connection
  call,             \* per thread: how far its call has come
  holders,          \* who holds a TcpConnectionPtr, functors apart
  owner_exists,     \* the owner has not been destructed
  removals,         \* close callbacks the owner has not acted on
  delayed,          \* ForceCloseWithDelay()'s timer: no, set or fired
  wire, fin,        \* bytes taken by write(), ShutdownWrite() done
  incoming, peer,   \* there is input to read; the peer: open, closed, reset, or
                    \* with SO_ERROR set: error (ECONNRESET), timedout (another)
  sent, ups, downs, destroys, overwritten
                    \* history: bytes accepted by Send() per caller, calls of
                    \* connection_callback_ and of ConnectDestroyed(), another
                    \* thread has put kDisconnecting over kDisconnected

channel == <<events, registered, revents, in_callback>>
socket == <<wire, fin, incoming, peer>>
owner == <<holders, owner_exists, removals>>
history == <<sent, ups, downs, destroys, overwritten>>
vars == <<state_, channel, output_buffer_, pending, call, owner, delayed, socket, history>>

Callers == Threads \cup {LoopThread}

Functor(op) == [op |-> op, bytes |-> <<>>]

Init ==
  /\ state_ = "kConnecting"
  /\ events = {} /\ registered = FALSE /\ revents = {} /\ in_callback = FALSE
  /\ output_buffer_ = <<>>
  /\ pending = <<Functor("ConnectEstablished")>>
  /\ call = [t \in Threads |-> <<"none", "none">>]
  /\ holders = {"owner"} /\ owner_exists = TRUE /\ removals = 0
  /\ delayed = "no"
  /\ wire = <<>> /\ fin = FALSE /\ incoming = FALSE /\ peer = "open"
  /\ sent = [c \in Callers |-> 0] /\ ups = 0 /\ downs = 0 /\ destroys = 0
  /\ overwritten = FALSE

\* Functors bound to shared_from_this(); SendInLoop and ShutdownInLoop are not.
SharedFunctors == {"ConnectEstablished", "ConnectDestroyed", "ForceCloseInLoop", "Notify"}

\* Some shared_ptr keeps the object: a holder, a functor, HandleEvent()'s guard.
Alive ==
  \/ holders # {} \/ revents # {}
  \/ \E i \in 1..Len(pending) : pending[i].op \in SharedFunctors

IsWriting == "write" \in events

------------------------------------------------------------------------------
(* Sending.  q is the queue of functors as the caller leaves it. *)

\* write() fails with EPIPE or ECONNRESET.
WriteFails == fin \/ peer \in {"reset", "error"}

AppendWithoutWatching(bytes, q) ==
  /\ output_buffer_' = output_buffer_ \o bytes
  /\ pending' = q
  /\ UNCHANGED <<events, registered>>

\* The part of SendInLoop() that keeps what write() did not take.
AppendOutput(bytes, q) ==
  /\ output_buffer_' = output_buffer_ \o bytes
  /\ events' = events \cup {"write"}
  /\ registered' = TRUE
  /\ pending' = IF /\ Len(output_buffer_) < HighWaterMark
                   /\ Len(output_buffer_) + Len(bytes) >= HighWaterMark
                THEN Append(q, Functor("Notify")) ELSE q

MayWriteAlways == TRUE

\* SendInLoop()'s condition for a direct write.
MayWriteDirectly == ~IsWriting /\ output_buffer_ = <<>>

\* SendInLoop(), which keeps what it cannot write unless write() failed with EPIPE
\* or ECONNRESET.
SendInLoop(bytes, q) ==
  \/ /\ state_ = "kDisconnected" \/ (MayWriteDirectly /\ WriteFails)
     /\ pending' = q
     /\ UNCHANGED <<output_buffer_, events, registered, wire>>
  \/ /\ state_ # "kDisconnected" /\ MayWriteDirectly /\ ~WriteFails
     /\ \E n \in 0..Len(bytes) :
          /\ peer = "timedout" => n = 0
          /\ wire' = wire \o SubSeq(bytes, 1, n)
          /\ IF n = Len(bytes)
             THEN /\ pending' = Append(q, Functor("Notify"))
                  /\ UNCHANGED <<output_buffer_, events, registered>>
             ELSE AppendOutput(SubSeq(bytes, n + 1, Len(bytes)), q)
  \/ /\ state_ # "kDisconnected" /\ ~MayWriteDirectly
     /\ AppendOutput(bytes, q)
     /\ UNCHANGED wire

ShutdownAnyway(evs) == fin' = TRUE

\* ShutdownInLoop(), with channel_'s events as given
ShutdownInLoop(evs) == fin' = (fin \/ "write" \notin evs)

\* The next message of a caller.
Message(c) == [i \in 1..MessageSize |-> <<c, sent[c] + i>>]

CountSent(c) ==
  /\ sent[c] + MessageSize <= MaxBytes
  /\ sent' = [sent EXCEPT ![c] = @ + MessageSize]

------------------------------------------------------------------------------
(* Calls by the loop's thread: from a callback of this connection, or, when  *)
(* HandleEvent() is not running, from anything else the loop runs.           *)

UserCode == Alive /\ ups > 0 /\ (revents = {} \/ in_callback)

\* bound: one functor of ForceClose() at a time
NoForceCloseQueued == \A i \in 1..Len(pending) : pending[i].op # "ForceCloseInLoop"

Send ==
  /\ "Send" \in LoopCalls /\ UserCode /\ state_ = "kConnected"
  /\ CountSent(LoopThread)
  /\ SendInLoop(Message(LoopThread), pending)
  /\ UNCHANGED <<state_, revents, in_callback, call, owner, delayed, fin, incoming, peer,
                 ups, downs, destroys, overwritten>>

Shutdown ==
  /\ "Shutdown" \in LoopCalls /\ UserCode /\ state_ = "kConnected"
  /\ state_' = "kDisconnecting"
  /\ ShutdownInLoop(events)
  /\ UNCHANGED <<channel, output_buffer_, pending, call, owner, delayed, wire, incoming, peer, history>>

ForceClose ==
  /\ "ForceClose" \in LoopCalls /\ UserCode /\ state_ \in {"kConnected", "kDisconnecting"}
  /\ NoForceCloseQueued
  /\ state_' = "kDisconnecting"
  /\ pending' = Append(pending, Functor("ForceCloseInLoop"))
  /\ UNCHANGED <<channel, output_buffer_, call, owner, delayed, socket, history>>

ForceCloseWithDelay ==
  /\ "ForceCloseWithDelay" \in LoopCalls /\ UserCode /\ state_ \in {"kConnected", "kDisconnecting"}
  /\ delayed = "no"  \* bound: one call
  /\ state_' = "kDisconnecting"
  /\ delayed' = "set"
  /\ UNCHANGED <<channel, output_buffer_, pending, call, owner, socket, history>>

\* The timer of ForceCloseWithDelay(): WeakCallback locks the pointer, and
\* ForceClose() tests state_.
DelayExpires ==
  /\ delayed = "set" /\ revents = {}
  /\ delayed' = "fired"
  /\ IF Alive /\ state_ \in {"kConnected", "kDisconnecting"}
     THEN /\ state_' = "kDisconnecting"
          /\ pending' = Append(pending, Functor("ForceCloseInLoop"))
     ELSE UNCHANGED <<state_, pending>>
  /\ UNCHANGED <<channel, output_buffer_, call, owner, socket, history>>

------------------------------------------------------------------------------
(* Calls by other threads. *)

\* The test of state_, and the return when it fails.
TestState(t, method) ==
  /\ t \in holders
  /\ call[t][1] = "none"
  /\ \/ state_ = "kConnected"
     \/ method = "ForceClose" /\ state_ = "kDisconnecting"
  /\ method = "ForceClose" => NoForceCloseQueued
  /\ IF method = "Send" THEN CountSent(t) ELSE UNCHANGED sent
  /\ call' = [call EXCEPT ![t] = <<method, IF method = "Send" THEN "queue" ELSE "set_state">>]
  /\ UNCHANGED <<state_, channel, output_buffer_, pending, owner, delayed, socket,
                 ups, downs, destroys, overwritten>>

SetState(t) ==
  /\ call[t][2] = "set_state"
  /\ state_' = "kDisconnecting"
  /\ overwritten' = (overwritten \/ state_ = "kDisconnected")
  /\ call' = [call EXCEPT ![t][2] = "queue"]
  /\ UNCHANGED <<channel, output_buffer_, pending, owner, delayed, socket,
                 sent, ups, downs, destroys>>

\* RunInLoop() or QueueInLoop()
Queue(t) ==
  /\ call[t][2] = "queue"
  /\ pending' = Append(pending,
       CASE call[t][1] = "Send" ->
              [op |-> "SendInLoop",
               bytes |-> [i \in 1..MessageSize |-> <<t, sent[t] - MessageSize + i>>]]
         [] call[t][1] = "Shutdown" -> Functor("ShutdownInLoop")
         [] call[t][1] = "ForceClose" -> Functor("ForceCloseInLoop"))
  /\ call' = [call EXCEPT ![t] = <<"none", "none">>]
  /\ UNCHANGED <<state_, channel, output_buffer_, owner, delayed, socket, history>>

\* The thread lets go of its TcpConnectionPtr.
Release(t) ==
  /\ t \in holders
  /\ call[t][1] = "none"
  /\ holders' = holders \ {t}
  /\ UNCHANGED <<state_, channel, output_buffer_, pending, call, owner_exists, removals, delayed, socket,
                 history>>

------------------------------------------------------------------------------
(* The owner. *)

RemovesOnly ==
  /\ removals > 0
  /\ removals' = removals - 1
  /\ holders' = holders \ {"owner"}
  /\ UNCHANGED <<state_, channel, output_buffer_, pending, call, owner_exists, delayed, socket, history>>

\* RemoveConnection() and RemoveConnectionInLoop(): out of the map, then
\* ConnectDestroyed() is queued.
OwnerRemoves ==
  /\ removals > 0
  /\ removals' = removals - 1
  /\ holders' = holders \ {"owner"}
  /\ pending' = Append(pending, Functor("ConnectDestroyed"))
  /\ UNCHANGED <<state_, channel, output_buffer_, call, owner_exists, delayed, socket, history>>

------------------------------------------------------------------------------
(* The loop: functors. *)

Runs(op) == revents = {} /\ pending # <<>> /\ Head(pending).op = op

\* HandleClose(), with q the queue of functors as the caller leaves it
HandleClose(q) ==
  /\ state_' = "kDisconnected"
  /\ events' = {} /\ registered' = TRUE
  /\ downs' = downs + 1
  /\ removals' = IF owner_exists THEN removals + 1 ELSE removals
  /\ pending' = q

ConnectEstablished ==
  /\ Runs("ConnectEstablished")
  /\ pending' = Tail(pending)
  /\ state_' = "kConnected"
  /\ events' = {"read"} /\ registered' = TRUE
  /\ ups' = ups + 1
  /\ holders' = holders \cup Threads
  /\ UNCHANGED <<revents, in_callback, output_buffer_, call, owner_exists, removals, delayed, socket,
                 sent, downs, destroys, overwritten>>

DestroysLoudly == TRUE

\* The condition on which ConnectDestroyed() closes the connection first.
StillConnected == state_ = "kConnected"

ConnectDestroyed ==
  /\ IF StillConnected
     THEN state_' = "kDisconnected" /\ events' = {} /\ downs' = downs + 1
     ELSE UNCHANGED <<state_, events, downs>>
  /\ registered' = FALSE
  /\ destroys' = destroys + 1

RunConnectDestroyed ==
  /\ Runs("ConnectDestroyed")
  /\ pending' = Tail(pending)
  /\ ConnectDestroyed
  /\ UNCHANGED <<revents, in_callback, output_buffer_, call, owner, delayed, socket,
                 sent, ups, overwritten>>

\* ~TcpServer(), with the connection still in its map and no removal on its way
\* (RemoveConnection()'s "FIXME: unsafe"): RunInLoop(ConnectDestroyed), at once
\* in the connection's loop and queued from another.
OwnerDestructs ==
  /\ "owner" \in holders /\ removals = 0
  /\ holders' = holders \ {"owner"}
  /\ owner_exists' = FALSE
  /\ \/ /\ pending' = Append(pending, Functor("ConnectDestroyed"))
        /\ UNCHANGED <<state_, events, registered, downs, destroys>>
     \/ /\ UserCode
        /\ ConnectDestroyed
        /\ UNCHANGED pending
  /\ UNCHANGED <<revents, in_callback, output_buffer_, call, removals, delayed, socket,
                 sent, ups, overwritten>>

RunSendInLoop ==
  /\ Runs("SendInLoop")
  /\ IF Alive
     THEN SendInLoop(Head(pending).bytes, Tail(pending))
     ELSE pending' = Tail(pending) /\ UNCHANGED <<output_buffer_, events, registered, wire>>
  /\ UNCHANGED <<state_, revents, in_callback, call, owner, delayed, fin, incoming, peer,
                 history>>

RunShutdownInLoop ==
  /\ Runs("ShutdownInLoop")
  /\ pending' = Tail(pending)
  /\ IF Alive THEN ShutdownInLoop(events) ELSE UNCHANGED fin
  /\ UNCHANGED <<state_, channel, output_buffer_, call, owner, delayed, wire, incoming, peer, history>>

ForceCloseInLoop ==
  /\ Runs("ForceCloseInLoop")
  /\ IF state_ \in {"kConnected", "kDisconnecting"}
     THEN HandleClose(Tail(pending))
     ELSE pending' = Tail(pending) /\ UNCHANGED <<state_, events, registered, downs, removals>>
  /\ UNCHANGED <<revents, in_callback, output_buffer_, call, holders, owner_exists, delayed, socket,
                 sent, ups, destroys, overwritten>>

\* write_complete_callback_ and high_watermark_callback_
Notify ==
  /\ Runs("Notify")
  /\ pending' = Tail(pending)
  /\ UNCHANGED <<state_, channel, output_buffer_, call, owner, delayed, socket, history>>

------------------------------------------------------------------------------
(* The loop: Channel::HandleEvent().  revents holds what HandleEventWithGuard()
   has still to look at; a hangup counts only without input.               *)

Ready ==
  (IF "read" \in events /\ (incoming \/ peer # "open") THEN {"in"} ELSE {})
    \cup (IF IsWriting THEN {"out"} ELSE {})
    \cup (IF events # {} /\ peer \notin {"open", "closed"} THEN {"hup", "err"} ELSE {})

PollReturns ==
  /\ revents = {} /\ registered /\ Alive
  /\ Ready # {}
  /\ revents' = IF "in" \in Ready THEN Ready \ {"hup"} ELSE Ready
  /\ in_callback' = FALSE
  /\ UNCHANGED <<state_, events, registered, output_buffer_, pending, call, owner, delayed, socket,
                 history>>

Handled(event) == revents' = revents \ {event}

HandleHangup ==
  /\ "hup" \in revents
  /\ HandleClose(pending)
  /\ Handled("hup") /\ in_callback' = TRUE
  /\ UNCHANGED <<output_buffer_, call, holders, owner_exists, delayed, socket,
                 sent, ups, destroys, overwritten>>

\* SO_ERROR is read, and with that cleared.
ClearError == peer' = IF peer \in {"error", "timedout"} THEN "reset" ELSE peer

HandleError ==
  /\ "err" \in revents /\ "hup" \notin revents
  /\ ClearError
  /\ Handled("err") /\ in_callback' = FALSE
  /\ UNCHANGED <<state_, events, registered, output_buffer_, pending, call, owner, delayed,
                 wire, fin, incoming, history>>

HandleRead ==
  /\ "in" \in revents /\ "err" \notin revents
  /\ Handled("in")
  /\ \/ /\ incoming
        /\ incoming' = FALSE /\ in_callback' = TRUE
        /\ UNCHANGED <<state_, events, registered, pending, removals, peer, downs>>
     \/ /\ ~incoming /\ peer \in {"closed", "reset"}
        /\ HandleClose(pending) /\ in_callback' = TRUE
        /\ UNCHANGED <<incoming, peer>>
     \/ /\ ~incoming /\ peer \in {"open", "error", "timedout"}
        /\ ClearError /\ in_callback' = FALSE
        /\ UNCHANGED <<state_, events, registered, pending, removals, incoming, downs>>
  /\ UNCHANGED <<output_buffer_, call, holders, owner_exists, delayed, wire, fin,
                 sent, ups, destroys, overwritten>>

WrittenForgetsShutdown(n) ==
  /\ wire' = wire \o SubSeq(output_buffer_, 1, n)
  /\ output_buffer_' = SubSeq(output_buffer_, n + 1, Len(output_buffer_))
  /\ events' = IF n = Len(output_buffer_) THEN events \ {"write"} ELSE events
  /\ UNCHANGED <<pending, fin>>

\* The part of HandleWrite() after write() took n bytes.
Written(n) ==
  /\ wire' = wire \o SubSeq(output_buffer_, 1, n)
  /\ output_buffer_' = SubSeq(output_buffer_, n + 1, Len(output_buffer_))
  /\ IF n = Len(output_buffer_)
     THEN /\ events' = events \ {"write"}
          /\ pending' = Append(pending, Functor("Notify"))
          /\ IF state_ = "kDisconnecting"
             THEN ShutdownInLoop(events \ {"write"}) ELSE UNCHANGED fin
     ELSE UNCHANGED <<events, pending, fin>>

\* The second case: the channel no longer asks to write, or write() took nothing.
HandleWrite ==
  /\ revents = {"out"}
  /\ Handled("out") /\ in_callback' = FALSE
  /\ \/ /\ IsWriting /\ ~WriteFails /\ peer # "timedout"
        /\ \E n \in 1..Len(output_buffer_) : Written(n)
     \/ UNCHANGED <<events, output_buffer_, pending, wire, fin>>
  /\ UNCHANGED <<state_, registered, call, owner, delayed, incoming, peer, history>>

------------------------------------------------------------------------------
(* The peer. *)

PeerActs ==
  /\ \/ peer = "open" /\ incoming' = TRUE /\ UNCHANGED peer
     \/ peer = "open" /\ peer' = "closed" /\ UNCHANGED incoming
     \/ peer \in {"open", "closed"} /\ peer' \in {"error", "timedout"} /\ UNCHANGED incoming
  /\ UNCHANGED <<state_, channel, output_buffer_, pending, call, owner, delayed, wire, fin, history>>

RunFunctor ==
  \/ ConnectEstablished \/ RunConnectDestroyed \/ RunSendInLoop \/ RunShutdownInLoop
  \/ ForceCloseInLoop \/ Notify

HandleEvent == HandleHangup \/ HandleError \/ HandleRead \/ HandleWrite

Next ==
  \/ RunFunctor \/ PollReturns \/ HandleEvent
  \/ Send \/ Shutdown \/ ForceClose \/ ForceCloseWithDelay \/ DelayExpires
  \/ \E t \in Threads :
       \/ \E method \in ThreadCalls : TestState(t, method)
       \/ SetState(t) \/ Queue(t) \/ Release(t)
  \/ OwnerRemoves \/ OwnerDestructs
  \/ PeerActs

\* Each iteration of the loop polls, handles what Poll() returned (timers too)
\* and runs the functors, however busy the channel; calls under way end; the
\* owner's loop runs its functors.  A socket that poll() reports writable again
\* and again takes bytes in the end, as its peer goes on reading.
Fairness ==
  /\ SF_vars(RunFunctor) /\ WF_vars(PollReturns) /\ WF_vars(HandleEvent)
  /\ SF_vars(HandleWrite /\ wire' # wire)
  /\ SF_vars(DelayExpires) /\ WF_vars(OwnerRemoves)
  /\ \A t \in Threads : WF_vars(SetState(t) \/ Queue(t))

Spec == Init /\ [][Next]_vars

FairSpec == Spec /\ Fairness
------------------------------------------------------------------------------
(* Properties. *)

\* The numbers that c's bytes among the first n of bytes carry.
NumbersOf(c, bytes, n) == {bytes[i][2] : i \in {j \in 1..n : bytes[j][1] = c}}

\* SendInLoop() against HandleWrite(): until the connection is reported down,
\* the bytes given to the kernel and then those in output_buffer_ are, for each
\* caller, the bytes it passed to Send(), in order, none twice, none left out:
\* before the n-th byte of a caller come its bytes 1 to n - 1 and no others.
BytesInOrder ==
  downs = 0 =>
    LET stream == wire \o output_buffer_
    IN  \A i \in 1..Len(stream) :
          NumbersOf(stream[i][1], stream, i - 1) = 1..(stream[i][2] - 1)

\* Shutdown() is graceful for what the loop's thread has sent (ShutdownInLoop()
\* against output_buffer_ and HandleWrite()): when the writing side is shut
\* down on a connection that still works, all of it has been written.
ShutdownAfterData ==
  fin /\ ~overwritten /\ peer \in {"open", "closed"}
    => NumbersOf(LoopThread, wire, Len(wire)) = 1..sent[LoopThread] \/ state_ = "kDisconnected"

\* SendInLoop() and HandleWrite() against the channel: while the connection is
\* open the channel watches for writability exactly when there is output left.
WritingIffOutput ==
  "read" \in events => (IsWriting <=> output_buffer_ # <<>>)

\* The user hears of the connection once up and then at most once down, and the
\* owner removes it at most once, whatever mix of peer, ForceClose(), delayed
\* ForceClose() and owner closes it, as long as no other thread has put
\* kDisconnecting over kDisconnected.
UpThenDownOnce ==
  ~overwritten =>
    /\ downs <= ups /\ ups <= 1 /\ destroys <= 1
    /\ downs = 1 <=> state_ = "kDisconnected"

\* The asserts of ~TcpConnection() and ~Channel(): when the last pointer goes,
\* the connection is kDisconnected and its channel is out of the poller, unless
\* its owner was destructed under it or another thread overwrote state_.
DestructedClean ==
  ~Alive /\ owner_exists /\ ~overwritten => state_ = "kDisconnected" /\ ~registered /\ events = {}

\* Output is drained or the channel is closed or removed (EnableWriting() in
\* SendInLoop() and HandleWrite()), given a peer that goes on reading.
OutputDrains ==
  output_buffer_ # <<>> ~> output_buffer_ = <<>> \/ "read" \notin events \/ ~registered

\* Shutdown() shuts the writing side down in the end, also when HandleWrite()
\* has to drain output_buffer_ first, unless the connection is closed or
\* removed before that (or is only waiting for a delayed ForceClose()).
ShutdownCompletes ==
  state_ = "kDisconnecting"
    ~> fin \/ state_ = "kDisconnected" \/ delayed = "set" \/ ~registered \/ overwritten
==============================================================================
