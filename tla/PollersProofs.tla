---------------------------- MODULE PollersProofs ----------------------------
(***************************************************************************)
(* Proofs about Pollers, for any set of descriptors and events.            *)
(*                                                                         *)
(* The index that a poller keeps in its channels is right only together    *)
(* with what ties a channel to the poller's map and to the loop's list of  *)
(* active channels; IInv is the conjunction that is inductive.             *)
(***************************************************************************)
EXTENDS Pollers, SequenceTheorems, TLAPS

\* Zenon proves the leaves that do not name a prover.
USE ZenonT(30)

\* A registered channel is the one in use on its descriptor; one that is not
\* registered is as its constructor left it.
MapInv ==
  \A fd \in Fds :
    /\ alive[fd] => channel[fd] > 0
    /\ Registered(fd) => alive[fd] /\ channels_[fd] = channel[fd]
    /\ alive[fd] /\ ~Registered(fd) => index_[fd] = kNew /\ events_[fd] = {}

\* The index_ in each channel and the place of its pollfd correspond one to one.
Placed ==
  use_poll =>
    /\ \A fd \in Fds : Registered(fd) =>
         /\ index_[fd] \in 0..(Len(pollfds_) - 1)
         /\ pollfds_[index_[fd] + 1].fd \in {fd, Ignored(fd)}
         /\ pollfds_[index_[fd] + 1].events = events_[fd]
    /\ \A i \in 1..Len(pollfds_) : \E fd \in Fds : Registered(fd) /\ index_[fd] = i - 1

\* A PollPoller ignores every channel that asks for nothing, but those that did
\* so when they were added.
IdleInv ==
  use_poll =>
    \A fd \in Fds : Registered(fd) /\ fd \notin added_idle /\ events_[fd] = {}
      => pollfds_[index_[fd] + 1].fd = Ignored(fd)

\* A PollPoller polls every channel that asks for something, but those that
\* were enabled again.
PollInv ==
  /\ use_poll => epoll = {} /\ ~refused
  /\ use_poll =>
       \A fd \in Fds : Registered(fd) /\ fd \notin enabled_again /\ events_[fd] # {}
         => pollfds_[index_[fd] + 1].fd = fd

\* The kernel has exactly the channels whose index is kAdded.
InKernel(fd) == Registered(fd) /\ index_[fd] = kAdded

EPollInv ==
  ~use_poll =>
    /\ ~refused /\ pollfds_ = <<>>
    /\ \A fd \in Fds : Registered(fd) =>
         /\ index_[fd] \in {kAdded, kDeleted}
         /\ index_[fd] = kDeleted => events_[fd] = {}
    /\ \A fd \in Fds : InKernel(fd) => <<fd, events_[fd], channel[fd]>> \in epoll
    /\ \A x \in epoll : InKernel(x[1]) /\ x[2] = events_[x[1]] /\ x[3] = channel[x[1]]

\* What waits for HandleEvent() was reported in this iteration, is registered,
\* and is not the channel being handled.
DispatchInv ==
  \A x \in to_handle :
    /\ event_handling_ /\ x[1] \in active_channels_ /\ x[1] # current_active_channel_
    /\ Registered(x[1]) /\ x[2] = channel[x[1]]

IInv == TypeOK /\ Placed /\ IdleInv /\ MapInv /\ PollInv /\ EPollInv /\ DispatchInv

\* A vector that is given place by place (pollfds_ after a removal) is a sequence.
LEMMA FunctionIsSeq ==
  ASSUME NEW S, NEW m \in Nat, NEW f \in [1..m -> S]
  PROVE  f \in Seq(S)
<1>1. [1..m -> S] \in {[1..k -> S] : k \in Nat}
  OBVIOUS
<1>2. f \in UNION {[1..k -> S] : k \in Nat}
  BY <1>1
<1> QED
  BY <1>2, SeqDef

\* The constructors of the pollers leave no channel registered.
LEMMA InitInv == Init => IInv
<1> SUFFICES ASSUME Init PROVE IInv
  OBVIOUS
<1>1. TypeOK
  <2>1. pollfds_ \in Seq([fd : Int, events : SUBSET Events])
    BY EmptySeq DEF Init
  <2>2. /\ channel \in [Fds -> Nat] /\ alive \in [Fds -> BOOLEAN]
        /\ events_ \in [Fds -> SUBSET Events] /\ index_ \in [Fds -> Int]
        /\ channels_ \in [Fds -> Nat]
    BY SMTT(30) DEF Init, kNew
  <2>3. /\ use_poll \in BOOLEAN /\ refused \in BOOLEAN /\ event_handling_ \in BOOLEAN
        /\ current_active_channel_ \in Fds \cup {NULL} /\ current_active_channel_ = NULL
        /\ epoll = {} /\ active_channels_ = {} /\ to_handle = {} /\ enabled_again = {}
        /\ aborted \in BOOLEAN /\ added_idle = {}
    BY DEF Init
  <2> QED
    BY <2>1, <2>2, <2>3 DEF TypeOK
<1>2. Placed /\ IdleInv
  BY SMTT(30) DEF Init, Placed, IdleInv, Registered
<1>3. MapInv /\ PollInv /\ DispatchInv
  BY DEF Init, MapInv, PollInv, DispatchInv, Registered
<1>4. EPollInv
  BY DEF Init, EPollInv, Registered, InKernel
<1> QED
  BY <1>1, <1>2, <1>3, <1>4 DEF IInv

\* Channel::Channel() on a descriptor whose last channel was dropped.
LEMMA NewChannelInv ==
  ASSUME IInv, NEW fd \in Fds, NewChannel(fd)
  PROVE  IInv'
<1> USE DEF IInv
<1>1. ~Registered(fd)
  BY DEF MapInv, NewChannel
<1>2. \A g \in Fds : Registered(g)' <=> Registered(g)
  BY DEF NewChannel, poller, Registered
<1>3. \A g \in Fds : g # fd => /\ index_'[g] = index_[g] /\ events_'[g] = events_[g]
                               /\ channel'[g] = channel[g] /\ (alive'[g] <=> alive[g])
  BY DEF NewChannel, TypeOK
<1>4. /\ index_'[fd] = kNew /\ events_'[fd] = {} /\ channel'[fd] = channel[fd] + 1 /\ alive'[fd]
      /\ enabled_again' = enabled_again \ {fd}
      /\ UNCHANGED <<use_poll, pollfds_, epoll, refused, channels_, event_handling_,
                     current_active_channel_, active_channels_, to_handle, aborted, added_idle>>
  BY DEF NewChannel, TypeOK, dispatch, poller
<1>5. TypeOK'
  BY SMTT(30), <1>4 DEF NewChannel, TypeOK, kNew
<1>6. Placed' /\ IdleInv'
  <2>3. UNCHANGED <<use_poll, pollfds_>>
    BY <1>4
  <2>1. Placed'
    BY <1>1, <1>2, <1>3, <2>3 DEF Placed
  <2>2. IdleInv'
    BY <1>1, <1>2, <1>3, <1>4 DEF IdleInv, Ignored
  <2> QED
    BY <2>1, <2>2
<1>7. MapInv'
  <2>1. channel'[fd] > 0
    BY SMTT(30), <1>4 DEF TypeOK
  <2>2. ~Registered(fd)'
    BY <1>1, <1>2
  <2>3. \A g \in Fds : g # fd => channels_'[g] = channels_[g]
    BY <1>4
  <2> QED
    BY <1>2, <1>3, <1>4, <2>1, <2>2, <2>3 DEF MapInv
<1>8. PollInv'
  BY <1>1, <1>2, <1>3, <1>4 DEF PollInv
<1>9. EPollInv'
  <2>1. \A g \in Fds : InKernel(g) => g # fd
    BY <1>1 DEF InKernel
  <2>2. \A g \in Fds : InKernel(g)' <=> InKernel(g)
    BY <1>1, <1>2, <1>3 DEF InKernel
  <2>3. \A x \in epoll : x[1] \in Fds
    BY DEF TypeOK
  <2> QED
    BY SMTT(30), <1>1, <1>2, <1>3, <1>4, <2>1, <2>2, <2>3 DEF EPollInv
<1>10. DispatchInv'
  <2>1. \A x \in to_handle : x[1] \in Fds
    BY DEF TypeOK
  <2> QED
    BY SMTT(30), <1>1, <1>2, <1>3, <1>4, <2>1 DEF DispatchInv
<1> QED
  BY <1>5, <1>6, <1>7, <1>8, <1>9, <1>10

\* PollPoller::UpdateChannel() of a channel it does not know.
LEMMA PollAddInv ==
  ASSUME IInv, use_poll, NEW fd \in Fds, NEW events \in SUBSET Events, Update(fd, events),
         index_[fd] < 0
  PROVE  IInv'
<1> USE DEF IInv
<1>1. ~Registered(fd) /\ alive[fd] /\ events_[fd] = {} /\ channel[fd] > 0
  BY SMTT(30) DEF Placed, MapInv, Update
<1>2. /\ pollfds_' = Append(pollfds_, [fd |-> fd, events |-> events])
      /\ index_' = [index_ EXCEPT ![fd] = Len(pollfds_)]
      /\ channels_' = [channels_ EXCEPT ![fd] = channel[fd]]
      /\ events_' = [events_ EXCEPT ![fd] = events]
      /\ enabled_again' = enabled_again
      /\ added_idle' = IF events = {} THEN added_idle \cup {fd} ELSE added_idle \ {fd}
      /\ UNCHANGED <<use_poll, channel, alive, epoll, refused, event_handling_,
                     current_active_channel_, active_channels_, to_handle, aborted>>
  BY <1>1 DEF Update, PollUpdateChannel, dispatch, Registered
<1>3. \A g \in Fds : g # fd => /\ index_'[g] = index_[g] /\ events_'[g] = events_[g]
                               /\ (Registered(g)' <=> Registered(g)) /\ channels_'[g] = channels_[g]
  BY <1>2 DEF TypeOK, Registered
<1>4. /\ Registered(fd)' /\ index_'[fd] = Len(pollfds_) /\ events_'[fd] = events
      /\ channels_'[fd] = channel[fd]
  BY SMTT(30), <1>1, <1>2 DEF TypeOK, Registered
<1>5. /\ Len(pollfds_) \in Nat /\ Len(pollfds_') = Len(pollfds_) + 1
      /\ \A i \in 1..Len(pollfds_) : pollfds_'[i] = pollfds_[i]
      /\ pollfds_'[Len(pollfds_) + 1] = [fd |-> fd, events |-> events]
  BY SMTT(30), <1>2 DEF TypeOK
<1>6. TypeOK'
  <2>1. [fd |-> fd, events |-> events] \in [fd : Int, events : SUBSET Events]
    BY SMTT(30), FdsAssumption
  <2>2. pollfds_' \in Seq([fd : Int, events : SUBSET Events])
    BY <1>2, <2>1, AppendProperties DEF TypeOK
  <2>3. index_' \in [Fds -> Int] /\ channels_' \in [Fds -> Nat] /\ events_' \in [Fds -> SUBSET Events]
    BY SMTT(30), <1>2, <1>5 DEF TypeOK
  <2> QED
    BY <1>2, <2>2, <2>3 DEF TypeOK
<1>7. Placed'
  <2>1. ASSUME NEW g \in Fds, Registered(g)'
        PROVE  /\ index_'[g] \in 0..(Len(pollfds_') - 1)
               /\ pollfds_'[index_'[g] + 1].fd \in {g, Ignored(g)}
               /\ pollfds_'[index_'[g] + 1].events = events_'[g]
    <3>1. CASE g = fd
      BY SMTT(30), <3>1, <1>4, <1>5
    <3>2. CASE g # fd
      <4>1. Registered(g) /\ index_'[g] = index_[g] /\ events_'[g] = events_[g]
        BY <3>2, <2>1, <1>3
      <4>2. index_[g] \in 0..(Len(pollfds_) - 1)
        BY <4>1 DEF Placed
      <4>3. index_[g] + 1 \in 1..Len(pollfds_) /\ index_[g] \in 0..(Len(pollfds_') - 1)
        BY SMTT(30), <4>2, <1>5
      <4> QED
        BY <4>1, <4>3, <1>5 DEF Placed
    <3> QED
      BY <3>1, <3>2
  <2>2. ASSUME NEW i \in 1..Len(pollfds_')
        PROVE  \E g \in Fds : Registered(g)' /\ index_'[g] = i - 1
    <3>1. CASE i = Len(pollfds_) + 1
      BY SMTT(30), <3>1, <1>4, <1>5
    <3>2. CASE i \in 1..Len(pollfds_)
      <4>1. PICK g \in Fds : Registered(g) /\ index_[g] = i - 1
        BY <3>2 DEF Placed
      <4> QED
        BY <4>1, <1>1, <1>3
    <3> QED
      BY SMTT(30), <3>1, <3>2, <1>5
  <2> QED
    BY <2>1, <2>2 DEF Placed, Ignored
<1>8. MapInv'
  BY <1>1, <1>2, <1>3, <1>4 DEF MapInv
<1>9. PollInv'
  <2>1. ASSUME NEW g \in Fds, Registered(g)', g \notin enabled_again', events_'[g] # {}
        PROVE  pollfds_'[index_'[g] + 1].fd = g
    <3>1. CASE g = fd
      BY SMTT(30), <3>1, <1>4, <1>5
    <3>2. CASE g # fd
      <4>1. Registered(g) /\ index_[g] \in 0..(Len(pollfds_) - 1) /\ pollfds_[index_[g] + 1].fd = g
        BY <3>2, <2>1, <1>2, <1>3 DEF Placed, PollInv
      <4> QED
        BY SMTT(30), <4>1, <3>2, <1>3, <1>5
    <3> QED
      BY <3>1, <3>2
  <2> QED
    BY <2>1, <1>2 DEF PollInv
<1>10. EPollInv'
  BY <1>2 DEF EPollInv
<1>12. IdleInv'
  <2>1. ASSUME NEW g \in Fds, Registered(g)', g \notin added_idle', events_'[g] = {}
        PROVE  pollfds_'[index_'[g] + 1].fd = Ignored(g)
    <3>1. g # fd /\ g \notin added_idle
      BY <2>1, <1>2, <1>4
    <3>2. Registered(g) /\ index_[g] \in 0..(Len(pollfds_) - 1) /\ pollfds_[index_[g] + 1].fd = Ignored(g)
      BY <3>1, <2>1, <1>3 DEF Placed, IdleInv
    <3> QED
      BY SMTT(30), <3>1, <3>2, <1>3, <1>5
  <2> QED
    BY <2>1, <1>2 DEF IdleInv, Ignored
<1>11. DispatchInv'
  <2>1. \A x \in to_handle : x[1] \in Fds
    BY DEF TypeOK
  <2> QED
    BY SMTT(30), <1>1, <1>2, <1>3, <2>1 DEF DispatchInv
<1> QED
  BY <1>6, <1>7, <1>8, <1>9, <1>10, <1>11, <1>12

\* PollPoller::UpdateChannel() of a channel it knows.
LEMMA PollChangeInv ==
  ASSUME IInv, use_poll, NEW fd \in Fds, NEW events \in SUBSET Events, Update(fd, events),
         index_[fd] >= 0
  PROVE  IInv'
<1> USE DEF IInv
<1> DEFINE idx == index_[fd] + 1
<1> DEFINE pfd == [fd |-> IF events = {} THEN Ignored(fd) ELSE pollfds_[idx].fd, events |-> events]
<1>1. Registered(fd) /\ alive[fd]
  BY SMTT(30) DEF MapInv, Update, kNew
<1>2. idx \in 1..Len(pollfds_) /\ Len(pollfds_) \in Nat /\ pollfds_[idx].fd \in {fd, Ignored(fd)}
  BY SMTT(30), <1>1 DEF Placed, TypeOK
<1>3. /\ pollfds_' = [pollfds_ EXCEPT ![idx] = pfd]
      /\ events_' = [events_ EXCEPT ![fd] = events]
      /\ UNCHANGED <<use_poll, channel, alive, index_, channels_, epoll, refused, event_handling_,
                     current_active_channel_, active_channels_, to_handle, aborted>>
  BY SMTT(30) DEF Update, PollUpdateChannel, dispatch, TypeOK
<1>4. /\ added_idle' = added_idle \ {fd}
      /\ enabled_again' = IF events_[fd] = {} /\ events # {} THEN enabled_again \cup {fd} ELSE enabled_again
  BY <1>1 DEF Update, Registered
<1>5. /\ \A g \in Fds : g # fd => events_'[g] = events_[g]
      /\ events_'[fd] = events
      /\ \A g \in Fds : Registered(g)' <=> Registered(g)
  BY <1>3 DEF TypeOK, Registered
<1>6. /\ Len(pollfds_') = Len(pollfds_)
      /\ \A i \in 1..Len(pollfds_) : i # idx => pollfds_'[i] = pollfds_[i]
      /\ pollfds_'[idx] = pfd
  BY SMTT(30), <1>2, <1>3 DEF TypeOK
<1>7. pfd.fd = (IF events = {} THEN Ignored(fd) ELSE pollfds_[idx].fd) /\ pfd.events = events
  OBVIOUS
<1>8. \A g \in Fds : g # fd /\ Registered(g) => index_[g] # index_[fd]
  <2> SUFFICES ASSUME NEW g \in Fds, g # fd, Registered(g), index_[g] = index_[fd] PROVE FALSE
    OBVIOUS
  <2>1. pollfds_[idx].fd \in {g, Ignored(g)}
    BY DEF Placed
  <2> QED
    BY SMTT(30), <2>1, <1>2, FdsAssumption DEF Ignored
<1>9. TypeOK'
  <2>1. pfd \in [fd : Int, events : SUBSET Events]
    BY SMTT(30), <1>2, FdsAssumption DEF Ignored
  <2>2. pollfds_' \in Seq([fd : Int, events : SUBSET Events])
    BY SMTT(30), <1>2, <1>3, <2>1, ExceptSeq DEF TypeOK
  <2>3. /\ events_' \in [Fds -> SUBSET Events]
        /\ enabled_again' \subseteq Fds /\ added_idle' \subseteq Fds
    BY <1>3, <1>4 DEF TypeOK
  <2> HIDE DEF pfd
  <2> QED
    BY <1>3, <2>2, <2>3 DEF TypeOK
<1> HIDE DEF pfd
<1>10. Placed'
  <2>1. ASSUME NEW g \in Fds, Registered(g)
        PROVE  /\ index_[g] \in 0..(Len(pollfds_) - 1)
               /\ pollfds_'[index_[g] + 1].fd \in {g, Ignored(g)}
               /\ pollfds_'[index_[g] + 1].events = events_'[g]
    <3>1. CASE g = fd
      BY SMTT(30), <3>1, <1>2, <1>5, <1>6, <1>7 DEF TypeOK
    <3>2. CASE g # fd
      <4>1. index_[g] \in 0..(Len(pollfds_) - 1) /\ index_[g] + 1 # idx
        BY SMTT(30), <3>2, <2>1, <1>8 DEF Placed, TypeOK
      <4> QED
        BY SMTT(30), <4>1, <3>2, <2>1, <1>5, <1>6 DEF Placed
    <3> QED
      BY <3>1, <3>2
  <2> QED
    BY <2>1, <1>3, <1>5, <1>6 DEF Placed, Ignored
<1>11. MapInv'
  BY <1>1, <1>3, <1>5 DEF MapInv
<1>12. PollInv'
  <2>1. ASSUME NEW g \in Fds, Registered(g), g \notin enabled_again', events_'[g] # {}
        PROVE  pollfds_'[index_[g] + 1].fd = g
    <3>1. CASE g = fd
      <4>1. events_[fd] # {} /\ fd \notin enabled_again
        BY <3>1, <2>1, <1>4, <1>5
      <4> QED
        BY <4>1, <3>1, <2>1, <1>5, <1>6, <1>7 DEF PollInv
    <3>2. CASE g # fd
      <4>1. index_[g] \in 0..(Len(pollfds_) - 1) /\ index_[g] + 1 # idx
        BY SMTT(30), <3>2, <2>1, <1>8 DEF Placed, TypeOK
      <4>2. events_[g] # {} /\ g \notin enabled_again
        BY <3>2, <2>1, <1>4, <1>5
      <4> QED
        BY SMTT(30), <4>1, <4>2, <2>1, <1>6 DEF PollInv
    <3> QED
      BY <3>1, <3>2
  <2> QED
    BY <2>1, <1>3, <1>5 DEF PollInv
<1>13. EPollInv'
  BY <1>3 DEF EPollInv
<1>15. IdleInv'
  <2>1. ASSUME NEW g \in Fds, Registered(g), g \notin added_idle', events_'[g] = {}
        PROVE  pollfds_'[index_[g] + 1].fd = Ignored(g)
    <3>1. CASE g = fd
      BY <3>1, <2>1, <1>5, <1>6, <1>7
    <3>2. CASE g # fd
      <4>1. index_[g] \in 0..(Len(pollfds_) - 1) /\ index_[g] + 1 # idx
        BY SMTT(30), <3>2, <2>1, <1>8 DEF Placed, TypeOK
      <4>2. events_[g] = {} /\ g \notin added_idle
        BY <3>2, <2>1, <1>4, <1>5
      <4> QED
        BY SMTT(30), <4>1, <4>2, <2>1, <1>6 DEF IdleInv
    <3> QED
      BY <3>1, <3>2
  <2> QED
    BY <2>1, <1>3, <1>5 DEF IdleInv, Ignored
<1>14. DispatchInv'
  <2>1. \A x \in to_handle : x[1] \in Fds
    BY DEF TypeOK
  <2> QED
    BY <1>3, <1>5, <2>1 DEF DispatchInv
<1> QED
  BY <1>9, <1>10, <1>11, <1>12, <1>13, <1>14, <1>15

\* PollPoller::RemoveChannel(): the last pollfd takes the free place, and the
\* channel it belongs to learns of it.
LEMMA PollRemoveInv ==
  ASSUME IInv, use_poll, NEW fd \in Fds, Remove(fd), RemoveAssert(fd)
  PROVE  IInv'
<1> USE DEF IInv
<1> DEFINE n == Len(pollfds_)
<1>1. /\ Registered(fd) /\ alive[fd] /\ events_[fd] = {}
      /\ channels_' = [channels_ EXCEPT ![fd] = 0]
      /\ pollfds_' = [i \in 1..(n - 1) |-> IF i = index_[fd] + 1 THEN pollfds_[n] ELSE pollfds_[i]]
      /\ index_' = MovedIndex(index_[fd])
      /\ alive' = [alive EXCEPT ![fd] = FALSE]
      /\ UNCHANGED <<use_poll, channel, events_, epoll, refused, enabled_again, added_idle, aborted,
                     event_handling_, current_active_channel_, active_channels_, to_handle>>
      /\ MayRemove(fd)
  BY DEF Remove, InUserCode, PollRemoveChannel, Registered, dispatch, history
<1>2. n \in Nat /\ index_[fd] \in 0..(n - 1)
  BY SMTT(30), <1>1 DEF Placed, TypeOK
<1>3. PICK last \in Fds : Registered(last) /\ index_[last] = n - 1
  BY SMTT(30), <1>2 DEF Placed
<1>4. pollfds_[n].fd \in {last, Ignored(last)}
  <2>1. index_[last] + 1 = n
    BY SMTT(30), <1>2, <1>3
  <2> QED
    BY <2>1, <1>1, <1>3 DEF Placed
<1>5. index_' = IF index_[fd] = n - 1 THEN index_ ELSE [index_ EXCEPT ![last] = index_[fd]]
  <2>1. (IF pollfds_[n].fd < 0 THEN Ignored(pollfds_[n].fd) ELSE pollfds_[n].fd) = last
    BY SMTT(30), <1>4, FdsAssumption DEF Ignored
  <2> QED
    BY <2>1, <1>1 DEF MovedIndex
<1>6. \A g, h \in Fds : Registered(g) /\ Registered(h) /\ index_[g] = index_[h] => g = h
  <2> SUFFICES ASSUME NEW g \in Fds, NEW h \in Fds, Registered(g), Registered(h),
                      index_[g] = index_[h]
               PROVE  g = h
    OBVIOUS
  <2>1. pollfds_[index_[g] + 1].fd \in {g, Ignored(g)} /\ pollfds_[index_[g] + 1].fd \in {h, Ignored(h)}
    BY DEF Placed
  <2>2. g \in Nat /\ h \in Nat
    BY FdsAssumption
  <2> QED
    BY SMTT(30), <2>1, <2>2 DEF Ignored
<1>7. /\ ~Registered(fd)'
      /\ \A g \in Fds : g # fd => /\ Registered(g)' <=> Registered(g)
                                  /\ alive'[g] <=> alive[g]
                                  /\ channels_'[g] = channels_[g]
      /\ ~alive'[fd]
  BY <1>1 DEF TypeOK, Registered
<1>8. \A g \in Fds : g # fd /\ g # last => index_'[g] = index_[g]
  BY <1>5 DEF TypeOK
<1>9. last # fd => index_'[last] = index_[fd] /\ index_[fd] # n - 1
  BY <1>1, <1>3, <1>5, <1>6 DEF TypeOK
<1>10. /\ Len(pollfds_') = n - 1
       /\ \A i \in 1..(n - 1) : i # index_[fd] + 1 => pollfds_'[i] = pollfds_[i]
       /\ index_[fd] # n - 1 => pollfds_'[index_[fd] + 1] = pollfds_[n]
  BY SMTT(30), <1>1, <1>2
\* Where the pollfd of a channel that stays is found.
<1>11. ASSUME NEW g \in Fds, g # fd, Registered(g)
       PROVE  /\ index_'[g] \in 0..(n - 2)
              /\ pollfds_'[index_'[g] + 1] = pollfds_[index_[g] + 1]
  <2>1. index_[g] \in 0..(n - 1) /\ index_[g] # index_[fd]
    BY <1>1, <1>6, <1>11 DEF Placed
  <2>2. CASE g = last
    BY SMTT(30), <2>1, <2>2, <1>2, <1>3, <1>9, <1>10, <1>11
  <2>3. CASE g # last
    <3>1. index_[g] # n - 1
      BY <2>3, <1>3, <1>6, <1>11
    <3>2. index_[g] \in 0..(n - 2) /\ index_[g] + 1 \in 1..(n - 1) /\ index_[g] + 1 # index_[fd] + 1
      BY SMTT(30), <2>1, <3>1, <1>2
    <3>3. index_'[g] = index_[g]
      BY <2>3, <1>8, <1>11
    <3>4. pollfds_'[index_[g] + 1] = pollfds_[index_[g] + 1]
      BY <3>2, <1>10
    <3> QED
      BY <3>2, <3>3, <3>4
  <2> QED
    BY <2>2, <2>3
<1>12. TypeOK'
  <2>1. \A i \in 1..n : pollfds_[i] \in [fd : Int, events : SUBSET Events]
    BY ElementOfSeq DEF TypeOK
  <2>2. pollfds_' \in Seq([fd : Int, events : SUBSET Events])
    <3>1. pollfds_' \in [1..(n - 1) -> [fd : Int, events : SUBSET Events]]
      BY SMTT(30), <2>1, <1>1, <1>2
    <3>2. n - 1 \in Nat
      BY SMTT(30), <1>2
    <3> QED
      BY <3>1, <3>2, FunctionIsSeq
  <2>3. index_' \in [Fds -> Int] /\ channels_' \in [Fds -> Nat] /\ alive' \in [Fds -> BOOLEAN]
    BY <1>1, <1>2, <1>5 DEF TypeOK
  <2> QED
    BY <1>1, <2>2, <2>3 DEF TypeOK
<1>13. Placed'
  <2>1. ASSUME NEW g \in Fds, Registered(g)'
        PROVE  /\ index_'[g] \in 0..(Len(pollfds_') - 1)
               /\ pollfds_'[index_'[g] + 1].fd \in {g, Ignored(g)}
               /\ pollfds_'[index_'[g] + 1].events = events_'[g]
    <3>1. g # fd /\ Registered(g)
      BY <2>1, <1>7
    <3>2. /\ pollfds_[index_[g] + 1].fd \in {g, Ignored(g)}
          /\ pollfds_[index_[g] + 1].events = events_[g]
      BY <3>1, <1>1 DEF Placed
    <3>3. /\ index_'[g] \in 0..(n - 2)
          /\ pollfds_'[index_'[g] + 1] = pollfds_[index_[g] + 1]
      BY <3>1, <1>11
    <3>4. Len(pollfds_') - 1 = n - 2 /\ events_'[g] = events_[g]
      BY SMTT(30), <1>1, <1>2, <1>10
    <3> QED
      BY <3>2, <3>3, <3>4
  <2>2. ASSUME NEW i \in 1..(n - 1)
        PROVE  \E g \in Fds : Registered(g)' /\ index_'[g] = i - 1
    <3>1. CASE i = index_[fd] + 1
      BY SMTT(30), <3>1, <1>2, <1>3, <1>7, <1>9
    <3>2. CASE i # index_[fd] + 1
      <4>1. PICK g \in Fds : Registered(g) /\ index_[g] = i - 1
        BY SMTT(30), <1>1, <1>2 DEF Placed
      <4>2. g # fd /\ g # last
        BY SMTT(30), <4>1, <3>2, <1>2, <1>3
      <4> QED
        BY <4>1, <4>2, <1>7, <1>8
    <3> QED
      BY <3>1, <3>2
  <2> QED
    BY <2>1, <2>2, <1>10 DEF Placed, Ignored
<1>14. MapInv'
  <2>1. ASSUME NEW g \in Fds, g # fd, ~Registered(g)
        PROVE  index_'[g] = index_[g]
    BY <2>1, <1>3, <1>8
  <2> QED
    BY <2>1, <1>1, <1>7 DEF MapInv
<1>15. PollInv'
  <2>1. ASSUME NEW g \in Fds, Registered(g)', g \notin enabled_again, events_[g] # {}
        PROVE  pollfds_'[index_'[g] + 1].fd = g
    BY <2>1, <1>1, <1>7, <1>11 DEF PollInv
  <2> QED
    BY <2>1, <1>1 DEF PollInv
<1>16. EPollInv'
  BY <1>1 DEF EPollInv
<1>18. IdleInv'
  <2>1. ASSUME NEW g \in Fds, Registered(g)', g \notin added_idle, events_[g] = {}
        PROVE  pollfds_'[index_'[g] + 1].fd = Ignored(g)
    BY <2>1, <1>1, <1>7, <1>11 DEF IdleInv
  <2> QED
    BY <2>1, <1>1 DEF IdleInv, Ignored
<1>17. DispatchInv'
  <2>1. \A x \in to_handle : x[1] \in Fds
    BY DEF TypeOK
  <2>2. \A x \in to_handle : x[1] # fd
    BY <1>1 DEF DispatchInv, MayRemove
  <2> QED
    BY <1>1, <1>7, <2>1, <2>2 DEF DispatchInv
<1> QED
  BY <1>12, <1>13, <1>14, <1>15, <1>16, <1>17, <1>18

\* PollPoller::RemoveChannel() when its assert fails: the program ends there.
LEMMA AbortInv ==
  ASSUME IInv, use_poll, NEW fd \in Fds, Remove(fd), ~RemoveAssert(fd)
  PROVE  IInv'
<1>1. aborted' = TRUE
  BY DEF Remove, PollRemoveChannel
<1>2. UNCHANGED <<use_poll, channel, alive, events_, index_, channels_, pollfds_, epoll, refused,
                  event_handling_, current_active_channel_, active_channels_, to_handle,
                  enabled_again, added_idle>>
  BY <1>1 DEF Remove, PollRemoveChannel, dispatch, history
<1> QED
  BY SMTT(30), <1>1, <1>2 DEF IInv, TypeOK, Placed, IdleInv, MapInv, PollInv, EPollInv, DispatchInv,
                              Registered, InKernel, Ignored

\* The kernel's entries of a descriptor under an EPollPoller.
LEMMA KernelEntries ==
  ASSUME TypeOK, EPollInv, ~use_poll, NEW fd \in Fds
  PROVE  /\ Entries(fd) = {} <=> ~InKernel(fd)
         /\ Entries(fd) \subseteq {<<fd, events_[fd], channel[fd]>>}
<1>1. ASSUME NEW x \in Entries(fd)
      PROVE  InKernel(fd) /\ x = <<fd, events_[fd], channel[fd]>>
  <2>1. x \in epoll /\ x[1] = fd
    BY DEF Entries
  <2>2. x = <<x[1], x[2], x[3]>>
    BY SMTT(30), <2>1 DEF TypeOK
  <2> QED
    BY <2>1, <2>2 DEF EPollInv
<1>2. InKernel(fd) => <<fd, events_[fd], channel[fd]>> \in Entries(fd)
  BY DEF EPollInv, Entries
<1> QED
  BY <1>1, <1>2

\* EPollPoller::UpdateChannel()
LEMMA EPollUpdateInv ==
  ASSUME IInv, ~use_poll, NEW fd \in Fds, NEW events \in SUBSET Events, Update(fd, events)
  PROVE  IInv'
<1> USE DEF IInv
<1> DEFINE entry == <<fd, events, channel[fd]>>
<1>1. /\ alive[fd] /\ channel[fd] > 0
      /\ events_' = [events_ EXCEPT ![fd] = events]
      /\ index_' = EPollIndex(fd, events)
      /\ channels_' = IF index_[fd] = kNew THEN [channels_ EXCEPT ![fd] = channel[fd]] ELSE channels_
      /\ enabled_again' = enabled_again
      /\ added_idle' = added_idle \ {fd}
      /\ UNCHANGED <<use_poll, channel, alive, pollfds_, event_handling_,
                     current_active_channel_, active_channels_, to_handle, aborted>>
  BY DEF Update, EPollUpdateChannel, dispatch, MapInv
<1>2. /\ index_[fd] \in {kNew, kAdded, kDeleted}
      /\ index_[fd] # kNew <=> Registered(fd)
      /\ index_[fd] = kAdded <=> InKernel(fd)
  BY SMTT(30), <1>1 DEF MapInv, EPollInv, InKernel, kNew, kAdded, kDeleted
<1>3. /\ Registered(fd)' /\ channels_'[fd] = channel[fd] /\ events_'[fd] = events
      /\ \A g \in Fds : g # fd => /\ index_'[g] = index_[g] /\ events_'[g] = events_[g]
                                  /\ (Registered(g)' <=> Registered(g)) /\ channels_'[g] = channels_[g]
      /\ index_'[fd] = IF index_[fd] = kAdded /\ events = {} THEN kDeleted ELSE kAdded
  BY SMTT(30), <1>1, <1>2 DEF TypeOK, MapInv, Registered, EPollIndex
<1>4. /\ ~refused'
      /\ epoll' = IF index_[fd] = kAdded /\ events = {}
                  THEN epoll \ Entries(fd) ELSE (epoll \ Entries(fd)) \cup {entry}
  <2>1. ~refused
    BY DEF EPollInv
  <2>2. Entries(fd) = {} <=> index_[fd] # kAdded
    BY <1>2, KernelEntries
  <2>3. CASE index_[fd] \in {kNew, kDeleted}
    <3>1. index_[fd] # kAdded
      BY SMTT(30), <2>3 DEF kNew, kAdded, kDeleted
    <3>2. CtlAdd(fd, events)
      BY <3>1 DEF Update, EPollUpdateChannel
    <3> QED
      BY <2>1, <2>2, <3>1, <3>2 DEF CtlAdd
  <2>4. CASE index_[fd] = kAdded /\ events = {}
    <3>1. CtlDel(fd)
      BY SMTT(30), <2>4 DEF Update, EPollUpdateChannel, kNew, kAdded, kDeleted
    <3> QED
      BY <2>1, <2>2, <2>4, <3>1 DEF CtlDel
  <2>5. CASE index_[fd] = kAdded /\ events # {}
    <3>1. CtlMod(fd, events)
      BY SMTT(30), <2>5 DEF Update, EPollUpdateChannel, kNew, kAdded, kDeleted
    <3> QED
      BY <2>1, <2>2, <2>5, <3>1 DEF CtlMod
  <2> QED
    BY <2>3, <2>4, <2>5, <1>2
<1>5. TypeOK'
  <2>1. entry \in Fds \X (SUBSET Events) \X Nat
    BY DEF TypeOK
  <2>2. epoll' \subseteq Fds \X (SUBSET Events) \X Nat
    BY <1>4, <2>1 DEF TypeOK
  <2>3. index_' \in [Fds -> Int] /\ channels_' \in [Fds -> Nat] /\ events_' \in [Fds -> SUBSET Events]
    BY SMTT(30), <1>1 DEF TypeOK, EPollIndex, kAdded, kDeleted
  <2>4. refused' \in BOOLEAN
    BY ZenonT(30) DEF Update, EPollUpdateChannel, CtlAdd, CtlMod, CtlDel
  <2> HIDE DEF entry
  <2> QED
    BY <1>1, <2>2, <2>3, <2>4 DEF TypeOK
<1>6. Placed' /\ IdleInv' /\ PollInv'
  BY <1>1 DEF Placed, IdleInv, PollInv
<1>7. MapInv'
  BY SMTT(30), <1>1, <1>3 DEF MapInv
<1>8. EPollInv'
  <2>1. \A g \in Fds : g # fd => (InKernel(g)' <=> InKernel(g))
    BY <1>3 DEF InKernel
  <2>2. InKernel(fd)' <=> ~(index_[fd] = kAdded /\ events = {})
    BY SMTT(30), <1>3 DEF InKernel, kAdded, kDeleted
  <2>3. \A g \in Fds : Registered(g)' =>
          /\ index_'[g] \in {kAdded, kDeleted}
          /\ index_'[g] = kDeleted => events_'[g] = {}
    BY SMTT(30), <1>3 DEF EPollInv, kAdded, kDeleted
  <2>4. ASSUME NEW g \in Fds, InKernel(g)'
        PROVE  <<g, events_'[g], channel'[g]>> \in epoll'
    <3>1. CASE g = fd
      BY SMTT(30), <3>1, <2>2, <2>4, <1>1, <1>3, <1>4
    <3>2. CASE g # fd
      <4>1. <<g, events_[g], channel[g]>> \in epoll
        BY <3>2, <2>1, <2>4 DEF EPollInv
      <4>2. <<g, events_[g], channel[g]>> \notin Entries(fd)
        BY <3>2 DEF Entries
      <4> QED
        BY SMTT(30), <4>1, <4>2, <3>2, <1>1, <1>3, <1>4
    <3> QED
      BY <3>1, <3>2
  <2>5. ASSUME NEW x \in epoll'
        PROVE  InKernel(x[1])' /\ x[2] = events_'[x[1]] /\ x[3] = channel'[x[1]]
    <3>1. CASE x \in epoll /\ x \notin Entries(fd)
      <4>1. x[1] # fd /\ x[1] \in Fds
        BY <3>1 DEF Entries, TypeOK
      <4>2. InKernel(x[1]) /\ x[2] = events_[x[1]] /\ x[3] = channel[x[1]]
        BY <3>1 DEF EPollInv
      <4> QED
        BY <4>1, <4>2, <2>1, <1>1, <1>3
    <3>2. CASE x = entry /\ ~(index_[fd] = kAdded /\ events = {})
      BY <3>2, <2>2, <1>1, <1>3
    <3> QED
      BY <3>1, <3>2, <1>4
  <2> QED
    BY <2>3, <2>4, <2>5, <1>1, <1>4 DEF EPollInv
<1>9. DispatchInv'
  <2>1. \A x \in to_handle : x[1] \in Fds
    BY DEF TypeOK
  <2> QED
    BY <1>1, <1>3, <2>1 DEF DispatchInv
<1> QED
  BY <1>5, <1>6, <1>7, <1>8, <1>9

\* EPollPoller::RemoveChannel()
LEMMA EPollRemoveInv ==
  ASSUME IInv, ~use_poll, NEW fd \in Fds, Remove(fd)
  PROVE  IInv'
<1> USE DEF IInv
<1>1. /\ Registered(fd) /\ alive[fd] /\ events_[fd] = {}
      /\ channels_' = [channels_ EXCEPT ![fd] = 0]
      /\ index_' = [index_ EXCEPT ![fd] = kNew]
      /\ alive' = [alive EXCEPT ![fd] = FALSE]
      /\ UNCHANGED <<use_poll, channel, events_, pollfds_, enabled_again, added_idle, aborted,
                     event_handling_, current_active_channel_, active_channels_, to_handle>>
      /\ MayRemove(fd)
  BY DEF Remove, InUserCode, EPollRemoveChannel, Registered, dispatch, history
<1>2. ~refused' /\ epoll' = epoll \ Entries(fd)
  <2>1. ~refused
    BY DEF EPollInv
  <2>2. Entries(fd) = {} <=> index_[fd] # kAdded
    BY <1>1, KernelEntries DEF InKernel
  <2>3. CASE index_[fd] = kAdded
    BY <2>1, <2>2, <2>3 DEF Remove, EPollRemoveChannel, CtlDel
  <2>4. CASE index_[fd] # kAdded
    BY <2>1, <2>2, <2>4 DEF Remove, EPollRemoveChannel
  <2> QED
    BY <2>3, <2>4
<1>3. /\ ~Registered(fd)' /\ ~alive'[fd]
      /\ \A g \in Fds : g # fd => /\ Registered(g)' <=> Registered(g)
                                  /\ alive'[g] <=> alive[g]
                                  /\ channels_'[g] = channels_[g] /\ index_'[g] = index_[g]
  BY <1>1 DEF TypeOK, Registered
<1>4. TypeOK'
  <2>1. index_' \in [Fds -> Int] /\ channels_' \in [Fds -> Nat] /\ alive' \in [Fds -> BOOLEAN]
    BY SMTT(30), <1>1 DEF TypeOK, kNew
  <2>2. epoll' \subseteq Fds \X (SUBSET Events) \X Nat
    BY <1>2 DEF TypeOK
  <2>3. refused' \in BOOLEAN
    BY DEF Remove, EPollRemoveChannel, CtlDel, TypeOK
  <2> QED
    BY <1>1, <2>1, <2>2, <2>3 DEF TypeOK
<1>5. Placed' /\ IdleInv' /\ PollInv'
  BY <1>1 DEF Placed, IdleInv, PollInv
<1>6. MapInv'
  BY <1>1, <1>3 DEF MapInv
<1>7. EPollInv'
  <2>1. \A g \in Fds : InKernel(g)' <=> g # fd /\ InKernel(g)
    BY <1>3 DEF InKernel
  <2>2. \A x \in epoll' : x \in epoll /\ x[1] # fd /\ x[1] \in Fds
    BY <1>2 DEF Entries, TypeOK
  <2>3. ASSUME NEW g \in Fds, InKernel(g)'
        PROVE  <<g, events_[g], channel[g]>> \in epoll'
    <3>1. g # fd /\ InKernel(g)
      BY <2>1, <2>3
    <3>2. <<g, events_[g], channel[g]>> \in epoll
      BY <3>1 DEF EPollInv
    <3> QED
      BY <3>1, <3>2, <1>2 DEF Entries
  <2> QED
    BY SMTT(30), <2>1, <2>2, <2>3, <1>1, <1>2, <1>3 DEF EPollInv
<1>8. DispatchInv'
  <2>1. \A x \in to_handle : x[1] \in Fds /\ x[1] # fd
    BY <1>1 DEF TypeOK, DispatchInv, MayRemove
  <2> QED
    BY <1>1, <1>3, <2>1 DEF DispatchInv
<1> QED
  BY <1>4, <1>5, <1>6, <1>7, <1>8

------------------------------------------------------------------------------
\* What Poll() can report is a channel that is registered and in use.
LEMMA ReportableLive ==
  ASSUME IInv, NEW x \in Reportable
  PROVE  x[1] \in Fds /\ Registered(x[1]) /\ x[2] = channel[x[1]]
<1> USE DEF IInv
<1>1. CASE use_poll
  <2>1. PICK i \in 1..Len(pollfds_) : pollfds_[i].fd >= 0 /\ x = <<pollfds_[i].fd, channels_[pollfds_[i].fd]>>
    BY <1>1 DEF Reportable
  <2>2. PICK fd \in Fds : Registered(fd) /\ index_[fd] = i - 1
    BY <1>1 DEF Placed
  <2>3. index_[fd] + 1 = i
    BY SMTT(30), <2>2
  <2>4. pollfds_[i].fd \in {fd, Ignored(fd)}
    BY <1>1, <2>2, <2>3 DEF Placed
  <2>5. pollfds_[i].fd = fd
    BY SMTT(30), <2>1, <2>4, FdsAssumption DEF Ignored
  <2> QED
    BY <2>1, <2>2, <2>5 DEF MapInv
<1>2. CASE ~use_poll
  <2>1. PICK y \in epoll : x = <<y[1], y[3]>>
    BY <1>2 DEF Reportable
  <2>2. y[1] \in Fds
    BY DEF TypeOK
  <2> QED
    BY <1>2, <2>1, <2>2 DEF EPollInv, InKernel
<1> QED
  BY <1>1, <1>2

\* The steps of Loop() change nothing of the pollers.
LEMMA LoopInv ==
  ASSUME IInv, Poll \/ HandleEvent \/ EndOfDispatch
  PROVE  IInv'
<1> USE DEF IInv
<1>1. UNCHANGED <<use_poll, channel, alive, events_, index_, channels_, pollfds_, epoll, refused,
                  enabled_again, added_idle, aborted>>
  BY DEF Poll, HandleEvent, EndOfDispatch, members, poller, history
<1>2. Placed' /\ IdleInv' /\ MapInv' /\ PollInv'
  BY <1>1 DEF Placed, IdleInv, MapInv, PollInv, Registered
<1>3. EPollInv'
  BY <1>1 DEF EPollInv, InKernel, Registered
<1>4. CASE Poll
  <2>1. to_handle' \subseteq Reportable /\ active_channels_' = {x[1] : x \in to_handle'}
        /\ event_handling_' = TRUE /\ current_active_channel_' = NULL /\ current_active_channel_ = NULL
    BY <1>4 DEF Poll, TypeOK
  <2>2. \A x \in to_handle' : x[1] \in Fds /\ Registered(x[1]) /\ x[2] = channel[x[1]]
    BY <2>1, ReportableLive
  <2>3. to_handle' \subseteq Fds \X Nat
    <3> SUFFICES ASSUME NEW x \in to_handle' PROVE x \in Fds \X Nat
      OBVIOUS
    <3>1. x[1] \in Fds /\ x[2] \in Nat
      BY <2>2 DEF TypeOK
    <3>2. x = <<x[1], x[2]>>
      BY SMTT(30), <2>1 DEF Reportable
    <3> QED
      BY <3>1, <3>2
  <2>4. TypeOK'
    BY SMTT(30), <1>1, <2>1, <2>2, <2>3 DEF TypeOK
  <2>5. \A x \in to_handle' : x[1] # NULL
    BY SMTT(30), <2>2, FdsAssumption DEF NULL
  <2>6. DispatchInv'
    BY <1>1, <2>1, <2>2, <2>5 DEF DispatchInv, Registered
  <2> QED
    BY <1>2, <1>3, <2>4, <2>6
<1>5. CASE HandleEvent
  <2>1. PICK x \in to_handle : current_active_channel_' = x[1] /\ to_handle' = to_handle \ {x}
    BY <1>5 DEF HandleEvent
  <2>2. UNCHANGED <<event_handling_, active_channels_>>
    BY <1>5 DEF HandleEvent
  <2>3. x[1] \in Fds /\ event_handling_
    BY DEF TypeOK, DispatchInv
  <2>4. TypeOK'
    BY <1>1, <2>1, <2>2, <2>3 DEF TypeOK
  <2>5. \A y \in to_handle' : y[1] # x[1]
    <3> SUFFICES ASSUME NEW y \in to_handle, y[1] = x[1] PROVE y = x
      BY <2>1
    <3>1. y = <<y[1], y[2]>> /\ x = <<x[1], x[2]>>
      BY SMTT(30) DEF TypeOK
    <3> QED
      BY <3>1 DEF DispatchInv
  <2>6. DispatchInv'
    BY <1>1, <2>1, <2>2, <2>5 DEF DispatchInv, Registered
  <2> QED
    BY <1>2, <1>3, <2>4, <2>6
<1>6. CASE EndOfDispatch
  <2>1. TypeOK'
    BY <1>1, <1>6 DEF EndOfDispatch, TypeOK
  <2>2. DispatchInv'
    BY <1>6 DEF EndOfDispatch, DispatchInv
  <2> QED
    BY <1>2, <1>3, <2>1, <2>2
<1> QED
  BY <1>4, <1>5, <1>6

\* IInv is an invariant of the channels, the poller and the loop.
THEOREM Inductive == Spec => []IInv
<1>1. Init => IInv
  BY InitInv
<1>2. IInv /\ [Next]_vars => IInv'
  <2> SUFFICES ASSUME IInv, [Next]_vars PROVE IInv'
    OBVIOUS
  <2>1. ASSUME NEW fd \in Fds, NEW events \in SUBSET Events, Update(fd, events) PROVE IInv'
    <3>1. index_[fd] < 0 \/ index_[fd] >= 0
      BY SMTT(30) DEF IInv, TypeOK
    <3> QED
      BY <2>1, <3>1, PollAddInv, PollChangeInv, EPollUpdateInv
  <2>2. ASSUME NEW fd \in Fds, Remove(fd) PROVE IInv'
    BY <2>2, PollRemoveInv, AbortInv, EPollRemoveInv
  <2>3. CASE UNCHANGED vars
    BY <2>3, SMTT(30) DEF vars, members, dispatch, poller, history, IInv, TypeOK, Placed, IdleInv, MapInv, PollInv,
                EPollInv, DispatchInv, Registered, InKernel
  <2> QED
    BY <2>1, <2>2, <2>3, NewChannelInv, LoopInv DEF Next
<1> QED
  BY <1>1, <1>2, PTL DEF Spec

\* The variables keep their types whatever channels do.
THEOREM TypeCorrect == Spec => []TypeOK
<1>1. IInv => TypeOK
  BY DEF IInv
<1> QED
  BY <1>1, Inductive, PTL

\* Through any additions, changes and removals by swapping, PollPoller finds
\* each channel's pollfd at the channel's index_, and no pollfd without channel;
\* RemoveChannel()'s assert holds of every disabled channel but one added so.
THEOREM PollIndexCorrect == Spec => []PollIndexed
<1>1. IInv => PollIndexed
  <2> SUFFICES ASSUME IInv, use_poll, NEW fd \in Fds, Registered(fd), fd \notin added_idle, events_[fd] = {}
               PROVE  RemoveAssert(fd)
    BY DEF IInv, Placed, PollIndexed
  <2> QED
    BY DEF IInv, IdleInv, Placed, RemoveAssert
<1> QED
  BY <1>1, Inductive, PTL

\* EPollPoller never asks the kernel for something that it refuses.
THEOREM EPollNeverRefused == Spec => []EPollAccepts
<1>1. IInv => EPollAccepts
  BY DEF IInv, TypeOK, PollInv, EPollInv, EPollAccepts
<1> QED
  BY <1>1, Inductive, PTL

\* With either poller, events reach only channels that are registered and in
\* use, also when descriptors are reused within an iteration of the loop.
THEOREM EventsReachLiveChannels == Spec => []OnlyLiveChannels
<1>1. IInv => OnlyLiveChannels
  <2> SUFFICES ASSUME IInv, NEW x \in Reportable \cup to_handle
               PROVE  alive[x[1]] /\ x[2] = channel[x[1]] /\ x[2] = channels_[x[1]]
    BY DEF OnlyLiveChannels
  <2>1. x[1] \in Fds /\ Registered(x[1]) /\ x[2] = channel[x[1]]
    BY ReportableLive DEF IInv, TypeOK, DispatchInv
  <2> QED
    BY <2>1 DEF IInv, MapInv
<1> QED
  BY <1>1, Inductive, PTL

\* With either poller, the kernel watches each descriptor for exactly what its
\* channel asks for (PollPoller: unless the channel was enabled again).
THEOREM WatchingCorrect == Spec => []WatchesWhatIsAsked
<1>1. IInv => WatchesWhatIsAsked
  <2> SUFFICES ASSUME IInv, NEW fd \in Fds, fd \notin enabled_again
               PROVE  Watched(fd) = IF Registered(fd) THEN events_[fd] ELSE {}
    BY DEF WatchesWhatIsAsked
  <2> USE DEF IInv
  <2>1. CASE use_poll
    <3> DEFINE places == {j \in 1..Len(pollfds_) : pollfds_[j].fd = fd}
    <3>1. ASSUME NEW j \in places PROVE Registered(fd) /\ j = index_[fd] + 1
      <4>1. PICK g \in Fds : Registered(g) /\ index_[g] = j - 1
        BY <2>1 DEF Placed
      <4>2. index_[g] + 1 = j
        BY SMTT(30), <4>1
      <4>3. fd \in {g, Ignored(g)}
        <5>1. pollfds_[index_[g] + 1].fd \in {g, Ignored(g)}
          BY <2>1, <4>1 DEF Placed
        <5>2. pollfds_[j].fd = fd
          OBVIOUS
        <5> HIDE DEF IInv
        <5> QED
          BY <4>2, <5>1, <5>2
      <4>4. fd = g
        BY SMTT(30), <4>3, FdsAssumption DEF Ignored
      <4> QED
        BY <4>1, <4>2, <4>4
    <3>2. Watched(fd) = UNION {pollfds_[i].events : i \in places}
      BY <2>1 DEF Watched
    <3>3. CASE ~Registered(fd)
      <4>1. places = {}
        BY <3>1, <3>3
      <4> QED
        BY <3>2, <3>3, <4>1
    <3>4. CASE Registered(fd)
      <4>1. /\ index_[fd] + 1 \in 1..Len(pollfds_) /\ pollfds_[index_[fd] + 1].events = events_[fd]
            /\ events_[fd] # {} => pollfds_[index_[fd] + 1].fd = fd
        BY SMTT(30), <2>1, <3>4 DEF Placed, PollInv, TypeOK
      <4>2. places \subseteq {index_[fd] + 1}
        BY <3>1
      <4>3. events_[fd] # {} => index_[fd] + 1 \in places
        BY <4>1
      <4> HIDE DEF places
      <4> HIDE DEF IInv
      <4>4. \A e : e \in Watched(fd) <=> e \in events_[fd]
        <5>1. ASSUME NEW e \in Watched(fd) PROVE e \in events_[fd]
          BY <5>1, <3>2, <4>1, <4>2
        <5>2. ASSUME NEW e \in events_[fd] PROVE e \in Watched(fd)
          BY <5>2, <3>2, <4>1, <4>3
        <5> QED
          BY <5>1, <5>2
      <4> QED
        BY <3>4, <4>4
    <3> QED
      BY <3>3, <3>4
  <2>2. CASE ~use_poll
    <3>1. Watched(fd) = UNION {x[2] : x \in Entries(fd)}
      BY <2>2 DEF Watched
    <3>2. /\ Entries(fd) = {} <=> ~InKernel(fd)
          /\ Entries(fd) \subseteq {<<fd, events_[fd], channel[fd]>>}
      BY <2>2, KernelEntries
    <3>3. CASE ~InKernel(fd)
      <4>1. Registered(fd) => events_[fd] = {}
        BY <2>2, <3>3 DEF EPollInv, InKernel
      <4> QED
        BY SMTT(30), <3>1, <3>2, <3>3, <4>1
    <3>4. CASE InKernel(fd)
      <4>1. Entries(fd) = {<<fd, events_[fd], channel[fd]>>}
        BY <3>2, <3>4
      <4> QED
        BY SMTT(30), <3>1, <3>4, <4>1 DEF InKernel
    <3> QED
      BY <3>3, <3>4
  <2> QED
    BY <2>1, <2>2
<1> QED
  BY <1>1, Inductive, PTL
==============================================================================
