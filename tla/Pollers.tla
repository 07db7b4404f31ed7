------------------------------- MODULE Pollers -------------------------------
(***************************************************************************)
(* net/poller.cpp, net/poller/*.cpp and the part of net/channel.h and      *)
(* net/event_loop.cpp that drives them: the channels of one loop, the      *)
(* poller that the loop was given (poll(2) or epoll(7)) and the dispatch   *)
(* of what it reports.  Everything here runs in the loop's thread.         *)
(*                                                                         *)
(* A descriptor has one Channel at a time.  After Remove() its owner drops *)
(* the channel; the descriptor, closed and opened again, may then get a    *)
(* new one.  Channels are told apart by the number they have on their      *)
(* descriptor, which stands for the Channel pointer.                       *)
(*                                                                         *)
(* Asserts are compiled in.  The one that callers do not keep is the last  *)
(* of PollPoller::RemoveChannel(): it ends the program when it fails.      *)
(***************************************************************************)
EXTENDS Integers, Sequences

CONSTANTS Fds,         \* descriptors
          Reused,      \* bound: the descriptors that get more than one channel
          MaxChannels, \* bound: how many each of those gets
          Events       \* the events that channels ask for

ASSUME FdsAssumption == Fds \subseteq Nat
ASSUME ReusedAssumption == Reused \subseteq Fds /\ MaxChannels \in Nat

VARIABLES
  use_poll,                \* the poller is a PollPoller, not an EPollPoller
  channel,                 \* per descriptor: its channel's number, 0 before the first
  alive,                   \* per descriptor: its owner still uses that channel
  events_, index_,         \* per descriptor: members of its channel
  channels_,               \* the poller's map: channel of a descriptor, 0 for none
  pollfds_,                \* of PollPoller: records of fd and events
  epoll,                   \* the kernel's interest list: <<fd, events, channel>>
  refused,                 \* epoll_ctl() has failed
  event_handling_, current_active_channel_,
  active_channels_,        \* descriptors of the channels that Poll() reported
  to_handle,               \* those not handled yet, with the channel reported
  aborted,                 \* an assert has failed, and the program has ended
  enabled_again,           \* history: descriptors whose channel was enabled
                           \* after a PollPoller had seen it disabled
  added_idle               \* history: those whose channel asked for nothing when a
                           \* PollPoller first saw it, and was not updated since

members == <<channel, alive, events_, index_>>
dispatch == <<event_handling_, current_active_channel_, active_channels_, to_handle>>
poller == <<channels_, pollfds_, epoll, refused>>
history == <<enabled_again, added_idle>>
vars == <<use_poll, members, dispatch, poller, aborted, history>>

NULL == -1

kNew == -1
kAdded == 1
kDeleted == 2

Init ==
  /\ use_poll \in BOOLEAN
  /\ channel = [fd \in Fds |-> 0] /\ alive = [fd \in Fds |-> FALSE]
  /\ events_ = [fd \in Fds |-> {}] /\ index_ = [fd \in Fds |-> kNew]
  /\ channels_ = [fd \in Fds |-> 0]
  /\ pollfds_ = <<>>
  /\ epoll = {} /\ refused = FALSE
  /\ event_handling_ = FALSE /\ current_active_channel_ = NULL
  /\ active_channels_ = {} /\ to_handle = {}
  /\ aborted = FALSE /\ enabled_again = {} /\ added_idle = {}

------------------------------------------------------------------------------
(* PollPoller.  events is the new value of the channel's events_. *)

\* What marks a pollfd that poll() is to skip.
Ignored(fd) == -fd - 1

PollUpdateChannel(fd, events) ==
  IF index_[fd] < 0
  THEN /\ pollfds_' = Append(pollfds_, [fd |-> fd, events |-> events])
       /\ index_' = [index_ EXCEPT ![fd] = Len(pollfds_)]
       /\ channels_' = [channels_ EXCEPT ![fd] = channel[fd]]
  ELSE /\ pollfds_' = [pollfds_ EXCEPT ![index_[fd] + 1] =
                         [fd |-> IF events = {} THEN Ignored(fd) ELSE @.fd, events |-> events]]
       /\ UNCHANGED <<index_, channels_>>

MovedIndexKept(idx) == index_

\* index_ when the last pollfd has taken the place at idx of the removed one.
MovedIndex(idx) ==
  LET channel_at_end == pollfds_[Len(pollfds_)].fd
      moved == IF channel_at_end < 0 THEN Ignored(channel_at_end) ELSE channel_at_end
  IN  IF idx = Len(pollfds_) - 1 THEN index_ ELSE [index_ EXCEPT ![moved] = idx]

\* The last assert of RemoveChannel().
RemoveAssert(fd) ==
  LET pfd == pollfds_[index_[fd] + 1] IN pfd.fd = Ignored(fd) /\ pfd.events = events_[fd]

PollRemoveChannel(fd) ==
  IF RemoveAssert(fd)
  THEN /\ channels_' = [channels_ EXCEPT ![fd] = 0]
       /\ pollfds_' = [i \in 1..(Len(pollfds_) - 1) |->
                         IF i = index_[fd] + 1 THEN pollfds_[Len(pollfds_)] ELSE pollfds_[i]]
       /\ index_' = MovedIndex(index_[fd])
       /\ UNCHANGED aborted
  ELSE aborted' = TRUE /\ UNCHANGED <<channels_, pollfds_, index_>>

------------------------------------------------------------------------------
(* EPollPoller. *)

Entries(fd) == {x \in epoll : x[1] = fd}

\* EPollPoller::Update() with EPOLL_CTL_ADD, EPOLL_CTL_MOD and EPOLL_CTL_DEL
CtlAdd(fd, events) ==
  /\ epoll' = IF Entries(fd) = {} THEN epoll \cup {<<fd, events, channel[fd]>>} ELSE epoll
  /\ refused' = (refused \/ Entries(fd) # {})

CtlModKeepsEvents(fd, events) ==
  /\ refused' = (refused \/ Entries(fd) = {})
  /\ UNCHANGED epoll

CtlMod(fd, events) ==
  /\ epoll' = IF Entries(fd) = {} THEN epoll
              ELSE (epoll \ Entries(fd)) \cup {<<fd, events, channel[fd]>>}
  /\ refused' = (refused \/ Entries(fd) = {})

CtlDel(fd) ==
  /\ epoll' = epoll \ Entries(fd)
  /\ refused' = (refused \/ Entries(fd) = {})

IndexStaysAdded(fd, events) == IF index_[fd] = kAdded THEN index_ ELSE [index_ EXCEPT ![fd] = kAdded]

\* index_ after UpdateChannel().
EPollIndex(fd, events) ==
  [index_ EXCEPT ![fd] = IF @ = kAdded /\ events = {} THEN kDeleted ELSE kAdded]

EPollUpdateChannel(fd, events) ==
  /\ index_' = EPollIndex(fd, events)
  /\ channels_' = IF index_[fd] = kNew THEN [channels_ EXCEPT ![fd] = channel[fd]] ELSE channels_
  /\ \/ index_[fd] \in {kNew, kDeleted} /\ CtlAdd(fd, events)
     \/ index_[fd] = kAdded /\ events = {} /\ CtlDel(fd)
     \/ index_[fd] = kAdded /\ events # {} /\ CtlMod(fd, events)

RemoveForgetsKernel(fd) ==
  /\ channels_' = [channels_ EXCEPT ![fd] = 0]
  /\ index_' = [index_ EXCEPT ![fd] = kNew]
  /\ UNCHANGED <<epoll, refused>>

EPollRemoveChannel(fd) ==
  /\ channels_' = [channels_ EXCEPT ![fd] = 0]
  /\ index_' = [index_ EXCEPT ![fd] = kNew]
  /\ IF index_[fd] = kAdded THEN CtlDel(fd) ELSE UNCHANGED <<epoll, refused>>

------------------------------------------------------------------------------
(* Channels, used by handlers while event_handling_ and by functors.         *)

InUserCode == ~aborted /\ (event_handling_ => current_active_channel_ # NULL)

\* A new Channel(loop, fd)
NewChannel(fd) ==
  /\ InUserCode
  /\ ~alive[fd] /\ channel[fd] < (IF fd \in Reused THEN MaxChannels ELSE 1)
  /\ alive' = [alive EXCEPT ![fd] = TRUE]
  /\ channel' = [channel EXCEPT ![fd] = @ + 1]
  /\ events_' = [events_ EXCEPT ![fd] = {}]
  /\ index_' = [index_ EXCEPT ![fd] = kNew]
  /\ enabled_again' = enabled_again \ {fd}
  /\ UNCHANGED <<use_poll, dispatch, poller, aborted, added_idle>>

\* EnableReading(), DisableReading(), EnableWriting(), DisableWriting() and
\* DisableAll()
Changes(events) == {events \cup {e} : e \in Events} \cup {events \ {e} : e \in Events} \cup {{}}

Update(fd, events) ==
  /\ InUserCode
  /\ alive[fd] /\ events \in Changes(events_[fd])
  /\ events_' = [events_ EXCEPT ![fd] = events]
  /\ IF use_poll
     THEN PollUpdateChannel(fd, events) /\ UNCHANGED <<epoll, refused>>
     ELSE EPollUpdateChannel(fd, events) /\ UNCHANGED pollfds_
  /\ enabled_again' = IF use_poll /\ channels_[fd] # 0 /\ events_[fd] = {} /\ events # {}
                      THEN enabled_again \cup {fd} ELSE enabled_again
  /\ added_idle' = IF use_poll /\ channels_[fd] = 0 /\ events = {}
                   THEN added_idle \cup {fd} ELSE added_idle \ {fd}
  /\ UNCHANGED <<use_poll, channel, alive, dispatch, aborted>>

\* EventLoop::RemoveChannel()'s assert, which its callers keep.
MayRemove(fd) ==
  event_handling_ => current_active_channel_ = fd \/ fd \notin active_channels_

\* Channel::Remove(), for a channel that is in the poller and disabled
Remove(fd) ==
  /\ InUserCode
  /\ alive[fd] /\ channels_[fd] # 0 /\ events_[fd] = {}
  /\ MayRemove(fd)
  /\ IF use_poll
     THEN PollRemoveChannel(fd) /\ UNCHANGED <<epoll, refused>>
     ELSE EPollRemoveChannel(fd) /\ UNCHANGED <<pollfds_, aborted>>
  /\ alive' = IF aborted' THEN alive ELSE [alive EXCEPT ![fd] = FALSE]
  /\ UNCHANGED <<use_poll, channel, events_, dispatch, history>>

------------------------------------------------------------------------------
(* The loop. *)

\* The pairs <<fd, channel>> that poll() and epoll_wait() can report; errors and
\* hangups are reported without being asked for.
Reportable ==
  IF use_poll
  THEN {<<pollfds_[i].fd, channels_[pollfds_[i].fd]>> :
          i \in {j \in 1..Len(pollfds_) : pollfds_[j].fd >= 0}}
  ELSE {<<x[1], x[3]>> : x \in epoll}

\* Poll() and FillActiveChannels()
Poll ==
  /\ ~aborted /\ ~event_handling_
  /\ to_handle' \in SUBSET Reportable
  /\ active_channels_' = {x[1] : x \in to_handle'}
  /\ event_handling_' = TRUE
  /\ UNCHANGED <<use_poll, members, poller, current_active_channel_, aborted, history>>

HandleEvent ==
  /\ ~aborted
  /\ \E x \in to_handle :
       /\ current_active_channel_' = x[1]
       /\ to_handle' = to_handle \ {x}
  /\ UNCHANGED <<use_poll, members, poller, event_handling_, active_channels_, aborted, history>>

\* The end of an iteration, with the clear() that begins the next one.
EndOfDispatch ==
  /\ ~aborted /\ event_handling_ /\ to_handle = {}
  /\ event_handling_' = FALSE /\ current_active_channel_' = NULL
  /\ active_channels_' = {}
  /\ UNCHANGED <<use_poll, members, poller, to_handle, aborted, history>>

Next ==
  \/ \E fd \in Fds :
       \/ NewChannel(fd) \/ Remove(fd)
       \/ \E events \in SUBSET Events : Update(fd, events)
  \/ Poll \/ HandleEvent \/ EndOfDispatch

Spec == Init /\ [][Next]_vars
------------------------------------------------------------------------------
(* Properties. *)

\* Every variable has its type, and there is a channel being handled only while
\* Loop() handles events.
TypeOK ==
  /\ use_poll \in BOOLEAN
  /\ channel \in [Fds -> Nat] /\ alive \in [Fds -> BOOLEAN]
  /\ events_ \in [Fds -> SUBSET Events] /\ index_ \in [Fds -> Int]
  /\ channels_ \in [Fds -> Nat]
  /\ pollfds_ \in Seq([fd : Int, events : SUBSET Events])
  /\ epoll \subseteq Fds \X (SUBSET Events) \X Nat
  /\ refused \in BOOLEAN
  /\ event_handling_ \in BOOLEAN
  /\ current_active_channel_ \in Fds \cup {NULL}
  /\ ~event_handling_ => current_active_channel_ = NULL
  /\ active_channels_ \subseteq Fds
  /\ to_handle \subseteq Fds \X Nat
  /\ aborted \in BOOLEAN
  /\ enabled_again \subseteq Fds /\ added_idle \subseteq Fds

Registered(fd) == channels_[fd] # 0

\* The asserts of PollPoller::UpdateChannel() and RemoveChannel(): through every
\* append and every removal that moves the last pollfd, the index_ in each
\* channel and the place of its pollfd in pollfds_ correspond one to one, and
\* the pollfd of a channel without events is ignored, as RemoveChannel() asserts
\* before it takes it out.  Left out of the last is a channel that asked for
\* nothing when it was added and was not updated since: there the assert fails.
PollIndexed ==
  use_poll =>
    /\ \A fd \in Fds : Registered(fd) =>
         /\ index_[fd] \in 0..(Len(pollfds_) - 1)
         /\ pollfds_[index_[fd] + 1].fd \in {fd, Ignored(fd)}
         /\ pollfds_[index_[fd] + 1].events = events_[fd]
         /\ events_[fd] = {} /\ fd \notin added_idle => RemoveAssert(fd)
    /\ \A i \in 1..Len(pollfds_) : \E fd \in Fds : Registered(fd) /\ index_[fd] = i - 1

\* EPollPoller::Update() is only called for what the kernel accepts: ADD of a
\* descriptor it does not have, MOD and DEL of one it has (it dies of a
\* refused ADD or MOD).
EPollAccepts == ~refused

\* What the kernel watches a descriptor for.
Watched(fd) ==
  IF use_poll
  THEN UNION {pollfds_[i].events : i \in {j \in 1..Len(pollfds_) : pollfds_[j].fd = fd}}
  ELSE UNION {x[2] : x \in Entries(fd)}

\* "Changes the interested I/O events." (poller.h:42): between calls the kernel
\* watches each descriptor for what its channel asks for, and reports nothing
\* else but errors and hangups.  A channel of a PollPoller that was enabled
\* again after it had been disabled is left out (see WatchesEnabledAgain).
WatchesWhatIsAsked ==
  \A fd \in Fds :
    fd \notin enabled_again
      => Watched(fd) = IF Registered(fd) THEN events_[fd] ELSE {}

\* The same without the exception: UpdateChannel() "Changes the interested I/O
\* events." also of a channel that was disabled and is enabled again.
WatchesEnabledAgain ==
  \A fd \in Fds : Watched(fd) = IF Registered(fd) THEN events_[fd] ELSE {}

\* The asserts of FillActiveChannels() and ~Channel(): no event goes to a channel
\* that is gone.  What the kernel can report, and what was reported and waits
\* for HandleEvent(), belongs to a channel that is in use and in the map, even
\* when its descriptor was given to a new channel meanwhile.
OnlyLiveChannels ==
  \A x \in Reportable \cup to_handle :
    alive[x[1]] /\ x[2] = channel[x[1]] /\ x[2] = channels_[x[1]]
==============================================================================
