# muduo-cpp11 in TLA+

A verification development for muduo-cpp11, a reactor network library: one
event loop per thread, non-blocking descriptors, callbacks, and calls from
other threads turned into functors of the loop. The models describe the Linux
build (eventfd, timerfd). Paths are relative to `src/muduo-cpp11/`.

## The system

| part | state | operations | what makes it hard |
|---|---|---|---|
| `net/event_loop` | `quit_`, `pending_functors_`, `calling_pending_functors_`, eventfd | `Loop`, `Quit`, `RunInLoop`, `QueueInLoop`, `Wakeup`, `DoPendingFunctors` | other threads queue and quit between any two steps of the loop |
| `net/timer_queue`, `timer` | `timers_`, `active_timers_`, `canceling_timers_`, timerfd | `AddTimer`, `Cancel`, `HandleRead`, `GetExpired`, `Reset`, `Insert` | raw pointers, reused addresses, cancels inside callbacks, a clock that is set |
| `net/tcp_connection`, `channel` | `state_`, `events_`, `output_buffer_`, `tie_` | `Send`, `Shutdown`, `ForceClose`, `Connect*`, `Handle*` | partial writes; five ways to close at once; life time by reference counts |
| `net/tcp_server`, `acceptor` | map of connections, spare descriptor | `Start`, `NewConnection`, `RemoveConnection`, destructor | connections live in other loops |
| `net/connector`, `tcp_client` | `connect_` (twice), `state_`, `channel_`, retry delay, `connection_` | `Connect`, `Disconnect`, `Stop`, `Restart`, `Retry`, `HandleWrite` | retry timers and functors that outlive the decision they carry |
| `net/poller/*` | `channels_`, `pollfds_` or the epoll set, `index_` of channels | `UpdateChannel`, `RemoveChannel`, `Poll` | an index kept in another object, swap-and-pop removal |
| `net/event_loop_thread*` | `loop_`, `exiting_`, threads | `StartLoop`, `ThreadFunc`, destructor, `GetNextLoop` | start and stop race |
| `net/buffer` | two indexes and a vector | `Append`, `Retrieve`, `Prepend`, `MakeSpace`, `ReadFd` | index arithmetic |
| `base/thread_pool`, `blocking_queue` | queue, `running_`, condition variables | `Start`, `Stop`, `Run`, `Take` | waits that nobody ends |
| `net/http` | parser state, request | `ParseRequest`, `OnMessage`, `RequestDone` | input split anywhere |
| sockets, addresses, logging, timestamps | none to speak of | wrappers, formatting | external to the models |

`EventLoop` is what everything else is built on: timers, connections and
clients rely on "a functor that is queued runs once, in order, soon".
`TaskQueue.tla` states this promise, `EventLoop.tla` is shown to keep it, and
the other modules hold their part of the functor queue as a sequence.

Correctness, per part: no lost wakeup and no lost quit (loop); no timer
forgotten, run after its cancel, leaked or deleted twice (timers); stream
order, graceful shutdown, one up and one down, clean destruction (connections);
one attempt at a time, none forgotten, no descriptor leaked, stop means stop
(client); the kernel watches what channels ask for and events reach live
channels only (pollers); an exact map of connections, each destroyed once, a
backlog that is served and a destructor that returns (server); a queue of
bytes whatever moves inside (buffer); each call serves the next request, as if
the stream were there as a whole (HTTP); no lost notification, no overfull queue
(thread pool). `PROJECT.json` lists the hazards behind these with their lines.

## Modules

**TaskQueue** is the abstract specification: a queue of numbered callbacks,
`Enqueue`, `RunNow`, `RunNext`.

**EventLoop** (`net/event_loop.cpp`). `pc` is where the loop's thread is in
`Loop()`; the flags and `pending_functors_` are the members; `functors` is the
local vector of `DoPendingFunctors()`; `wakeup_fd_` counts what was written to
the eventfd. A call by another thread takes two steps, the change under the
lock (`QueueInLoop`, `Quit`) and the wakeup (`FinishCall`). The loop's own
thread calls from handlers, from functors and outside `Loop()`. `issued`,
`ran`, `early` and `quits` are history.

**TimerQueue** (`net/timer_queue.cpp`, `timer.*`). The heap maps addresses to
timers and an address is reused after `delete`. `HandleRead`, `RunTimer` and
`Reset` are the three parts of `HandleRead()` between which callbacks call
back into the queue. `pending` is the loop's functors about timers. Time is in
ticks of the 100 microseconds that `HowMuchTimeFromNow()` rounds up to;
`SetClock` moves the wall clock, which `Timestamp::Now()` reads, but not the
timerfd.

**TcpConnection** (`net/tcp_connection.cpp`, `channel.cpp`, part of
`tcp_server.cpp`). `events`/`registered`/`revents` are the channel; handling of
one `revents_` is a sequence of steps, one per callback, because each calls the
user. `holders` and the functors bound to `shared_from_this()` decide whether
the object is `Alive`. Public methods on another thread take up to three
steps: test of `state_`, assignment, functor. Bytes are numbered per caller.
The peer sends, closes, or resets at any time; `error` and `timedout` are errors
found on the socket, of which only the first is an EPIPE or ECONNRESET that makes
`SendInLoop()` drop its data. A write that is tried may also take nothing.

**TcpClient** (`net/connector.cpp`, `tcp_client.cpp`). An iteration of the loop
is `Poll` (fixes what happened), handlers, functors. On another thread each
assignment of `Connect()` and `Stop()` is a step. The connection itself is
abstracted to whether it exists; it may close at any time. The user destructs
the client at any time on the loop's thread: with a connection, nothing holds
the connector from then on; without one the connector is stopped and a timer
(`keeper`) holds it for a second. Functors bound to a connector that is gone
run without effect (`RunDangling`).

**Pollers** (`net/poller.cpp`, `net/poller/*`, `channel.*`, the dispatch in
`event_loop.cpp`). `use_poll` is the choice of `NewDefaultPoller()`. A
descriptor has one channel at a time; `channel` numbers them and stands for the
pointer. `pollfds_` is PollPoller's vector, `epoll` the kernel's interest list
(external), and `index_` means a place in the one and a state of the other.
`Poll`, `HandleEvent` and `EndOfDispatch` are an iteration of `Loop()`, in
which handlers make, change and remove channels; `to_handle` keeps the pointer
that was reported, so that one that is stale by then is seen. A handler may
remove what the assertion in `EventLoop::RemoveChannel()` allows. The last
assert of `PollPoller::RemoveChannel()` is modelled with its effect: where it
fails the program has ended (`aborted`). `enabled_again` and `added_idle` are
history.

**LoopThreads** (`net/event_loop_thread.cpp`, `event_loop_thread_pool.cpp`).
Loops in threads of their own, each reduced to the functors queued, the batch
being run, the channels to handle and `quit_`. `StartLoop()` and the destructor
of a thread are several steps of the base thread (`base`), because the loop's
thread runs between them; entering `Loop()` clears `quit_`, and a quit that is
lost that way is recorded in `lost`. What functors and handlers do is left to
the module that extends this one.

**TcpServer** (`net/tcp_server.cpp`, `acceptor.cpp`) extends it: `Start()`,
accepting with the spare descriptor, the map of connections, and connections
that come up, close and are destroyed on their own loops, while the base thread
may be in `~TcpServer()`. A connection holds a descriptor while something holds
a `TcpConnectionPtr` (`Alive`); other threads open and close files too. Calls on
a destructed server, and wakeups of a loop that has ended, are recorded in
`invalid` and have no effect; no property speaks of `invalid`.

**ByteDeque** is the abstract specification of a buffer: a sequence of bytes
used at both ends, with integers, and `io`, the last call with its arguments and
result. **Buffer** (`net/buffer.h`, `buffer.cpp`, `endian.h`) is the vector with
its two indexes; each call is a function of the members, and the asserts on
arguments are guards. Stale bytes stay in the vector, `MakeSpace()` moves or
grows, `ReadFd()` fills the vector and then the stack buffer.

**HttpServer** (`net/http/*`). The stream is a sequence of lines, and a line is
what the parser tells apart of its text. A message ends anywhere, also inside
a line or between CR and LF (`partial`). `OnMessage()` is one action: parse,
call the user, send, shut down, reset. The loop of `ParseRequest()` is the
recursive function `Passes`, one `Pass` per line found. A call serves at most
one request; a second one that came with the same message waits for the next
call. The reference that `ServesNextRequest` compares with reads the stream as a
whole and does not use the parser's definitions: headers end at an empty line.
`Lines` is the set of lines a peer may send; **MCHttpServer** gives it one of
each kind.

**ThreadPool** (`base/thread_pool.cpp`). A section under the mutex is one step,
and a thread in the wait set of a condition variable has its name as `pc`.
`notify_one()` wakes any of the waiters, waits may end by themselves, a task may
call `Run()`. `Stop()` is the flag with its notification and the joins.

**PollersProofs, BufferProofs, ThreadPoolProofs, TimerQueueProofs,
TcpConnectionProofs, TcpClientProofs, TcpServerProofs** hold the theorems about
the module they are named after, with their invariants and lemmas;
**LoopAndHttpProofs** those about EventLoop and HttpServer.

## Runs

| run | asks | result |
|---|---|---|
| `EventLoop` | no lost wakeup or quit, refinement of `TaskQueue`, functors run | holds |
| `TimerQueue` | indexes agree, single ownership, the earliest timer is armed, cancels are final and hit only their timer, due timers are served | holds |
| `TcpConnection` | stream order; writing watched exactly while output waits | holds |
| `TcpConnectionClose` | shutdown after data, up then down once, clean destruction; output drains, shutdown completes | holds |
| `TcpClient` | one attempt, none forgotten, no socket leak, stop is final, also when the client is destructed | holds |
| `Pollers` | indexes in the channels are right and removals pass their assert, the kernel accepts every call and watches what is asked, events reach live channels only | holds, but for channels added without events |
| `PollersReenable` | `UpdateChannel()` "Changes the interested I/O events." (`net/poller.h:42`) | violated: PollPoller never polls a channel again that was disabled once (`poll_poller.cpp:109`) |
| `Buffer` | indexes in order, the inner asserts hold, the vector grows only when full, refinement of `ByteDeque` | holds |
| `HttpServer` | each message serves the next request of the stream if all of it is there, responses end where the peer can tell | holds where every header line has a colon |
| `ThreadPool` | bounded queue, no lost notification, `Run()` takes effect, `Stop()` returns | holds |
| `TcpServer` | the map is exact, connections are destroyed once, sockets are released, the backlog is served, the destructor returns | holds |
| `TcpServerDestruct` | `assert(state_ == kDisconnected);` of `~TcpConnection()` (`tcp_connection.cpp:74`) | violated: a loop told to quit may end without running the `ConnectDestroyed()` that `~TcpServer()` has queued (`tcp_server.cpp:59`) |

**Bounds.** EventLoop: two other threads, one I/O channel, three functors, two
quits: a functor queued before, during and after a batch, with a quit on each
side. TimerQueue: two addresses and two timers (an address is reused), clock up
to 3, one clock setting, intervals 0 and 1. TcpConnection: one other thread
and messages of two bytes, so that a write may take part of one and leave the
rest in the buffer; the two runs divide the calls between them. In
`TcpConnection` the loop and the thread send up to two messages each, past a
high water mark of three bytes, and the thread shuts down; in
`TcpConnectionClose` the loop calls everything, with one message, and the thread
`ForceClose()`. One delayed `ForceClose()`, and one
`ForceCloseInLoop` functor at a time. TcpClient: two other threads, one
`Connect()`, three `Disconnect()` or `Stop()`, delays 500/1000/1500 so that the
limit is reached off a power of two. Pollers: three descriptors, so that
a removal moves a pollfd with another one between, one of them used by two
channels, two events. Buffer: a vector of at most five bytes over two values,
one of them prepend area, strings of up to three bytes, integers of one and two,
which is enough for a move, a growth, a two-part read and a line end across any
boundary. HttpServer: five lines, that is two requests with headers, of eight
kinds. ThreadPool: two producers with two tasks each, one of whose tasks call
`Run()`, two pool threads, limits 0 to 2. TcpServer: up to two loop threads,
two connections, two descriptors and one of another thread, so that the spare
descriptor is needed.

**What the properties leave out.** `NoLostWakeup` and `QueuedFunctorRuns` leave
out functors that the loop's own thread queues outside `Loop()` (`early`): the
code wakes nobody for them and they wait for an event or the 10 s timeout.
`BytesInOrder` counts until the connection is reported down. In TcpClient a
retry timer (500 ms or more) and the one second of `~TcpClient()` do not come
due before the functors queued with them have run, and the first call is
`Connect()`, returned before the others. The exceptions that come from the code
itself are listed under "Where the code falls short".

**Deadlock** is checked except where the system may stop: a connection ends, a
server is destructed, a pool is stopped or stuck, an assert ends the program
(`Pollers`, `PollersReenable`).

**Fairness.** The loop's thread keeps being scheduled and callbacks return
(weak fairness of the loop's steps); a thread in the middle of a call finishes
it; time passes. In TimerQueue and TcpConnection the handling of events and
the running of functors are alternatives of one step relation, while in the
code every iteration does both: functors (and the timer of
`ForceCloseWithDelay`) get strong fairness for that. A write in
`HandleWrite()` may take nothing, but not always: a socket that is reported
writable again and again takes bytes in the end (strong fairness of the writes
that do), because its peer goes on reading. In ThreadPool and
TcpServer every thread that can go on does (weak fairness per thread); which
waiter a notification wakes is open, and no spurious wakeup is assumed.
Nothing is assumed of users, peers or quits, except that a peer goes on reading
where output is to drain.

## Where the code falls short

Two runs are violated (see above, and `findings` in `PROJECT.json`). The models
also show the following; the properties are stated up to them.

- `AddTimer()` reads `timer->sequence()` after the loop may have deleted the
  timer (`timer_queue.cpp:122`), so the id it returns may name nothing or, with
  the address reused, another timer. `AddTimerReturns` returns either.
- `ForceClose()` on another thread tests `state_` and sets it in two steps
  (`tcp_connection.cpp:230`): a close in between is overwritten, and the
  connection is closed and destroyed again. `UpThenDownOnce` and
  `DestructedClean` leave such connections out.
- `ConnectDestroyed()` disables the channel only in `kConnected`
  (`tcp_connection.cpp:283`): a server destructed while a connection is
  `kDisconnecting` removes a channel that still watches events.
- `assert(pfd.fd == -channel->fd() - 1 && ...)` in `PollPoller::RemoveChannel()`
  (`poll_poller.cpp:131`) fails for a channel whose first update asked for
  nothing: only an update of a channel that is known already marks the pollfd.
  With `MUDUO_CPP11_USE_POLL` this is the acceptor of a server that is destructed
  without `Start()`: `~Acceptor()` calls `DisableAll()`, which adds the channel,
  and `Remove()` (`acceptor.cpp:53`). `PollIndexed` says that no other removal
  fails the assert (`added_idle`).
- `Restart()` sets `connect_` (`connector.cpp:136`): another thread's `Stop()`
  after `RemoveConnection()` has tested is overwritten. `StopIsFinal` leaves
  it out (`raced`).
- `~TcpClient()` with a connection frees the connector while `ResetChannel()`
  may still be queued, against `assert(!channel_)` (`connector.cpp:48`).
- `Loop()` clears `quit_` (`event_loop.cpp:139`): a quit between `StartLoop()`
  and `Loop()` is lost and `~EventLoopThread()` waits for ever.
  `DestructorReturns` leaves it out (`lost`).
- While the spare descriptor is closed for `accept()` another thread may take its
  slot (`acceptor.cpp:89`): the spare is not opened again, and without one the
  backlog waits until somebody closes a descriptor. `BacklogServed` leaves it out
  (`stolen`).
- A pool whose threads are all in tasks that call `Run()` on a full queue is
  stuck (`Stuck`), and `Stop()` does not wake callers of `Run()`.
- `ParseRequest()` ends the headers at the first line without a colon, where its
  comment says "empty line, end of header" (`http_server.cpp:86`): what follows a
  header line without a colon is read as the next request. `ServesNextRequest`
  and `ResponsesDelimited` speak of streams whose header lines have one
  (`WellFormed`).
- A bad request line stays in the buffer and is parsed again with the next
  message, against the assert in `http_request.h:50`; the remote address is
  gone after the first request of a connection.

## Proofs

`LoopAndHttpProofs.tla` begins with EventLoop, for any set of threads, channels
and any bounds, from the assumptions of `EventLoop.tla` on its constants:

- `TypeCorrect`: `Spec => []TypeOK`, with the flags tied to the position in
  `Loop()`.
- `WakeupNeverLost`: `Spec => []NoLostWakeup`. The invariant alone says nothing
  while the loop is elsewhere, so it is strengthened to `WakeupInv`: at every
  position from which the loop reaches `Poll()` without passing the swap, an
  unnoticed functor has its wakeup written, on its way, or is queued by the
  loop's own running call.
- `QuitNeverLost`: the same for `quit_`, with `QuitInv`.
- `TaskQueueImplemented`: `Spec => Tasks!Spec`, with `queue` mapped to
  `functors \o pending_functors_`. `BatchInv` (the local vector is empty
  outside the batch) makes the swap a stuttering step.

It goes on with HttpServer, for any set of lines and any number of them, from
`HttpAssumption` (what a line is):

- `EveryRequestServed`: `HttpSpec => ServesNextRequest`. The parser, which sees
  the stream in pieces, forgets what it has retrieved and keeps a context
  instead, serves the next of the requests that a reading of the whole stream
  finds, as long as header lines have a colon.
- `ResponseEnds`: `HttpSpec => []ResponsesDelimited`.
- Both follow from `HttpInv` (`HttpInvariant`). `ServedUpTo` is the place in the
  stream where the last request served ends, `ReadUpTo` the place up to which
  lines were retrieved. `ParserInv` says that the buffer is what follows
  `ReadUpTo`, and that either the two places are one and the context waits for a
  request line (`AtRequestLine`), or everything was retrieved and the context
  describes the lines between them (`InHeaders`). `ResponsesOK` is
  `ResponsesDelimited` with the requests served in place of those in the stream.
- `ServesNextRequest` speaks of two recursive functions, `Passes` of the code and
  `Ends` of the reference. `Least` (a set of numbers has a least element, from the
  well-foundedness of `<` in the library) gives induction over the members of a
  set (`UpTo`), that gives the equations of the two functions (`PassesDef`,
  `EndsDef`), and the rest is by `UpTo` again: `PassesOK` on the passes of the
  loop, with `StageOK` as the loop's invariant, and `EndsStay` on the requests of
  the stream, which stay where they are when more lines come.
- The code stops at a line without a colon and the reference at an empty one.
  `EndsAt` and its companions are the reading of a stream with the set of lines
  it stops at as a parameter: the lemmas on the parser use `NoColon`,
  `ReferenceReading` says that the reference is the reading with `EmptyLines`,
  and `SameReading`, `SameEnds` and `SameRequests` that the two find the same
  requests in a `WellFormed` stream.
- The heart is `ParseResult`: when the loop ends, either the context is the next
  request of the stream and the buffer begins behind it, or that request is not
  there yet and the context is what the next call needs.

`PollersProofs.tla`, for any set of descriptors and events and any bounds,
from `Fds \subseteq Nat` (a descriptor is not negative, which is what makes
`-fd - 1` a mark):

- `PollIndexCorrect`, `EPollNeverRefused`, `WatchingCorrect`,
  `EventsReachLiveChannels`: the four invariants of the run, and `TypeCorrect`.
- They follow from one inductive invariant, `IInv`. `Placed` says that indexes and
  pollfds correspond one to one, `IdleInv` that a channel without events is
  marked unless it was added so, `MapInv` ties a registered
  channel to the one in use on its descriptor, `PollInv` says which pollfds
  poll() looks at, `EPollInv` that the kernel has exactly the channels with
  index `kAdded`, each with its events and its pointer, and `DispatchInv` that
  what waits to be handled is active, registered and not the channel being
  handled. The last is what the assertion of `EventLoop::RemoveChannel()` is
  for: without it a handler could remove a channel that is handled next.
- The heart is `PollRemoveInv`: the last pollfd takes the gap, and the index of
  exactly one channel moves with it. `AbortInv` is the other case, in which the
  assert fails and nothing moves.

`BufferProofs.tla`, for every initial size, prepend area, number of byte values
and integer width, from `BufferAssumption`:

- `TypeCorrect`, `AssertsNeverFail`, `NeverGrowsInVain`: the index order is
  inductive as it stands (`IsBuffer`).
- `ByteDequeImplemented`: `Spec => Abstract!Spec` with the readable bytes as
  content. Each helper has a lemma that says what it does to those bytes
  (`MakeSpaceMakesSpace`, `HasWrittenAppends`, `RetrievedDrops`, ...) and whether
  the vector may grow; the step proof only combines them.

`ThreadPoolProofs.tla`, for any finite sets of producers and pool threads:

- `NotifyNeverLost`: `Spec => []NoLostNotify`, which is inductive once types are
  added and that nobody waits for room in a queue without a limit. The proof
  counts: every step moves at most the thread that acts and the one it wakes, a
  push takes one out of "lock" and puts one into "Take", a pop the opposite.
- `QueueNeverExceeded`: `Spec => []QueueBounded`, the limit on the queue together
  with no task queued twice or after it was called. `ThreadInv` says which
  threads can be where; `LimitInv` that nothing is queued before `Start()`, so
  that `running_` finds the queue within the limit; `TaskInv` that a task is
  the argument of one caller, in one place of the queue, or begun.

`TimerQueueProofs.tla`, for any threads, heap addresses, intervals and bounds:

- `IndexesAlwaysAgree`, `TimersOwnedOnce`, `TimerfdArmed`, `CancelsAreFinal` and
  `OnlyCancelsDrop`: the five invariants of the run.
- They follow together from `IInv`. `SequenceInv` says that a sequence is given
  once; `BatchInv` that there is a batch only inside `HandleRead()`, filed under
  its timers' own expirations, and that what was taken from it has run;
  `FinalInv` that a cancelled timer of the batch is noted in
  `canceling_timers_` and that a timer still in a functor was neither cancelled
  nor run; `InvalidArmed` that a timer with an invalid expiration, for which
  `Reset()` does not set the timerfd, has set it itself.
- The heart is `ResetKeeps`: every timer of the batch goes back to both indexes
  under its new expiration or is deleted, and none that was cancelled goes back.

`TcpConnectionProofs.tla`, for any threads and methods they call, any size of
messages and any high water mark:

- `StreamInOrder`, `WatchesOutput`, `GracefulShutdown`, `ReportedOnce` and
  `CleanEnd`: the five invariants of the two runs.
- `Ctl` is the control part of the invariant. `NewInv` says that nothing but
  `~TcpServer()` happens before `ConnectEstablished()`; `CallInv` that another
  thread in a call holds the connection and that shutting down comes after
  `state_` has left `kConnected`; `DownInv` that reported down, `kDisconnected`
  and a channel that watches nothing are one; `OwnerInv` that exactly one
  `ConnectDestroyed()` follows the owner's letting go. The last two say less
  once another thread has put `kDisconnecting` over `kDisconnected`.
- `Data` follows the bytes. The stream, which is what the kernel took and then
  `output_buffer_`, is in order, and for each caller the queued `SendInLoop()`
  functors go on exactly where the stream ends (`Follows`). Order in the stream
  is not inductive without that: a functor carries bytes that were numbered
  when `Send()` was called, and runs later.
- The heart is `SendEffect` with `InOrderOn`: `SendInLoop()` puts the message at
  the end of the stream, whatever part `write()` takes at once, or drops it on
  a connection that is down or fails. `FollowsTail` and `FollowsQueue` say the
  same of the two ends of the functor queue.

`TcpClientProofs.tla`, for any threads, any number of `Disconnect()` and
`Stop()` calls and any retry delays:

- `AttemptsAreOne`, `SocketsAccounted`, `RetriesGoOn` and `StopHolds`: the four
  invariants of the run.
- Their hypothesis is `ConnectsOnce`, at most one call of `Connect()`: a second
  one meets the asserts of `StartInLoop()` while the first is under way.
- The inductive invariant says that exactly one thing is under way (`Doing`:
  a functor, a timer, an attempt, a connection, a restart, or nothing), and for
  each piece of state that outlives it (the channel until `ResetChannel()`, the
  flags of a `Stop()` still queued, the end of the client) when it may be seen.
  `OneAttempt` counts these things and is not inductive: `ChannelInv` is what
  says that `ResetChannel()` has run before a new attempt needs the channel,
  and `ReadyInv` that what `Poll()` reported is still there for its handler.

`TcpServerProofs.tla`, for any size of the pool, any set of peers and any number
of descriptors, from `ThreadsAssumption` and `ConnsAssumption` (a connection's
channel is not the acceptor's):

- `MapStaysComplete` and `DestroyedAtMostOnce`: the two invariants of the run.
- The life of a connection goes through the queues of two loops. `Placed` says
  in which queue each functor of a connection may be, and when; `Stage` what
  has been called at each value of `state_`, and what must be queued for the
  connection to go on; `OnceInv` that no functor is queued twice. A connection
  that `~TcpServer()` finds before it is established has its
  `ConnectDestroyed()` behind its `ConnectEstablished()`: that order is part of
  `Stage`, and is what keeps the reports to one up and then one down.
- `ThreadInv` is needed because loops start and stop meanwhile. A loop drops
  functors when its thread ends, which would lose a removal; it ends only
  after `~TcpServer()` has emptied the map (`LoopInv` with `Torn`). This is
  also as much as holds: that a dropped `ConnectDestroyed()` leaves a
  connection up is what `TcpServerDestruct` shows.

Only model-checked:

- all liveness (the prover does not reason about fairness): functors run, due
  timers are served, output drains and shutdown completes, `Run()` takes effect,
  `Stop()` and `~TcpServer()` return, sockets are released, the backlog is
  served;
- the two violated properties, of which a counterexample is all there is to say.

## Not modelled

`BlockingQueue`, which nothing in the library uses; destructors of `EventLoop`
beyond what LoopThreads has and of `TimerQueue`; the builds without eventfd and
timerfd; a second `Connect()` on a client; contents of `input_buffer_` outside
HTTP; HTTP paths, bodies and callbacks that answer later; socket options,
addresses, logging and formatting. Code that touches an object after its end
(`FIXME: unsafe` in several places) is represented only as far as there is state
left to describe.
