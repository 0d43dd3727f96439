# Verification of tsq

TLA+ models of `atsq`, the asyncio client for the TeamSpeak ServerQuery
protocol in `src/src/atsq/`, the TLC runs that check them on small instances,
and TLAPS proofs about them.  Paths below are relative to `src/src/atsq/`.

1. [The system](#the-system) · 2. [The plan](#the-plan) · 3. [The modules](#the-modules)
· 4. [The runs](#the-runs) · 5. [Fairness](#fairness) · 6. [The proofs](#the-proofs)
· 7. [Findings](#findings) · 8. [What is not modelled](#what-is-not-modelled)

## The system

Everything runs in one asyncio event loop.  There are no threads: tasks switch
only where one of them suspends at an `await`, so what a task does between two
suspensions is atomic.  The hard part is everything that may happen *at* a
suspension: other tasks run, timers fire, `Task.cancel()` raises
`CancelledError` there, and what was true before need not be true after.

| component | state | operations | interacts with |
|---|---|---|---|
| `SshTransport` (`transport.py`) | `_closed`, line buffer, the asyncssh connection | `connect`, `read_line`, `send_line`, `close` | asyncssh; called by `RawConnection` |
| `RawConnection` (`connection.py`) | `_cmd_lock`, `_pending`, `_data_buffer`, `_closed`, `_event_queue`, receive task, keepalive task, `_last_activity` | `start`, `exec`, `close`, `wait_for_event`, `events`, `_recv_loop`, `_keepalive_loop`, `_shutdown` | callers through a lock and a future; consumers through a queue; the server through the transport |
| `Client` (`client.py`) | `_conn`, `_stopping`, `_handlers`; in `run_forever`, the delay | `start`, `close`, `on`, `run_forever`, `_dispatch`, typed wrappers over `exec` | owns one `RawConnection` at a time; handlers call back into it |
| `FileTransfer` (`filetransfer.py`) | counter of transfer ids | `upload`, `download`, icons, listing, management | `Client.exec`, and a TCP data channel of its own |
| wire protocol (`protocol.py`) | none | `render_command`, `parse_data_line`, `parse_error_line` | `RawConnection` |
| escaping (`escape.py`) | none | `escape`, `unescape` | wire protocol |
| `Event` (`events.py`) | immutable | `from_line` | receive loop, handlers |
| dialect (`dialect.py`) | none | `sniff_dialect` | `RawConnection.start` |
| errors (`errors.py`) | immutable | exception hierarchy, `retry_after` | all |

What makes each of them right, and what is hard about it:

* **event queue** (in `RawConnection`).  A bounded `asyncio.Queue` that drops
  the oldest event when full, and in which a sentinel stands for the close.
  Hard: the sentinel competes with events for room, there is one of it for any
  number of consumers, and a consumer may be cancelled between its wake-up and
  its turn.  Right when events come in order, at most once, are lost only when
  the queue is full, and every consumer learns of the close.
* **command exchange** (in `RawConnection`).  Nothing on the wire links a
  response to a command but its position, so at most one command may be in
  flight.  Hard: timeouts, cancellations, flood retries outside the lock, the
  keepalive as one more caller, and three independent ways for the session to
  end.  Right when a caller gets the response to its own command and every
  caller is released.
* **session end** (in `RawConnection` and `SshTransport`).  Started by
  `close()`, a timeout, the end of the stream, or a crash of the receive loop, in
  any task.  Right when it happens once, nothing is sent or answered after it,
  background tasks end and the SSH connection is closed.
* **run loop** (in `Client`).  Right when no connection is leaked, the backoff
  follows the failures, handlers run in order, `on_ready` precedes events, and
  `close()` ends it.
* **file transfer**.  Right when what was received is complete, a timeout is
  reported within its bound, and the data channel is closed on every way out.
* **wire protocol and escaping**.  Right when `unescape` undoes `escape`, an
  escaped value contains no separator, and parsing undoes rendering.

`PROJECT.json` lists the hazards line by line, with the properties that cover
each, and says of those not covered yet why.

## The plan

In order of what matters most to the program.

1. `EventStream` (abstract) and `EventQueue`; the queue implements the stream;
   safety of the queue proved. **Done.**
2. `RawConnection`, composed with `EventQueue` (it extends it and drives its
   publishing actions); properties of the command exchange and of the session end. **Done.**
3. `Client` over the promise of `RawConnection`. **Done.**
4. `RawConnectionProofs`: the connection implements `EventQueue`'s behaviour; the lock,
   the futures, the finality of a close; `OneInFlight` and `ResponseMatches` from
   an invariant that relates the wire, `_pending` and the buffer of rows. **Done.**
5. `FileTransfer`: the data channel, timeout, resumption, cleanup; the file server
   external. **Done.**
6. `Protocol`, `Commands` and `MessageChannel`, composed in `Wire`: a command from
   the caller's arguments to the server and its answer back, over a stream that is
   cut anywhere. **Done.**
7. `ClientProofs` and `FileTransferProofs`: every safety property of the two; and
   `ConnectionReleased` in `RawConnectionProofs`. **Done.**
8. `TextProofs`, `WireProofs` and `OutcomeProofs`: that `Wire` implements `MessageChannel` for
   every way to cut the stream, that it knows the generation, and that every caller gets the
   answer to its own call, provided that single lines are readable. **Done.**
9. What `Escape` and `Unescape`, rendering and parsing do to every text: `LinesReadable` and
   `CommandUnderstood` without a bound on lengths, so that the theorems of 8 hold without
   their condition. **Done.**
10. `Keepalive`: discrete time, the idle limit of the server, the interval, and
   the loop that ends on any error.  Not begun.

## The modules

### EventStream, EventQueue

`EventStream` is the promise: events numbered in order of arrival, `published`
and `consumed` counters, delivery oldest first, loss only when `Capacity` are
unread.  `EventQueue` is the code:

| model | code |
|---|---|
| `queue`, `Full` | `_event_queue`; `event_queue_size`, where 0 means no limit |
| `Sentinel` | `_QUEUE_CLOSED` |
| `PublishEvent`, `MakeRoom` | `_publish_event`: drop the oldest item on `QueueFull` |
| `CloseStream`, `PublishSentinel` | the event side of `_shutdown`, `_publish_event_sentinel` |
| `getters`, `wstate`, `WakeNext`, `PassOn` | the getter futures inside CPython's `asyncio.Queue` (external) |
| `BeginWait`, `WaitAgain`, `TakeEvent`, `SeeClosed` | `wait_for_event`, `events` |
| `AbandonParked`, `AbandonWoken` | the timeout of `wait_for_event`, or cancellation |

A consumer woken by `put_nowait` runs later, and a task that calls `get()` in
between takes the item without waiting; `WaitAgain` is the woken one going
back to sleep.

### RawConnection

| model | code |
|---|---|
| `lock`, `waitq` | `_cmd_lock` and its FIFO line |
| `pending`, `fut` | `_pending`; the future each task created |
| `pc`, `intr` | where a task is suspended, and the timeout or cancellation it will find on resuming |
| `attempt` | the loop variable of `exec` |
| `recv`, `dataBuf` | the receive task, `_data_buffer` |
| `tclosed`, `ssh`, `Broken` | `SshTransport._closed`; the asyncssh connection (up, half: channel ended, lost, closed); `send_line` may raise when it is half gone or lost |
| `outbound`, `inbound` | the two directions of the wire |
| `Start`, `StartFails` | `start` |
| `Exec`, `KeepaliveDue` | `exec` called by the application, by `_keepalive_loop` |
| `Refused`, `WriteFails`, `Write` | `_exec_line` from the lock to `send_line` |
| `DrainDone`, `DrainFails`, `CommandTimeout`, `Answered`, `Rejected`, `TimesOutClosed` | the rest of `_exec_line` |
| `FloodRetry`, `RetriesFlood` | the retry loop of `exec` |
| `CancelCaller`, `Unwind` | `Task.cancel()`; `CancelledError` through `finally` and `async with` |
| `CloseSends`, `CloseStalls`, `CloseNoQuit`, `QuitEnds`, `QuitFails`, `WaitClosed` | `close`, called by the application or after a timeout |
| `RecvEvent`, `RecvData`, `RecvTerminator`, `RecvEnd`, `RecvCrash` | `_recv_loop` |
| `Server*` | the server and the network (external): they greet, answer, notify, quit, drop, end the channel, send what does not parse |

Timers are nondeterministic: a timeout may fire whenever it is armed.  A
timeout and a response may coincide: once `asyncio.timeout` has fired, the task
sees the timeout even if the future got its result meanwhile.  The lock, when free, is
taken in a step of its own after the call joined the line; since no other
action depends on a task being in line, this only adds interleavings that a
lock held for a moment would produce.  The receive loop takes one line per step,
though it need not suspend between two that have arrived together.  The transport's
`wait_closed()` is taken to return.  One data line stands for all the rows of
a response.  Each task makes at most `MaxCalls` calls.

### Client

| model | code |
|---|---|
| `conn`, `stopping` | `_conn`, `_stopping` |
| `made`, `open`, `unread` | the connections that exist: open ones, and their unread events |
| `Receiving`, `EventArrives` | `_recv_loop` of any of them, from the greeting on: before `start()` has installed it, and after another has replaced it |
| `at`, `new`, `step` | where each task is in `start()`: dialling, setting up (`Setup` lists its awaits, from the SSH session on), undoing |
| `rf`, `src`, `event`, `todo`, `delay`, `wait` | `run_forever` and `_dispatch` |
| `HandlerCount`, `Named`, `Handlers` | how many handlers `on()` has appended for each name; the lists `_dispatch` puts together |
| `NextDelay`, `Doubled` | the doubling of the delay, capped and not |
| `usage` | how the application goes about it, chosen at the start: whether other tasks call `start()`, whether `close()` may come during one, whether `on_ready` may raise |
| `ready`, `failures`, `log` | history, for the properties only; `log` has each run of a handler, with the event and its connection |

A connection is here what the two modules before show it to be: open until
closed once by either side, its queue bounded, its unread events still handed
out after the close.

### FileTransfer

| model | code |
|---|---|
| `op`, `pc`, `outcome` | the call in progress, where it is suspended, what it returns or raises |
| `Upload`, `Download`, `Granted`, `Refused`, `row` | `upload`, `download`, `_init`, and the row it gets |
| `timer`, `Timed`, `Timeout` | `asyncio.timeout` around the data channel: it expires at any moment, once |
| `Dialed`, `DialFails`, `Remaining` | `_open`, and what is written from `seekpos` on |
| `DrainDone`, `DrainFails`, `Drained` | `drain`, `write_eof` |
| `ReadDone`, `ReadResult` | `read()` to the end for an upload, `readexactly` for a download |
| `Finish`, `WaitClosed`, `Interrupted` | the `finally` clause: `close`, `wait_closed`; an exception at each await |
| `unsent`, `flight`, `HighWater`, `SockBuf`, `Flush`, `ClosedBehind` | asyncio's write buffer and the kernels' (external) |
| `Server*`, `UploadEnds`, `DownloadEnds`, `Reset` | the file server and the network (external) |

The server is assumed to have one transfer of a file at a time and, as the
comment at `filetransfer.py:90` has it, to close the data channel when it has accepted all the
bytes; it also closes one whose end has come early.  An upload is resumed with the
same data, which the code leaves to the application.

### Protocol, Commands, MessageChannel, Wire

`Protocol` has the stateless code as operators, `Commands` the arguments each typed
method of `Client` and `FileTransfer` gives to `exec()`.  A text is a sequence of
characters, where a word that nothing looks into (a key, a number, the prefix `notify`)
is one of them.  The value of a parameter is the text that `str()` makes of it.  `Wire` composes them with the transport, the receive loop and the server:

| model | code |
|---|---|
| `Escape`, `Unescape`, `EscapeMap` | `escape.py` |
| `Segments`, `RenderBlock`, `RenderCommand`, `Renderable` | `render_command` and the `ValueError` of an empty block |
| `ParseDataLine`, `ParseErrorLine`, `ErrorLineParses`, `IsEventLine`, `IsErrorLine` | `protocol.py`; `int()` may refuse the id |
| `EventFromLine`, `RetryAfter`, `SniffDialect` | `events.py`, `errors.py`, `dialect.py` |
| `buffer`, `ReadMore`, `ReadEnd`, `ReadLine`, `Strip`, `HasLine` | `SshTransport.read_line` |
| `TakeGreeting`, `dialect` | `RawConnection.start`; the dialect is `AUTO`, and then sniffed, or named by the application |
| `TakeEvent`, `TakeData`, `TakeEnd`, `Crash`, `dataBuf` | `_recv_loop` |
| `Exec`, `Outcome`, `Return` | `exec`, `_exec_line`, `QueryError.create` |
| `Typed`, `FirstRow`, `FirstField`, `FileListOf`, `Granted` | the typed methods, `file_list`, `FileTransfer._init` |
| `Server*`, `LineOf`, `Meaning`, `Terminator` | the server, by the manual (external) |

`LinesReadable` is a formula about constants: a line made of any one message that
the server may send is parsed back into that message.  It is where rendering and parsing meet; what it
leaves to the properties of behaviours is everything that happens to a line on its way.  TLC
checks it as `UnderwayReadable`, of the messages that a run sends, each when its line has come; it is
proved for all of them (`LinesRead`).

What calls and messages are is said in the assumptions of `Wire`, which TLC evaluates for the calls and
messages of the run.  `WireAssumption` names the characters that mean something; `Char` may have any others.
`CallAssumption`: the name of a command, a switch and a key are words, that is, characters other than
separators, and no key is twice in a dict; what a call has beside a list is of other keys, since the
server would read them as a second value of the list's.  `MessageAssumption`: a row that is sent
has something in it, keys are words, and what else an outcome says is not called `id` or `msg`.
`AnswerAssumption` says of the server what the code relies on: an answer is a sequence of rows and a
terminator, a refusal has no rows, and a transfer is granted or refused in one row at most.  No
assumption says anything about the characters of a value.

The server unescapes and escapes by a table of its own (`Manual`) and by a rule of its own
(`ServerUnescape` counts backslashes), so that a slip in `escape.py` does not cancel out
against itself.  `MessageChannel` is the promise of the direction from the server: messages are
received whole, once, in order, by the kind they were sent as.  `Wire` has one caller
and no timeouts or retries; those are `RawConnection`'s, where a line is one token.  The
division is sound because what a line means depends on its characters only, and whose
answer it is only on its position.

### Seeded faults

An operator marked "Seeded fault" is not part of any specification.  It is a
plausible wrong version of the operator below it; substituting it for the right one
must break the property `PROJECT.json` pairs it with, which shows
that the property can fail.

## The runs

`CHECK_DEADLOCK FALSE` is given for `RawConnection`, `Client` and `Wire`, where a closed
session, or a stopped loop, really has nothing left to do, and for `FileTransfer`,
which stops after its last call.

| run | instance | shows |
|---|---|---|
| `event_queue` | 3 consumers, size 2, 5 events | types, contents of the queue, no lost wake-up, implements `EventStream`, and every consumer is released on close |
| `rc_safety` | 2 callers and the keepalive, 1 call each, 1 flood retry, every hazard | types, lock and `_pending` agree, one command in flight, responses match, no abandoned future |
| `rc_events` | 2 callers, 1 consumer, size 1, 2 events; every hazard | the connection implements the event queue, a closed session is final, the SSH connection is released but for two known ends |
| `rc_liveness` | 1 cancellable caller and the keepalive; every hazard | every call returns that no stalled `drain()` holds up, background tasks end |
| `client` | `run_forever`, 4 setup steps, 2 connections, 2 events; alone as documented, with `close()` during `start()`, with `on_ready` raising, and with both and a second task in `start()` | types, no leak, backoff, order of handlers, sleeps only when lost, `on_ready` before events, `close()` is effective and ends the loop, keeps trying |
| `file_transfer` | uploads, resumed uploads and downloads of an empty file and one of 3 bytes, 3 calls; resets and early ends | what returns is complete, the channel is closed, every call returns |
| `wire` | chunks of 1 to 3 characters; messages with every text of up to 2 characters out of 7; blocks, lists, switches, `None`; both generations, both terminators; notifications before, within and after an answer, blank lines, an end at any point | a line read back is the message it was made of, what is asked is understood, outcomes are exact, the generation is known, no line is held back, implements `MessageChannel` |
| `rc_cancel`, `rc_quit_stall`, `client_early_close`, `client_ready_fails`, `ft_stall` | see [Findings](#findings) | must be violated |

Why these bounds are enough.  *Event queue*: three consumers
are the fewest with one woken, one parked behind it and one that jumps the line;
a queue of two is the smallest with an item behind the head; five events
overrun it while consumers are asleep, and close it full or empty.  *RawConnection*: two
callers and the keepalive give a holder of the lock, a task in line and a task
in a flood wait; a flooded call writes twice, so up to six commands are written in
a session.  Violations of matching need two commands; both are there.  *Client*:
two connections are a first and a reconnect; the delay passes 1, 2 and its cap 3,
which is no power of two; `MaxFailures` is past the point where the cap
applies; a queue of one is overrun by two events; handlers are one catch-all, registered first,
and two of one name.  *FileTransfer*: three calls are an upload, its resumption and a
download; three bytes can be cut at a first, a middle and a last one; a
`HighWater` of one is passed by the key and a byte, so that `drain()` has
something to wait for; a `SockBuf` of four
takes the key and the whole file, so that `wait_closed()` does not depend on the
server.  `ft_stall` has a `SockBuf` of one, where it does (finding 5).  *Wire*: two characters
are the shortest text in which one that is escaped stands before one that looks like
the second half of a pair, and the parser looks at no more than two at a time; chunks of three
hold a terminator and the start of the next line, chunks of one split every
terminator; a session makes any number of exchanges, each from whatever the last left in
the buffer; one notification is sent at most while nothing else is under way
(`MaxUnderway`), and one within an answer.

`ConnectionReleased` is checked against every hazard, with callers that are not cancelled and no
keepalive, and allows two leaks that the code has: a crash of the receive loop (`RecvCrash`)
closes the session and not the transport, and a server that ends the channel but not the
SSH connection (`ServerHalfCloses`) leaves a transport that counts as closed; `close()` does
nothing in either case.  It is known not to hold for the keepalive (finding 2)
and for a cancelled `close()`.  `BackgroundEnds` allows a cancelled `close()` that came before
`start()` was done.  In `client`, `NoOrphan`, `SleepsOnlyWhenLost`, `ReadyBeforeEvents`,
`ClosedStaysDisconnected` and `CloseStopsLoop` each name the usages they hold in; findings 3 and 4
are two in which what they say does not hold; a second task in `start()` is another: the connection that it replaces
stays open, and `close()` does not close it.  `HandlersInOrder` holds in all of them, but if other tasks
call `start()` only the events of each connection are in order: two connections then queue events at
the same time, and `run_forever()` reads the older one first, or out.  `ResponseMatches` and `OneInFlight` are checked for
callers that are not cancelled (finding 1).

## Fairness

`RawConnection` assumes weak fairness of what the event loop does by itself:
resuming a task whose lock is free, whose future is done or whose timer is due;
reading a line that has arrived.  It assumes nothing of the server, the network,
the application or `drain()`: no answer need ever come, and a write to a channel that the
server has ended may raise but need not.  That every call
returns then rests on the command timeout, on `_shutdown` failing the pending
future, and on the lock being released on every way out.  `drain()` has no timeout in the code,
so `EveryCallReturns` says that nothing but a task held there for ever holds up a call.

`EventQueue` assumes that a woken task runs.  `Client` assumes that `run_forever()` takes its own
steps, that sleeps end, and that handlers and `on_ready` return, which is up to the application.  It
assumes nothing of `start()`: commands end by `command_timeout`, but the greeting has no timeout.
`CloseStopsLoop` and `KeepsTrying` need no more.

`FileTransfer` assumes that `exec()` returns (`EveryCallReturns`), that the timer
fires, that the transport flushes what the kernel takes, and that the call resumes
when what it waits for is there.  Nothing is assumed of the file server: it may
never read, send or close.

`Wire` states no fairness: that an answer does not stay in the buffer is the invariant
`NothingHeldBack`, and that the receive loop runs is `RawConnection`'s assumption.

## The proofs

`EventQueueProofs` proves for every set of consumers, queue size and number of
events:

* `EventQueueTypes`: `EQSpec => []EQTypeOK`
* `QueueContents`: `EQSpec => []QueueInv`
* `NoLostWakeup`: `EQSpec => []NoStrandedConsumer`
* `QueueImplementsStream`: `EQSpec => ImplementsStream`

Assumptions: `QueueAssumption` (the size and the bound on events are natural numbers)
and `ConsumerAssumption` (finitely many consumers).

The argument.  `EQTypeOK` is inductive: its part `LineOK` says that the line of
getters lists the parked consumers, each once, which makes removing one from
the line well defined.  `QueueInv` is inductive on top of it: an append after `MakeRoom`
shifts the window of unread events by at most one, and a close with a full queue
evicts exactly one event because the sentinel is not in it yet.
`NoStrandedConsumer` needs both: a put adds one item and wakes one consumer if any is parked, a take
removes one item and one woken consumer or, when a consumer jumps the line,
only the item; and a consumer that gives up passes its wake-up on exactly when
something is left to take.  The refinement maps `consumed` to
`published - NEvents`; consumers' waiting, waking and giving up are stutters, and so
is `SeeClosed`, which leaves a lone sentinel as it was.

`RawConnectionProofs` proves, for any callers and consumers, any limits and
anything `Hazard` allows to go wrong:

* `SessionTypes`: `Spec => []RCTypeOK`
* `LockDiscipline`: `Spec => []LockInv`
* `FuturesServed`: `Spec => []AwaitedFutureServed`
* `ClosedSessions`: `Spec => ClosedIsFinal`
* `SessionImplementsQueue`: `Spec => EQSpec`, and with the theorem above
  `SessionImplementsStream`: `Spec => ImplementsStream`
* `ResponsesMatch`: `Spec => []ResponseMatches`, and
  `OneCommandInFlight`: `Spec => []OneInFlight`, both for `Cancellable = {}`:
  without that condition they are false (finding 1).

Assumptions: those of `EventQueue` and `TaskAssumption` (the keepalive
task is none of the callers, `None` is no task, the limits are natural numbers).

The argument.  `SessionInv` is inductive.  `LockInv` alone is not: `FutureInv` adds
that only the holder of the lock has a future, so that `FailPending`, which looks
at `_pending` only, fails every future there is; and `PhaseInv` relates the
receive loop to the rest: nobody is inside `exec()` before `start()` or after it failed,
the loop ends only with the session, and a loop that starts on a session already closed
finds no events.  This last part is what `SessionImplementsQueue` needs, since
`_recv_loop` publishes without looking at `_closed`.

`ExchangeInv` is inductive on top of `SessionInv` when nobody is cancelled.  Its core is
`InSync`: while the session is open, the line to the server holds at most the last command
written, and then no response is under way (`Quiet`); otherwise the line from the server is
either quiet or holds one terminator, of the last command, with its rows in front of
it or in `_data_buffer` (`Answering`); the last command is the lock
holder's; and when the lock is free, and the transport is not known to be closed,
there is nothing under way at all.  The lemmas `QuietRead`, `AnsweringSkip`,
`AnsweringData`, `AnsweringTerm`, `SendOther` and `SendAnswer` say what reading or sending one
line does to these two predicates; `InSyncTask`, `InSyncLoop` and `InSyncServer` apply them to
the actions.  A timeout keeps the invariant because it releases the lock only after
closing the session; a cancellation does not, which is finding 1.

* `ConnectionsReleased`: `Spec => []ConnectionReleased`, for `Uninterrupted`: no peer stops
  reading, or there is no keepalive and nobody is cancelled.  With a keepalive and such a
  peer it is false (finding 2).

The argument for the last one.  `EofInv`: a transport that counts as closed, or an end of stream that is
on its way, means that the channel has ended, so that a `close()` which finds the transport closed and sends
no `quit` leaves nothing open that was not given up before.  `QuitInv`: a task that is sending `quit` is never
interrupted there, either because nobody is ever found at it or because no task is ever
cancelled; so it gets to `transport.close()`.

`ClientProofs` proves, for any number of tasks, connections, events and handlers, any setup
and any delays:

* `ClientTypes`: `Spec => []ClientTypeOK`
* `NoOrphans`: `Spec => []NoOrphan`
* `BackoffFollowed`: `Spec => []Backoff`
* `HandlersRunInOrder`: `Spec => []HandlersInOrder`
* `SleepsOnlyLost`, `ReadyFirst`, `ClosedStays`: `Spec => []SleepsOnlyWhenLost`,
  `[]ReadyBeforeEvents`, `[]ClosedStaysDisconnected`

Assumption: `ClientAssumption` (the event queue holds at least one event; the delays are natural
numbers, the first at most the greatest; failures are counted at least until the cap is reached;
`run_forever()` is not one of the other tasks, and no event is called `"*"`).

The argument.  `ClientInv` is inductive (`ClientInvariant`).  `AloneInv`: if nobody but
`run_forever()` connects, what is open is at most the last connection made, and it is in the hands of
`start()` or of the client, depending on where `start()` is; this says more than `NoOrphan`, which
would allow a second one.  `ServedInv` and `StoppedInv` relate the place in the loop to the connection.
`DelayInv` adds to `Backoff` that a sleep has a failure behind it; `BackoffProperties` shows
that doubling under the cap, and capping what was doubled, are the same, and that
once the cap is reached it stays so, which is why a bounded count of failures is enough.
`HandlersInOrder` needs most, because a connection may queue events before it is served and after another was
installed.  `QueueInv` says of every connection that its unread events are in the order sent (`Sorted`), that no two
connections have the same event (`Apart`), and that they are later than all of that connection that was dispatched (`Behind`).  If
nobody but `run_forever()` connects, what is unread on the connection that it reads, or will read next (`Reads`), is
later than all that was dispatched from any connection (`Later`): no event is dispatched while a newer connection is set up.
`DispatchInv`: the end of the log and the list of handlers
left are together the handlers of the event (`Ran` of them have run).  So an event that
is over has run them all, and `HandlersOrdered` says that a list of handlers is in order and lacks none.

`FileTransferProofs` proves, for any payloads, limits and buffer sizes, with the timeout, a
cancellation, a reset or an early end at any await:

* `FTTypes`: `Spec => []FTTypeOK`
* `UploadsComplete`: `Spec => []UploadComplete`
* `DownloadsExact`: `Spec => []DownloadExact`
* `ChannelsClosed`: `Spec => []ChannelClosed`

The argument.  `TransferInv` is inductive (`TransferInvariant`).  Its core is `PipeInv`: what is in the write
buffer and in the kernels is, byte for byte, the beginning of what the server has yet to get (`DueAt`: the
key, then the upload from where the file ends), and all of it while there is a
channel.  `FileInv`: the file is a beginning of what it was begun with, which is the data of any upload that resumes it.
`EndInv`: the server ends an upload when the file is complete, and what a download
has read is a beginning of the file.  `PhaseInv` says where a channel may be open.

`TextProofs` proves of the operators on texts, for texts of any length over any characters:

* `UnescapeServerEscape`: `Unescape(ServerEscape(text)) = text`
* `ServerUnescapeEscape`: `ServerUnescape(Escape(text)) = text`
* `CommandsRead`: the line that any call is rendered to is read by the server as what the call asks for
* `LinesRead`: `LinesReadable`

Assumptions: `WireAssumption`, `CallAssumption`, `MessageAssumption`, `AnswerAssumption`.

The argument.  A text that is escaped character by character is the concatenation of what stands for each
(`Mapped` by a `Coding`).  `escape()` does it in eleven passes: pass by pass, `Replace` with the next pair of
`EscapeMap` turns a text coded by the pairs before into one coded by that pair, too, because the backslash comes first and no
later character is a backslash or a code; so `Escape` and `ServerEscape` are the same function.  The other direction is an
induction from the front: a text that begins with a coded character is unescaped to that character and
what the rest is unescaped to, for the client's pass from left to right (`UnescapedShift` moves its
recursive function along) as for the server's rule, where the run of backslashes before a place has the
parity it has in the rest.  What is escaped has no separators (`Safe`), hence `SplitJoin`: pieces without the separator are split
as they were joined.  `LinesRead` applies this twice, to the rows of a line and to
the properties of a row (`RowTextRead`, `DataLineRead`), then by kind of message (`EventReadable`, `EndReadable`,
`RowMessagesReadable`).  `CommandFacts` does it for commands, where a list puts a separator of segments inside a block:
what the server reads of the whole is then compared as a set (`Tells`), segment by segment where there is no list
(`Whole`), and no segment has two values of a key (`Tidy`).  `MeaningTellable` closes the circle: a server that
echoes a call sends rows that can be told.

`WireProofs` and `OutcomeProofs` prove, for any calls, answers, notifications and sizes of chunks:

* `GreetingDecides`: `Spec => []DialectKnown`
* `NothingWaits`: `Spec => []NothingHeldBack`
* `UnderwayRead`: `Spec => []UnderwayReadable`
* `WireImplementsChannel`: `Spec => ImplementsChannel`
* `OutcomesExact`: `Spec => []OutcomeExact`
* `CommandsUnderstood`: `Spec => []CommandUnderstood`

The assumptions are the same, and there are no others: that single lines survive rendering and parsing is
`LinesRead`, that nothing happens to them in a stream of any length is proved here.

The argument.  What is to be read, `buffer \o inbound`, holds the lines of the messages under way
(`Decodings`).  The witness of that is a function which counts, for each place in the text, how many of those
lines end up to it; two neighbouring line ends either count one line, which is what is left between them
when carriage returns are stripped, or, if blanks are allowed, none.  Since the witness speaks of
places, sending, reading and losing are each a fact about it: `DecodeLines` (lines and their terminators behind
a whole text are as many lines more), `DecodeRest` and `CutLine` (the text up to the first line end is the first
line), `DecodePrefix` and `DropText` (an end of the channel at any character leaves a beginning).  `ChunkText` says that
reading a chunk leaves `buffer \o inbound` as it is, so that chunks never matter.  `GreetInv` says
this of the greeting, without blanks, and `StreamInv` of the messages behind it.  `DecodeEmpty` is `NothingWaits`: in
a whole text without a line end there is no line.  `LineTaken` says which message the
receive loop makes of a line (`MessageTaken`), or that it ends; this is all that the theorems about messages need
to know of the text.  `OutcomeInv` is the invariant of the exchange: either nothing of an answer is
kept or under way (`Quiet`), or the rows kept and the rows under way are together those of the answer to the
call in progress, with its end behind them (`Answering`), however they are divided over lines and
whatever goes by between.  `TypedExact` says, method by method, what the wrappers make of them, and
`FloodWait` that the number in a flood message is found.  `UnderstoodInv` adds what the server read: it is the
line of the call in progress, because a command is on its way only while the loop runs, where `ExchangeInv` says
whose it is, or after the channel has ended, where nobody reads it; and `CommandsRead` says what was read of that line.

`SequenceInduction` has the induction that these proofs and those about `Client` rest on.  The library's
induction theorems take a predicate as a parameter and cannot be used by the
installed provers; `NatSetInduction` states induction about a set, and is derived from the
library's theorem that a set of finite sets has a minimal element.  `NatRecursion` shows that functions defined by
recursion exist, which is what allows `Doubled` to be unfolded, and `IndexedRecursion` the same where a
step depends on its number, as it does in `FlattenSeq`: `FlattenJoins` says step by step what it joins, and
`FoldExists` the same of a fold.  `SeqSetInduction` and `SeqFrontInduction` are induction over sequences, that grow
at the end and at the front.

Only model-checked: liveness (out of the prover's reach), that is `ConsumersReleased`, `EveryCallReturns`,
`BackgroundEnds`, `CloseStopsLoop`, `KeepsTrying` and `TransferReturns`.  Every other property that a
passing run checks is a theorem, under the conditions given above.

## Findings

1. **A cancelled `exec()` misdelivers its response** (`rc_cancel`,
   `connection.py:198-216`).  Cancelling the task clears `_pending` and
   releases the lock while the response is still to come.  The next command's
   future gets it.
2. **A keepalive timeout may leave the SSH connection open** (`rc_quit_stall`,
   `connection.py:308-309`, `126-129`).  `close()`, run by the keepalive task,
   cancels that very task through `_shutdown()`; if `quit` then waits for a
   peer that does not read, `transport.close()` is skipped, and a later
   `close()` does nothing.
3. **`close()` during `start()` is undone** (`client_early_close`,
   `client.py:180`).  `start()` installs its connection without looking at
   `_stopping`, and `run_forever()` serves it.
4. **A failing `on_ready` is taken for a lost connection** (`client_ready_fails`,
   `client.py:269-287`).  The loop logs a reconnect, sleeps, and resumes on the same connection
   with `on_ready` never completed.
5. **An upload that times out may never return** (`ft_stall`,
   `filetransfer.py:92-94`).  The `finally` clause awaits `wait_closed()`, which waits
   for the write buffer to be flushed; the timeout has fired and does not fire
   again.  With a server that does not read and data beyond the socket buffers the call
   hangs.

## What is not modelled

* Enumerations and exports (`definitions.py`, `__init__.py`): no behaviour.
* The keepalive's clock: when it sends is left open in `RawConnection`, and that its loop ends
  when a `whoami` fails is the step `Raised`; how long a session may then be idle is not modelled.
* The decoding of bytes, bad command names, and the forms in which `register_events` may be given
  (`_normalize_registrations`): type tests on one value.  `Mapping` methods of `Event`.
* Logging and the text of exceptions.
* asyncssh and asyncio beyond what the code relies on; the server beyond
  reading commands in order and answering each once.
* `scripts/probe_dialect.py` and the test scripts: developer tools that share only
  `parse_data_line` with the library, and whose own reader (a regular expression over what has been
  read so far) works on a throwaway server, one command at a time.
