# ChatSync in TLA+

ChatSync is a C++ program that joins chat channels (IRC, Tox, Telegram, files) into
*hubs*: what is said in one channel of a hub is repeated in all the others. This
directory holds TLA+ modules of its concurrent core, TLC configurations that check them
on small instances, and TLAPS proofs about every modelled part, for instances of any size.

All paths below are relative to the repository; its C++ sources are in `src/src/`.

## 1. Inventory of the system

| Component | State it keeps | Operations | Talks to |
|---|---|---|---|
| `Hub` (`hub.cpp`) | `_inputChannels`, `_outputChannels`, `_messages`, `_mutex`, `_cond`, `_loopRunning`, `*_alive`, the loop thread | `addInput`/`addOutput`, `activate`, `newMessage`, `pushMessage`, `popMessage`, `msgLoop`, `tick`, `deactivate` | every channel: calls `activate`, `incoming`, `tick`; is called through `newMessage` |
| `Channel` (`channel.cpp`) | `_fd`, `_thread`, `_pipeRunning`, `_active`, `_reconnect_attempt`; shares `*_hub_alive` with its hub | `startPolling`, `stopPolling`, `reconnect`, `pollThread`, `disconnect`, `operator>>` | its hub; the kernel's descriptor table, shared by all channels |
| `IrcChannel` | `_ping_time`, `_last_pong_time`, `_connection_issue`, the users it knows | `activate`, `incoming`, `parse`, `ping`, `checkPong`, `tick` | an IRC server |
| `FileChannel` | `_file`, besides what every channel has | `activate`, `openPipe`, `incoming`, `parse`, the destructor | a FIFO named `input`, or a file named `output` |
| `ToxChannel` | the `Tox` handle, `wasConnected`, the static text buffers of `incoming` | `toxInit`, `activate`, `toxStart`, `pollThread`, three callbacks, `incoming`, the destructor | the tox library, a datafile |
| `TelegramChannel` | `_last_update_id`, `_chat`, endpoints | `pollThread`, `incoming`, `telegram_request` | the Bot API, through the HTTP client |
| HTTP client (`http.cpp`) | one connection, the response buffer | `PerformHTTPRequest`, `HTTPResponse` | sockets and TLS |
| Network helpers (`net.cpp`) | TLS handle | `tcp_connect`, TLS calls | the resolver, GnuTLS |
| Logging (`logging.cpp`) | `_messages`, `_mutex`, `_cond`, `_writer`, `_running`, `_log_repeat`, `_sink`, `_severity` | `log`, `writeOut`, `setOutput`, `setSeverity`, the destructor | called from every thread |
| Configuration (`config.cpp`) | an option map, fixed once parsed | `parseConfig`, option conversions, `cistrcmp` | `main`, channel constructors |
| Main (`main.cpp`) | the hubs, `running` | reading the file, `sighandler`, the tick loop, shutdown | hubs, channel factory, signals |
| Messages and users | immutable values | constructors and accessors | hub and channels |
| Channel factory | a static table | `create`, `registerClass` | `main` |

**How the parts interact.** `main` reads the configuration and constructs hubs and
channels; a channel's constructor registers it in its hub. `Hub::activate()` starts
an asynchronous task per output, waits for them, does the same for the inputs, then
starts the loop thread. A channel's own thread turns what it reads into a message and
calls `Hub::newMessage()`; the loop thread pops messages and offers each to all outputs
except the one it came from, through `operator>>`. `main` calls `tick()` every `tick_timeout` milliseconds. SIGINT
clears `running`; `main` then deactivates the hubs, which clears `*_alive`: the only
way that the detached threads of channels learn of the end.

**What is hard here.**

* `popMessage()` reads the queue without the lock, takes the lock only to wait, and
  pops with or without it.
* Reconnection spreads over detached threads that hold no lock and meet in `_active`,
  `_pipeRunning`, `_thread` and `_fd`; descriptors are numbers that the kernel reuses.
* Futures of `std::async` whose destructors wait silently order activation, ticks and
  deliveries, or make them synchronous where a comment says otherwise.
* Shutdown passes through three flags (`running`, `_loopRunning`, `*_alive`), an exit
  message in the queue, and one `join()`.
* The logger never waits for its lock: it retries from detached threads, which reorders
  messages, and gives up with an exception.
* Section headers are compared with a function that is no equality.
* The health check of an IRC connection outlives the connection it watches.
* What a Telegram server forgets is decided by an offset that only some updates move.
* A Tox channel saves its friends in its destructor alone, after the hub's queue is gone and
  before its handle is; its poll thread runs callbacks into that hub until it is joined.
* A FIFO reports its end each time its last writer closes, so that reconnection is normal
  business; activation and reconnection call each other when it cannot be opened.
* A line may be cut by reads anywhere, also between its CR and its LF.
* A Tox channel knows its own messages by a name, which the library is asked for anew with each
  message, the configuration may change between two runs, and the lookup may not find.
* A response buffer is sized and filled by four counts, one of which may be `-1`.

**What makes each part correct.**

* Hub: each accepted message is offered to each output once, in one order, never to its
  origin; inputs start after outputs; the exit notice is the last message handed out;
  stopping costs at most one more delivery; the backlog drains.
* Channel: one thread at a time looks after a channel; working connections are not torn
  down; a reconnection ends; when the hub dies the threads end.
* Logger: nothing pushed is lost or written twice; a message logged is in exactly one place whatever
  its retries; order of one thread is kept unless a message was delayed; exit terminates.
* IRC: lines reach the hub once and in order, but torn ones and the one behind a lone LF; a server
  that answers PINGs is not dropped.
* Telegram: no update of the chat is acknowledged before it was pushed; order is kept.
* Tox: a life saves everybody it accepted; no readable datafile loses friends; the bot does
  not hear itself where the library knows its name; texts are sent whole and in order; SIGINT leads
  to the saving.
* File: a line written to a settled channel is read; activation and reconnection end, however they
  are nested; only a thread that did not wait in `select()` when the hub died can touch the
  channel's memory after it is freed.
* HTTP response: what is received fits, is complete and is terminated; receiving ends.
* Process: a well-formed file is read as written, and each channel is made of one section; hubs are
  started, ticked and stopped together; after a SIGINT at most one more round of ticks begins.

## 2. Modules

| Module | Models | Extended by |
|---|---|---|
| `Relay` | what a hub promises, without threads, locks or queue: a log, and a cursor per output | instantiated by `Hub` |
| `Hub` | `hub.cpp`, all of it, with `operator>>` | `MCHub`, `HubProofs` |
| `HubProofs` | theorems about `Hub` for all constants | |
| `Channel` | `channel.cpp`, `IrcChannel::activate()`, `tcp_connect()`'s outcomes | `MCChannel`, `ChannelProofs` |
| `FileChannel` | `filechannel.cpp` as an input, with what it inherits from `channel.cpp` | `MCFileChannel`, `FileProofs` |
| `Tox` | `toxchannel.cpp`, and the destruction of the hub around it | `MCTox`, `ToxProofs` |
| `Logger` | `logging.cpp`, `logging.hpp` | `MCLogger`, `LoggerProofs` |
| `Process` | `main.cpp`, `cistrcmp()` | `MCProcess`, `ProcessProofs` |
| `Irc` | `IrcChannel`'s line splitting and health check, `pollThread()`'s read | `MCIrc`, `StreamProofs` |
| `Feed` | what a polling channel promises, without offsets, replies or restarts: wanted updates are delivered before they are forgotten, and none after | instantiated by `Telegram` |
| `Telegram` | `TelegramChannel`'s polling and `parse()`, and the server's update queue | `MCTelegram`, `TelegramProofs` |
| `HttpResponse` | `HTTPResponse`'s receiving side and the `recv()`s of `net.cpp` | `MCHttpResponse`, `StreamProofs` |
| `StreamProofs` | theorems about the two modules that read a byte stream in pieces, `HttpResponse` and `Irc`; what both would call `Init`, `Next`, `Spec`, `vars` and `TypeOK` is therefore prefixed in them (`IrcInit`, `HttpInit`, ...) | |
| the other `...Proofs` | theorems about the module each is named after | |
| `MC...` | instances: the configurations' values, and the specifications with extra assumptions | |

Every module works the same way: one variable per variable of the code (with its
name where TLA+ allows), one action per stretch of code between two points where another
thread can see or change what it uses, and *history* variables, marked as such,
that no action reads except to keep them or for a bound. Definitions commented "mutant of" are not part of a specification:
each is a plausible error in the code, kept to show that the property it is named with in
`PROJECT.json` notices it.

### Hub and Relay

A message is its `_originId`, the only field that the hub reads; `NoMessage` is the
null pointer `parse()` may return. Who calls `pushMessage()` is a channel or `"system"`
(the exit notice of `deactivate()`).

| Action | Code |
|---|---|
| `AddChannel` | `addInput`/`addOutput` by a channel's constructor |
| `ActivateOutputs`, `FinishActivate`, `ActivateInputs`, `StartLoop` | `activate()`, split where it waits for futures |
| `LockToPush`, `Push`, `Notify` | `pushMessage()`: the lock, the push with the unlock, `notify_one()` |
| `CheckRunning` | `while (_loopRunning)` in `msgLoop()` |
| `PassGate` | `popMessage()` sleeping until `_loopRunning` |
| `TestEmpty`, `Sleep`, `SpuriousWake`, `Relock`, `Pop` | its `while (_messages.empty())`, construction of the lock with `wait()`, waking, locking again, `front()`/`pop()`/`unlock()` |
| `CrashOnPop` | the data race of an unlocked pop with a push in progress: the pop works, or the process is lost. Corruption short of a crash is not followed |
| `SkipOutput`, `StartIncoming`, `EndIncoming`, `FanOutDone` | the loop over `_outputChannels` and `operator>>`, whose discarded future waits |
| `Tick`, `TickTaskEnds`, `TickReturns` | `tick()` |
| `StopLoop`, `ClearAlive`, `Join` | `deactivate()` in its order |

`popMessage()`'s loop is kept exactly: `wait()` reacquires the lock, the loop tests the queue
again, and if it is empty constructs another `unique_lock` on the mutex that the thread
already holds. In the model `Sleep` then never becomes enabled.

`Relay` is the promise: an append-only log and, per output, a cursor that walks it. `Hub`
implements it with `log <- accepted`, `got <- handed`, and a cursor that
counts, for an output the current fan-out has not yet reached, one entry less.

### Channel

A thread is a `pollThread()` or a call of `reconnect()` with the `activate()` task it waits
for. Descriptors are `1..MaxFd`, handed out lowest first as the kernel does; `table`
names the channel that opened each. `StopPolling` forgets the old thread,
`CloseFd` closes a number without forgetting it, `Retry` counts the attempt and starts the
delayed call, `GiveUp` is the exception that leaves the detached thread and ends the
process. `death` records which of the ways to end the process happened. The
environment is `PeerCloses`, `TickDrops` and `TickForgets` (the health check giving a connection up:
it closes `_fd` and then, in a second step, sets it to -1, whatever was stored there in between;
`dropping` holds the channels between the two), `Interrupted` (a signal ends `select()`, which
`pollThread()` takes for a failed connection), `Incoming` (a write to a lost connection, which raises
SIGPIPE), and `HubDies`, which waits for the tick tasks. In `activate()` the wait for a connected
descriptor (`Ready`) and the registration (`Register`, several writes, which are one step) are apart: a
descriptor that is closed before the first is waited for without end (`Spins`), and one closed
between the two makes the write fail. The history
`calm` becomes false when a connection is lost while `reconnect()` runs on its channel, or when a
signal sends a poll thread to reconnect one that works: from then
on two reconnections may be at work on one channel, and `OneKeeper`, `DiesOfAttempts`,
`KeepsWorkingConnections` and `Recovers` say nothing more; `DeadHubStops` has no such premise.
The history `apart` becomes false when a channel opens a descriptor whose number another channel
still remembers, in its `_fd` or in a poll thread's copy (`Remembers`): the proofs need it when there
are several channels.

### FileChannel

The same threads for a channel that reads a FIFO. `open` and `met` say which descriptors are open on
it and which of them have seen a writer; a FIFO's content is gone when both ends are closed.

A thread that polls is at `"begin"` before it has read `_fd` and the flags for the first time, at
`"test"` before each further round, at `"select"` while it waits, and at `"ready"` once `select()` returned
with the hub alive: there it reads (`PollRead`) or takes the end of file for a reason to reconnect
(`PollFails`).

| Action | Code |
|---|---|
| `OpenPipe`, `OpenFails`, `MkfifoFails` | `openPipe()` in `activate()`'s task; a failed `open()` returns -1, a failed `mkfifo()` throws |
| `StartPolling`, `ReconnectWithin`, `NoThread` | `startPolling()`: with a descriptor the poll thread; without one `reconnect()` in the same task, whose `activate()` is another task it waits for |
| `Abort`, `GiveUp`, `StopPolling`, `Disconnect`, `Succeeded`, `Retry` | `reconnect()` |
| `PollBegins`, `PollTests` | the new thread's copies of `_fd` and the pointer to `*_alive`; `while (_pipeRunning)` |
| `PollTimesOut`, `PollWakes`, `PollEnds` | what `select()` returns with: nothing, something, a dead hub |
| `PollSkips`, `PollRead`, `PollFails`, `ShortRead` | what follows: a closed descriptor of a channel that was stopped, data, none, and less than `FIONREAD` had counted |
| `HubDies`, `Destroy`, `TouchFreed` | `*_alive` cleared; the destructors; a thread that goes on in the memory of a destroyed channel |
| `WriterOpens`, `Write`, `WriterCloses` | other programs |

Which threads may survive the channel is the point of these places. A thread that waits in `select()` looks
at `*_alive` through a copy of the pointer made before the loop, and returns before it touches a member:
`PollEnds` is possible after `Destroy`. Everywhere else, `"begin"` and `"test"` included, the next thing
a thread does is to read members of the channel. So only waiting and ended threads are `Quiet`; `late` records whether, when the hub
died, all were; and `TouchFreed` is open to every other thread once the channel is gone.

An exception in a nested `activate()` task is kept in a future that nobody reads; only one that leaves a
detached thread, or the hub's own `activate()`, ends the process. `activate()` and `reconnect()` call
each other as deep as there are attempts and threads: a creation of a thread fails when
`MaxThreads` are in use, by `std::async` throwing as it does when the system has no more.

### Tox

One channel through several lives of its process, each `Load`ed from the datafile or begun `Fresh`: with a
new identity, or with no handle, if the library refuses to make one. Of the library's data the identity,
the set of friends and the bot's own name are kept, in the handle and in the datafile; of a text its length.

| Action | Code |
|---|---|
| `Load`, `Fresh` | `toxInit()` |
| `Activate`, `ActivateFails`, `Connected` | `toxStart()` before and after its loop on `wasConnected`; the first writes the configured nickname into the handle |
| `FriendRequest`, `FriendMessage`, `MemberSpeaks`, `EchoArrives` | the callbacks, in the thread that iterates: the activating one, then `pollThread()`; the last two run `groupMessageCallback()` (`GroupMessage`) |
| `MemberSpeaksToFreed` | the same when the hub's queue is destroyed already: undefined, here nothing or the end of the process |
| `Format`, `RivalFormats`, `Send`, `SendRaces` | `incoming()`: the text in the static buffer; another hub's channel using that buffer; the call of the library with the length of the *whole* text; that call while the poll thread is inside the library |
| `Deactivate`, `FreeHub` | what `main` and the hub do first |
| `StopPoll`, `Join`, `OpenData`, `CannotSave`, `WriteData`, `Kill` | the destructor |
| `Killed`, `Sigint`, `GoesOnline` | the outside |

What the bot says in the conference comes back to it (`echoes`), and it is told from what others say by name:
`groupMessageCallback()` asks the library for the speaker's and compares with the *configured* nickname, `nick`, which
may have been edited since the datafile was written. The errors of the lookup are not looked at, so that
where the library does not know the speaker the name is whatever the memory held: `Found` is then any
name at all. `pushed` records with each message whether the name was known.

`older` and `rival` are fixed at the start: a build against the older library, whose lengths are
`uint16_t` (`Width`), and a process with a second hub that has a Tox channel. `Width` is the modulus
there; `MaxLength` is the buffer's size, of which `snprintf()` fills one byte less with text.

### Logger

A worker is a thread that logs, or the retry thread of a message. `TryLock` is the
`try_lock`; where it fails, `Delay` starts the retry thread, and `GiveUp` is the exception after
`MaxRepeats`. The failed attempt counts itself after that thread was started, without the lock:
`Count` reads `_log_repeat` again and `Store` writes one more, so that updates of others in between are lost, and
two attempts that both pass the test can also take the counter past `MaxRepeats + 1`. The writer is `CheckSink` .. `Write`;
`Exit` is the destructor. One assumption is built in: a retry thread sleeps for 25 ms at
least, and the attempt that started it is over by then.

### Process

A configuration file is the sequence of words that `>>` yields: section headers, the options that a hub or a
channel cannot do without (`Needed`), and any other word (`Blank`). Besides its words a file says whether a newline ends it and
whether it can be opened. An option with spaces around its `=`, as the example in `config.hpp` has them, is
several words; `main()` joins words with newlines and `parseConfig()` reads line by line, so it makes nothing of them: they are
`Blank`, and the option is missing. Section names are sequences of letters,
because `cistrcmp()` is about letters: it hands an equality to
`std::lexicographical_compare`, so it is true as soon as one position agrees, or if none
does and the first name is shorter. A hub without its name or a channel without what it needs is
`"refused"`: an exception that nothing catches. A type is taken to be one that a class is registered for.
A string that a failed `>>` leaves alone is empty in the outer loop, which declares it anew, and the last word read
in the inner ones. `eof()` is never true of a stream that was not opened, so that the outer loop goes on
for ever. `made` remembers of which section, by the place of its header, each channel was made.

`Sigint` may come twice and at any time. Without the handler it ends the process. The handler clears `running`
and then logs, which allocates, tries a lock and may start a thread: it returns, or an exception leaves it
(`"terminated"`), or it waits for ever for what the interrupted code holds (`"hung"`). What the hubs do when
called is in `Hub`; here each call is one step, and nothing requires it to be taken.

### Irc

A server line travels in two pieces, so that a read may cut it; the second ends in CRLF, or is the LF alone
and the CR came with the first (`lone`). `Read` is one `read()`,
`parse()` and the calls of `newMessage()`: what begins and ends within the read becomes
messages, a last fragment is dropped, and a rest of an earlier line matches no message but may
match PONG. A read that begins with an LF does not split there: `parse()` looks for CRLF, so the next line is found with that LF
in front of it, and `^:` does not match. That line came whole and is lost all the same (`Spoilt`; `behind` remembers it), unless it is a PONG,
which is found anywhere. `ReadNoLine` is `back()` of an empty vector, in a read that holds no CRLF. `TickQuiet`, `TickPings` and
`TickDrops` are the three outcomes of `tick()` with `checkPong()`; `Registered` is the end
of `activate()` with its PING. `_connection_issue` and `_last_pong_time` belong to the
channel and not to the connection, so `Closed` leaves them alone: a connection opened after
a drop is dropped again by the first tick that precedes its first PONG. `HealthyStays` says how far that goes:
the tick that drops has an excuse in a PING or PONG that an earlier tick, or this
one, found on its way, a missing connection, or a PONG torn by reads.

### Telegram

An update is its place in the server's sequence and its kind. `Request` is one
turn of `while (_pipeRunning)` up to sending `getUpdates`, which makes the server forget
what precedes the offset; `Reply` fixes the batch, `Each` is an iteration of `parse()`'s loop
and `Last` the parsing of the reply's last update for the return value. That one is not
filtered by chat, and was handled by the loop already if the reply had several: hence a
message pushed twice, which `RunInOrder` admits nowhere else. An update without a message
leaves the offset where it is; a full reply of updates that push nothing is asked for for ever (`Stuck`).
`Die` stands for the exceptions that leave the polling thread, and `Restart` for a
process started again, which asks from offset 0. `Telegram` implements `Feed` with `updates <- kinds`,
`forgotten <- acked`, `heard <- pushed`: each `getUpdates` that passes over something maps to `Forget`.

### HttpResponse

Bytes are counted. `First` is the constructor's read, `Parse` is `parseHttp()` with the
sizing in `recvBody()`, `LengthRecv`/`LengthEnd`/`LengthReset` its loop for an announced
length, `Pending`/`TimedRecv`/`TimedOut`/`TimedEmpty` the one without. `size_t` is counted
modulo `W`, which matters where `tellg()` of a failed stream is `-1` and where a failed
`recv()`'s `-1` is added. `zeroed` tracks how far the buffer is known to hold zero bytes, because
the body is later parsed as a C string.
A header that the first read cuts short is followed, but excused by the properties: then
`_header_size` is `-1` and the loop's arithmetic means nothing.

## 3. What TLC checks

The runs finish within seconds to three and a half minutes. `CHECK_DEADLOCK FALSE` is
right everywhere: each of these programs may stop (a stopped hub, a dead process, an exited
`main`), and which rests are wrong is said by properties instead.

| Run | Instance | Shows |
|---|---|---|
| `hub` | two bidirectional channels and an input, two messages and the exit notice, spurious wake-ups, fair | `QueueIsBacklog`, `HandedExactly`, `ActivationOrder`, `StopsInOrder`; `Hub` implements `Relay`; `BacklogDrains`, `StopReturnsOrHangs`, `AllOutputsOffered` |
| `hub_wakeup` | one message, no spurious wake-ups | violates `WokenByMessage`: a message pushed and notified between `empty()` and `wait()` is slept on |
| `channel` | one channel, two descriptors, two disturbances at any moment: connections lost, drops by `tick()`, signals; fair | `OneKeeper`, `DiesOfAttempts`, `KeepsWorkingConnections`, `Recovers`, `DeadHubStops` |
| `channel_two` | two channels | violates `KeepsWorkingConnections`: a descriptor number closed twice belongs to the other channel the second time |
| `file` | one line at a time, writers that come and go, two descriptors, three threads, three failures of `open()` or `mkfifo()`, fair | `LinesKept`, `OnlyLateAreLost`, `Recovers` |
| `tox` | one friend, two nicknames, two lives of up to two texts of lengths below, at and above the buffer, fair | `FriendsSaved`, `NothingForgotten`, `NoEcho`, `SaidWhole`, `StopSaves` |
| `logger` | one thread logging two messages of two severities, with their retry threads and the writer, fair | `PushedIsWritten`, `OnePlace`, `ProgramOrder`, `EventuallyWritten`, `ExitReturns` |
| `process` | any three sections or fewer in any order, their options with and without spaces, and one or two hubs of one to three channels with and without `[general]`; each whole or broken off after any word, with and without a last newline; and a file that cannot be opened; up to two SIGINTs at any moment; `main()` keeps reading | `FilesAreRead`, `ShutdownIsOrderly`, `PlainFileEnds` |
| `process_hub` | a file of a hub and a channel, without `[general]` | violates `FileIsRead`: `[hub]` is taken for `[general]` |
| `irc` | three chat lines in two pieces each, CR and LF together or apart, four ticks, a time-out of one tick | `IrcTypeOK`, `LinesInOrder`, `HealthyStays` |
| `telegram` | four updates, replies of at most two, one restart, fair | `RunInOrder`, `EventuallyPushed`; `Telegram` implements `Feed` |
| `http` | a buffer of 4; headers of 2 and 3, bodies of 0, 1, 2, 5 and 9 bytes; plain and TLS, with and without a length; close or reset at any moment; fair | `Fits`, `ReplyIsWhole`, `Ends` |

Every module that models code states a type invariant, and all of them are proved; `irc` runs its own
besides, which says that a closed connection leaves nothing to read. The runs that "violate" are
findings: each of their properties says what a comment of the code says, quoted in `PROJECT.json`, and
the trace shows the code doing otherwise.

**The bounds, and why they are enough.** Two bidirectional channels are the least for which
own messages, other outputs and the order of outputs all matter; the third, an input, is
needed for the activation order, and spurious wake-ups let `popMessage()` lock itself. Two messages and the notice let one be
popped while another is pushed and a third waits. The proofs remove these bounds for
safety. `MaxThreads` of `Channel` is one more than a channel uses when nothing goes
wrong at the same time: a behaviour that uses all of them is exempted from `DeadHubStops`
rather than counted as correct. `MaxReconnects = 1` reaches success at the first and second
attempt, and giving up; two descriptors let a number be closed, used again and run out. In `logger` one thread is enough for contention, since its retry threads and the
writer compete with it, and two failed attempts can meet in the counter. In `file` three failures let `open()` fail in
the hub's own `activate()`, in the one nested in it, and once more: with one attempt allowed they run out inside
the nest, and with three threads the creation of the next one fails there too; two
descriptors let an old and a new one be open at once and run
out. In `tox` two lives are needed for a
datafile to be read and written again, two nicknames for the datafile's and the configuration's to
differ, two texts for order, and the lengths 2, 3 and 6 with a
buffer of 3 and lengths modulo 5 are a text that fits, one that loses its last byte, and one that
is refused or wraps. In `process` three sections hold each pair of neighbours with something before or after, and the
larger files repeat hubs and channels. In `irc` four pieces in the socket allow every way of cutting, and
four ticks allow a drop, a new connection, and its loss. In `telegram` four updates with a limit of two
make a full reply, one that is not full, and one of a single update, which is handled differently; the restart comes anywhere.
In `http` the sizes lie below, at and above what fits the first read (3) and the initial
buffer (4), and need one and two growths; `W` is larger than any sum of them. Counters that histories keep (`late` of `Hub` and of `Process`) stop at the first value
that decides the property.

**Fairness.** `Hub`, `Channel` and `Logger` assume weak fairness of every thread's own next
step: the operating system schedules every runnable thread, a free mutex is granted, a
sleep ends. `Hub` adds that the channels' `activate()`, `tick()` and `incoming()` return;
`Process` only that `main` keeps reading the file, and not that a call into a hub returns; `Telegram` that each request is answered or times out;
`HttpResponse` that a peer which stays connected sends what it announced. `FileChannel` is fair to every
thread's own step and to nothing outside; `Tox` to the destructor and the shutdown before it, the poll
thread's loop, the delivery at work, and the activating thread's noticing a connection the library
reports, but not to there ever being one. `Irc` has safety
properties only and assumes nothing. Nobody is obliged to send, log, break a connection, tick
or send SIGINT. Where the code can really hang, the liveness property names the state it
hangs in (`Overslept`, `SelfLocked`, `GateTrapped` of `Hub`, `Spins` of `Channel`, `Deaf` of
`FileChannel`, the activation without a network of `Tox`) and asserts that there is no other.

## 4. What is proved

`HubProofs.tla` proves for every set of channels, every `Direction`, every `MaxMessages` and
with or without spurious wake-ups (assumption `HubAssumption`):

| Theorem | Says |
|---|---|
| `TypeCorrect` | `Spec => []TypeOK` |
| `BacklogCorrect` | the queue is the accepted messages not yet popped, in order |
| `DeliveryCorrect` | each output was handed exactly what it was offered, without null and own messages |
| `HubImplementsRelay` | `Spec => RelaySpec` |
| `StopOrderly` | `*_alive` cleared under no tick task; nothing after the exit notice; at most one late delivery; `deactivate()` returns after the loop: `StopsInOrder` |
| `ActivationOrdered` | the order of starting |
| `HangsAreThree` | the loop thread `Waits` only while `HelpComes` or `Hung` |
| `HangsAreFinal` | `SelfLocked` and `GateTrapped` end in no step |

The argument: `TypeOK` is not inductive alone, since `Pop` takes the head of a queue tested
earlier, so `TypeInv` adds that at `"pop"` the queue is not empty: true because only the loop
thread removes messages, which is why the unlocked pop loses nothing even if
a push comes between. `QueueIsBacklog` is inductive given `TypeInv`. For delivery,
`ListInv` says that the lists hold every channel on its side once (an output listed twice
would hear twice) and do not change after activation, and `WalkInv` that the
message in hand is the last one popped. Lemma `OfferAdvances` shows that an offer moves exactly
one output's cursor by one, `CursorMoves` that every other step leaves cursors and `handed` alone or
begins or ends a fan-out; from these follow `HandedExactly` and, step by step, the refinement.
`StopInv` ties `main`'s place in `deactivate()` to the flags, to `late` and to where the notice
is; `StartInv` ties its place in `activate()` to the futures.

The last two are what can be proved of `StopReturnsOrHangs` and `BacklogDrains`, which are liveness: that `Hung` names
all there is, and that two of its three ways are for good, with any number of channels and messages. `LockInv` says where
the loop thread can hold the mutex, `WakeInv` that beside a message it sleeps only if the message was there before
(`overlooked`) or until the thread that pushed it has notified.

`TelegramProofs.tla` proves for every `Limit`, any number of updates and any number of restarts
(`TelegramAssumption`):

| Theorem | Says |
|---|---|
| `TypeCorrect` | `Spec => []TypeOK` |
| `FeedLosesNothing` | what the server has forgotten was pushed: `NothingLost` |
| `TelegramImplementsFeed` | `Spec => FeedSpec` |
| `FeedInOrder` | one run pushes in order, with the one kind of repetition: `RunInOrder` |

`NothingLost` speaks of `acked`, which follows `offset` one request later, so `CoverInv` says the same of
everything the offset passes over, and of what `parse()`'s loop has passed: when the last update is
handled, whose offset covers the whole reply, all the rest of it has been seen. `OrderInv` keeps what this run
pushed behind the offset and the offset behind the loop; at `"last"` it admits the one update that the loop
pushed already.

`StreamProofs.tla` proves for every buffer size, every set of sizes and every `W` that exceeds
a response and two buffers (`HttpAssumption`; `size_t` does):

| Theorem | Says |
|---|---|
| `HttpTypeCorrect` | `HttpTypeOK`: no count wraps, but for the `-1` of `tellg()` |
| `ResponseFits` | bytes are written inside the buffer: `Fits` |
| `ResponseIsWhole` | an accepted response is complete and terminated: `ReplyIsWhole` |

`CountInv` says that bytes received, waiting and unsent add up to the response, unless a reset of a plain
connection was counted as `-1`, after which nothing follows (`Deficit`). `RoomInv` is the result of
`recvBody()`'s sizing: with the header read, header and body fit, and a zero byte behind them unless they
fill the first buffer exactly. `StageInv` carries what each loop knows, for the timed loop that
`size + pending < capacity`, which each growth by `MAX_BUF` restores.

And of `Irc`, for any number of lines, pieces in the socket and ticks, and any time-out (`IrcAssumption`):

| Theorem | Says |
|---|---|
| `IrcTypeCorrect` | `IrcTypeOK` |
| `LinesArriveInOrder` | `LinesInOrder` |
| `HealthyConnectionStays` | `HealthyStays` |

What a read makes of the pieces in the socket is a selection from a sequence: `NthCounts` says that its
`k`-th message is the `k`-th piece that qualifies, for which `LeastNumber` finds the number and `RankGrows` the
order. `WireInv` then follows the wire: `ShapeInv`, that pieces of one line lie side by side and only the last
line is half sent; `AscendInv`, that numbers go up along it, behind those pushed; `TornInv`, that a line
which neither waits nor was torn was pushed, and no other was. `IssueInv` says that while a connection issue is remembered
without excuse the answer to a PING is still under way, so that the tick that drops finds `HealthyStays` true.

`ChannelProofs.tla` proves for every set of channels that share the table, any number of descriptors,
threads, attempts and lost connections (`ChannelAssumption`):

| Theorem | Says |
|---|---|
| `TypeCorrect` | `Spec => []TypeOK` |
| `KeeperCorrect` | `apart => OneKeeper` |
| `DeathCorrect` | `apart => DiesOfAttempts` |
| `ConnectionsKept` | `apart => TakesDownNone`, of every step |
| `LoneKeeper`, `LoneDeath`, `LoneConnection` | `OneKeeper`, `DiesOfAttempts`, `KeepsWorkingConnections` without `apart`, of a channel alone in its process (`Single`) |
| `NobodySpins` | while `calm` and `apart` no thread `Spins` |
| `NeverForgotten` | `NoneForgotten` of every step, without `calm` and `apart` |

`apart` is not a convenience: without it the third is false, which is the finding of `channel_two`, and the
theorem says that the finding is the only way: as long as the system hands no channel a number
that another remembers, channels do not disturb each other. The code has nothing to ensure that, so for several
channels this is what the code promises and no more; a channel that is alone keeps it
because nobody else opens a descriptor (`SingleApart`).

The invariant `KeeperInv` says, while `calm` and `apart`, of each channel (`Kept`) that it has at most one call and one
poll thread, never both beside the moments that hand over (`OneEach`), and for each place in
`reconnect()` and `activate()` what the flags, the handle, the descriptor and the table are there (`FlagInv`,
`CallInv`, `PollInv`): for instance that at `"launch"` no handle is left, so that no joinable thread is
overwritten. Of the channels together it says that no number is remembered by two (`ApartInv`) and that one that
works is remembered by nobody but its owner (`OwnInv`). A step of one channel keeps its own part by the lemmas
`...Keeps`; that it leaves every other channel's part alone is `StepElsewhere`, which needs `ApartInv` for the numbers it closes and
`apart'` for the one it opens. Lemma `LeastExists` is needed because descriptors and threads are chosen lowest first.

`NeverForgotten` is what can be proved of `Recovers`, and holds also where two reconnections of a channel run at once or
its number was reused: while the hub lives, the last thread that polls or reconnects never ends without leaving
another (the hub's own first `activate()` is not counted: nothing tries again if it fails). The
argument is about threads alone. `StackInv` says who waits for whom: nested reconnections of a channel form a chain.
`FirstInv`, that the hub's own call meets a channel with no attempts counted, so that a reconnection within it
cannot give up and end both. `Watch`, that a set `_pipeRunning` means a poll thread or the reconnection replacing it, and
a cleared one a reconnection beside the poll thread that is about to notice. `StepForms` reduces the eighteen
actions of a thread, and the signal, to six forms of what they do to the threads.

`FileProofs.tla` proves for any number of lines, writers, descriptors, threads, attempts and failures
(`FileAssumption`):

| Theorem | Says |
|---|---|
| `TypeCorrect` | `Spec => []TypeOK` |
| `SettledLinesKept` | `LinesKept` |
| `LateThreadsOnly` | `OnlyLateAreLost` |

`KeptInv` says that while a line is owed nothing of the channel runs but threads that poll an open descriptor,
so that none can begin to close it before the line is read. `QuietInv` says that after the hub's death, unless a
thread was late, every thread is in `select()` or gone: of a quiet thread the only step left is to end.

`ToxProofs.tla` proves for any set of friends, all lengths and any number of lives (`ToxAssumption`):

| Theorem | Says |
|---|---|
| `TypeCorrect` | `Spec => []TypeOK` |
| `SavedWhole` | `FriendsSaved` |
| `FriendsRemembered` | `NothingForgotten` |
| `EchoDropped` | `NoEcho` |
| `SaidIsHanded` | `SaidWhole` |

`FriendInv`: what a life accepted is in its handle; from the join on nobody can be accepted; and unless the
datafile was misread, the handle has its identity and at least its friends. `NameInv`, for `EchoDropped`: from activation to
the end of a life the handle's name is the configured one, whatever the datafile said, and nothing of the bot's own was pushed
under a name the library knew. For `SaidWhole` the invariant
`SaidInv` has a witness: an increasing map from the texts said to the texts handed over (`Places`), which every
short text is in but the one that is being formatted; and that in between the static buffer holds that text.

`LoggerProofs.tla` proves for any threads, severities, sinks, attempts and calls (`LoggerAssumption`):

| Theorem | Says |
|---|---|
| `TypeCorrect` | `Spec => []TypeOK` |
| `QueueCorrect` | `PushedIsWritten` |
| `PlaceCorrect` | `OnePlace` |
| `OrderCorrect` | `ProgramOrder` |

`TypeInv` adds which places of a thread go with a message, a count and a sink. `SourceInv` says where a message
that is not yet pushed comes from: of each thread at most one is under way, its number no
greater than the thread's calls, and a retry thread carries the message it was made for. `OnePlace` is
inductive with it: each step moves a message from one place to the next (`PlaceKept` for the steps that move none), and in `Delay` the
message leaves the attempt for the sleeping thread in one step.

`ProcessProofs.tla` proves for any set of configuration files, whatever their sections and wherever they are cut
(`ProcessAssumption`):

| Theorem | Says |
|---|---|
| `TypeCorrect` | `Spec => []TypeOK` |
| `ShutdownCorrect` | `ShutdownIsOrderly` |
| `FilesReadCorrect` | `FilesAreRead` |

`RunInv` says which hubs are active at each place of `main`'s loops, and that
a round of ticks after the signal is the last. `RestInv` says what is left of the file: its words after the
first `Done`. For the second half of `FilesAreRead`, `HeaderInv` says that the header remembered is the last one read, and
`SourceInv` that what is in the buffer stands in its section and that the channels made are of headers before it, in order.
For the first, `PlainInv` says of a plain file what was read at each place of the loops and which channels exist, so that each comparison `main` makes
there is one of `NamesCompared`; `CollectedAll` says that at the end of a section the buffer holds all of it, hence what is needed.

The strengthened invariants were checked with TLC on small instances before they were proved, that of `Channel` with
two channels also; no run repeats them now that they are theorems.

Out of the prover's reach, and left to TLC: liveness, and anything about `ENABLED`. Every invariant and every action property
of the passing runs is a theorem, `KeepsWorkingConnections`, `OneKeeper` and `DiesOfAttempts` with the premises above.
The models use no fold and no recursive operator: what they need to count or select is said with
sets, cardinalities and least numbers, which is what makes it provable.

## 5. Not modelled

* In `FileChannel`: the output side, a stream write whose failure nobody looks at; a regular file where the
  FIFO should be; a write in several pieces. Lines that one read finds together become one message, which
  `PollRead` does, but nothing is said of it.
* In `ToxChannel`: `parse()`, which nothing calls; friends' names but for the comparison with the bot's; the conversions to and from hexadecimal, and the
  assertion in one of them.
* In `IrcChannel`: answers to the server's own PINGs, nicknames, the "not registered" path,
  server lines during registration, chat lines that contain `PONG` and are taken for one.
* In `TelegramChannel`: sending. In the HTTP client: taking URLs apart and building requests.
* What is freed while a thread still uses it is followed where it can matter for what is kept: a Tox channel
  whose hub is gone, and a destroyed file channel. Elsewhere the process is about to exit.
* Torn accesses to non-atomic fields (`_reconnect_attempt`, `_sink`), except the unlocked pop. How long the logger's
  lock must be contended for its exception: a matter of timing.
* A write to a connection the peer has closed, which raises SIGPIPE: `Channel` follows it as an end of the process
  that `DiesOfAttempts` allows. An `activate()` that throws for a later hub ends the process with earlier hubs running:
  `Process` follows it, and asks order only of an `exited` process.
* In `main()`: a channel type that no class is registered for (the factory returns a null pointer, and no channel is
  made), and what the signal handler's logging does besides ending or hanging the process.
* Configuration parsing proper, message formatting, name resolution, TLS: stateless or
  library calls. The channel factory: a table filled before `main()`.

## 6. Plan

1. `Relay`, `Hub`, `HubProofs`: done.
2. `Channel`, `Logger`, `Process` with their proofs: done.
3. `Telegram`, `HttpResponse`, `Irc` with their proofs: done.
4. `FileChannel`, `Tox` with their proofs: done.
5. `Feed`, which `Telegram` implements: done.
6. `Irc` composed with `Channel`, so that `TickDrops` there is no longer free to happen at
   any moment.
7. Several channels in `ChannelProofs`: done, under `apart`.
