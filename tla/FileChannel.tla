---------------------------- MODULE FileChannel ----------------------------
(***************************************************************************)
(* A file channel (filechannel.cpp) with the polling and reconnection it   *)
(* inherits (channel.cpp), configured as an input: it reads a FIFO and     *)
(* reopens it when its writers have gone.                                  *)
(*                                                                         *)
(* A thread is a pollThread() or a call of reconnect() with the activate() *)
(* task it waits for.  The FIFO is the kernel's: its content lives while   *)
(* somebody has it open, and an end of file is seen by a reader that was   *)
(* open together with a writer.                                            *)
(***************************************************************************)
EXTENDS Integers, FiniteSets

CONSTANTS MaxLines,      \* bound: lines in the FIFO at one time
          MaxFd,         \* descriptors
          MaxThreads,    \* what the system has for this channel
          MaxReconnects, \* max_reconnects
          MaxFails       \* bound: how often open() or mkfifo() fails

ASSUME FileAssumption ==
  /\ {MaxLines, MaxFd, MaxThreads, MaxReconnects, MaxFails} \subseteq Nat
  /\ MaxFd > 0 /\ MaxThreads > 0

Fds == 1..MaxFd
Ids == 1..MaxThreads
Lines == 1..MaxLines
Nobody == 0
HubCall == -1

Idle == [pc |-> "none", fd |-> -1, caller |-> Nobody]
Call(pc, caller) == [pc |-> pc, fd |-> -1, caller |-> caller]
Poller(n) == [pc |-> "select", fd |-> n, caller |-> Nobody]

VARIABLES
  alive,       \* *_hub_alive
  freed,       \* hub and channel are destroyed
  death,       \* "no", or what the process was terminated by
  fd,          \* _fd
  attempts,    \* _reconnect_attempt
  pipeRunning, \* _pipeRunning
  handle,      \* _thread is not null
  threads,
  open,        \* the descriptors open on the FIFO
  met,         \* those of them that have been open together with a writer
  writer,      \* somebody has the FIFO open to write
  data,        \* lines in the FIFO
  owed,        \* history: lines written to a Settled channel and not yet read
  late,        \* history: some thread was not Quiet when the hub died
  fails        \* bound: failures so far

process == <<alive, freed, death, late>>
own     == <<fd, attempts>>
flags   == <<pipeRunning, handle>>
fifo    == <<open, met, writer, data>>
vars == <<process, own, flags, threads, fifo, owed, fails>>

NoThreads == [t \in Ids |-> Idle]
Unused == {t \in Ids : threads[t].pc = "none"}
NewThread == CHOOSE t \in Unused : \A u \in Unused : t <= u
Polling == {t \in Ids : threads[t].pc \in {"test", "select", "ready"}}

\* A thread that waits in select() will look at *_hub_alive, through its own copy of the
\* pointer, before it reads a member of the channel.
Quiet(t) == threads[t].pc \in {"none", "select"}

\* One thread polls the FIFO, and no other of the channel's goes on.
Settled == \E t \in Polling : threads[t].fd \in open /\ Unused = Ids \ {t}

At(t, pc) == death = "no" /\ ~freed /\ threads[t].pc = pc
Goes(t, pc) == threads' = [threads EXCEPT ![t].pc = pc]

Init ==
  /\ alive = TRUE /\ freed = FALSE /\ death = "no" /\ late = FALSE
  /\ fd = -1 /\ attempts = 0 /\ pipeRunning = FALSE /\ handle = FALSE
  /\ threads = [t \in Ids |-> IF t = 1 THEN Call("activate", HubCall) ELSE Idle]
  /\ open = {} /\ met = {} /\ writer = FALSE /\ data = {}
  /\ owed = {} /\ fails = 0

-----------------------------------------------------------------------------
(* The FIFO.                                                               *)

\* With nobody left at either end its content is gone.
Kept(readers, w) == data' = IF readers = {} /\ ~w THEN {} ELSE data

Close(n) ==
  /\ open' = open \ {n} /\ met' = met \ {n}
  /\ Kept(open \ {n}, writer)

\* What other programs do while the hub is at work.
Outside == death = "no" /\ alive /\ UNCHANGED <<process, own, flags, threads, fails>>

\* open() for writing waits until there is a reader; programs come and go for ever.
WriterOpens ==
  /\ ~writer /\ open # {}
  /\ writer' = TRUE /\ met' = open
  /\ Outside /\ UNCHANGED <<open, data, owed>>

\* A line is written at once; without a reader the writer gets SIGPIPE instead.
Write ==
  /\ writer /\ open # {}
  /\ \E l \in Lines \ (data \cup owed) :
       /\ data' = data \cup {l}
       /\ owed' = IF Settled THEN owed \cup {l} ELSE owed
  /\ Outside /\ UNCHANGED <<open, met, writer>>

WriterCloses ==
  /\ writer
  /\ writer' = FALSE /\ Kept(open, FALSE)
  /\ Outside /\ UNCHANGED <<open, met, owed>>

HangsUp(n) == ~writer /\ n \in met
Readable(n) == n \in open /\ (data # {} \/ HangsUp(n))

-----------------------------------------------------------------------------
(* activate() and startPolling()                                           *)

\* The task of t's activate() has ended, normally or by throwing.
Ended(ts, t) ==
  IF ts[t].caller = HubCall THEN [ts EXCEPT ![t] = Idle] ELSE [ts EXCEPT ![t].pc = "after"]

\* (mutant of Returned: the activate() that waits for the call is not woken)
ReturnedAlone(t) == [threads EXCEPT ![t] = Idle]

\* reconnect() returns, to the startPolling() that called it or to the end of its thread.
Returned(t) ==
  LET u == threads[t].caller IN
    IF u \in Ids THEN Ended([threads EXCEPT ![t] = Idle], u) ELSE [threads EXCEPT ![t] = Idle]

\* openPipe(): the FIFO is there, and opened without waiting for a writer.
OpenPipe(t) ==
  /\ At(t, "activate")
  /\ \E n \in Fds \ open :
       /\ \A k \in Fds \ open : n <= k
       /\ fd' = n /\ open' = open \cup {n}
       /\ met' = IF writer THEN met \cup {n} ELSE met
  /\ Goes(t, "start")
  /\ UNCHANGED <<process, attempts, flags, writer, data, owed, fails>>

\* open() fails, as it must when no descriptor is left; the -1 is stored in _fd.
OpenFails(t) ==
  /\ At(t, "activate")
  /\ \/ open = Fds /\ UNCHANGED fails
     \/ fails < MaxFails /\ fails' = fails + 1
  /\ fd' = -1
  /\ Goes(t, "start")
  /\ UNCHANGED <<process, attempts, flags, fifo, owed>>

\* mkfifo() fails: activate_error, fatal in Hub::activate(), dropped by reconnect().
MkfifoFails(t) ==
  /\ At(t, "activate") /\ fails < MaxFails
  /\ fails' = fails + 1
  /\ IF threads[t].caller = HubCall
       THEN death' = "activate" /\ threads' = NoThreads
       ELSE threads' = Ended(threads, t) /\ UNCHANGED death
  /\ UNCHANGED <<alive, freed, late, own, flags, fifo, owed>>

\* startPolling() with a descriptor.  A joinable thread in _thread would terminate the
\* process; with no thread to be had the constructor throws, after the flag was set.
StartPolling(t) ==
  /\ At(t, "start") /\ fd > 0
  /\ pipeRunning' = TRUE
  /\ CASE Unused = {}              -> threads' = Ended(threads, t) /\ UNCHANGED <<handle, death>>
       [] Unused # {} /\ handle    -> death' = "joinable" /\ threads' = NoThreads /\ UNCHANGED handle
       [] Unused # {} /\ ~handle   ->
            /\ handle' = TRUE /\ UNCHANGED death
            /\ threads' = [Ended(threads, t) EXCEPT ![NewThread] = Call("begin", Nobody)]
  /\ UNCHANGED <<alive, freed, late, own, fifo, owed, fails>>

\* startPolling() without: reconnect(), in this task, whose own activate() is another.
ReconnectWithin(t) ==
  /\ At(t, "start") /\ fd < 0 /\ Unused # {}
  /\ threads' = [threads EXCEPT ![t].pc = "within", ![NewThread] = Call("enter", t)]
  /\ UNCHANGED <<process, own, flags, fifo, owed, fails>>

\* There is no thread for it: std::async throws, which ends this task.
NoThread(t) ==
  /\ At(t, "start") /\ fd < 0 /\ Unused = {}
  /\ threads' = Ended(threads, t)
  /\ UNCHANGED <<process, own, flags, fifo, owed, fails>>

-----------------------------------------------------------------------------
(* reconnect()                                                             *)

Abort(t) ==
  /\ At(t, "enter") /\ ~alive
  /\ threads' = Returned(t)
  /\ UNCHANGED <<process, own, flags, fifo, owed, fails>>

\* The exception ends the activate() task it is thrown in, or else the process.
GiveUp(t) ==
  /\ At(t, "enter") /\ alive /\ attempts > MaxReconnects
  /\ IF threads[t].caller = Nobody
       THEN death' = "attempts" /\ threads' = NoThreads
       ELSE threads' = Returned(t) /\ UNCHANGED death
  /\ UNCHANGED <<alive, freed, late, own, flags, fifo, owed, fails>>

\* stopPolling()
StopPolling(t) ==
  /\ At(t, "enter") /\ alive /\ attempts <= MaxReconnects
  /\ pipeRunning' = (pipeRunning /\ ~handle) /\ handle' = FALSE
  /\ Goes(t, "close")
  /\ UNCHANGED <<process, own, fifo, owed, fails>>

\* disconnect()
Disconnect(t) ==
  /\ At(t, "close")
  /\ IF fd > 0 THEN Close(fd) ELSE UNCHANGED <<open, met, data>>
  /\ Goes(t, "activate")
  /\ UNCHANGED <<process, own, flags, writer, owed, fails>>

Succeeded(t) ==
  /\ At(t, "after") /\ pipeRunning
  /\ attempts' = 0
  /\ threads' = Returned(t)
  /\ UNCHANGED <<process, fd, flags, fifo, owed, fails>>

\* A detached thread will try again, after some time; this call returns.
Retry(t) ==
  /\ At(t, "after") /\ ~pipeRunning
  /\ attempts' = attempts + 1
  /\ threads' = [Returned(t) EXCEPT ![t] = Call("enter", Nobody)]
  /\ UNCHANGED <<process, fd, flags, fifo, owed, fails>>

-----------------------------------------------------------------------------
(* pollThread()                                                            *)

\* The new thread reads _fd, which may be another's by then, _hub_alive, and the flag.
PollBegins(t) ==
  /\ At(t, "begin")
  /\ threads' = [threads EXCEPT ![t] = IF pipeRunning THEN Poller(fd) ELSE Idle]
  /\ UNCHANGED <<process, own, flags, fifo, owed, fails>>

\* while (_pipeRunning), after a round
PollTests(t) ==
  /\ At(t, "test")
  /\ threads' = IF pipeRunning THEN [threads EXCEPT ![t].pc = "select"]
                               ELSE [threads EXCEPT ![t] = Idle]
  /\ UNCHANGED <<process, own, flags, fifo, owed, fails>>

\* (mutant of PollEnds: the flag is the channel's, not the thread's own copy)
PollEndsOfFreed(t) ==
  /\ death = "no" /\ threads[t].pc = "select" /\ ~alive
  /\ IF freed THEN death' = "freed" /\ UNCHANGED threads
              ELSE threads' = [threads EXCEPT ![t] = Idle] /\ UNCHANGED death
  /\ UNCHANGED <<alive, freed, late, own, flags, fifo, owed, fails>>

\* select() returns and the hub is dead: the thread looks at its own copy of the
\* pointer, so that it may also do so when the channel is gone.
PollEnds(t) ==
  /\ death = "no" /\ threads[t].pc = "select" /\ ~alive
  /\ threads' = [threads EXCEPT ![t] = Idle]
  /\ UNCHANGED <<process, own, flags, fifo, owed, fails>>

\* select() has waited for poll_time in vain; the hub lives.
PollTimesOut(t) ==
  /\ At(t, "select") /\ alive
  /\ threads[t].fd \in open /\ ~Readable(threads[t].fd)
  /\ Goes(t, "test")
  /\ UNCHANGED <<process, own, flags, fifo, owed, fails>>

\* select() reports the descriptor, or fcntl() that it is closed; the hub lives.
PollWakes(t) ==
  /\ At(t, "select") /\ alive
  /\ Readable(threads[t].fd) \/ threads[t].fd \notin open
  /\ Goes(t, "ready")
  /\ UNCHANGED <<process, own, flags, fifo, owed, fails>>

\* A descriptor that select() refuses is of no interest once _pipeRunning is cleared.
PollSkips(t) ==
  /\ At(t, "ready") /\ threads[t].fd \notin open /\ ~pipeRunning
  /\ Goes(t, "test")
  /\ UNCHANGED <<process, own, flags, fifo, owed, fails>>

\* All that is there becomes one message.
PollRead(t) ==
  /\ At(t, "ready") /\ threads[t].fd \in open /\ data # {}
  /\ owed' = owed \ data /\ data' = {}
  /\ Goes(t, "test")
  /\ UNCHANGED <<process, own, flags, open, met, writer, fails>>

\* (mutant of PollFails: no data is taken for the end of file even if there is some)
PollFailsAlways(t) ==
  /\ At(t, "ready")
  /\ threads' = [threads EXCEPT ![t] = Call("enter", Nobody)]
  /\ UNCHANGED <<process, own, flags, fifo, owed, fails>>

\* Nothing to read, or no descriptor: a detached thread calls reconnect().
PollFails(t) ==
  /\ At(t, "ready") /\ (threads[t].fd \notin open \/ data = {})
  /\ threads' = IF alive THEN [threads EXCEPT ![t] = Call("enter", Nobody)]
                         ELSE [threads EXCEPT ![t] = Idle]
  /\ UNCHANGED <<process, own, flags, fifo, owed, fails>>

\* Another thread has read what FIONREAD counted: an exception in a thread.
ShortRead(t) ==
  /\ At(t, "ready") /\ data # {} /\ Cardinality(Polling) > 1
  /\ death' = "read" /\ threads' = NoThreads
  /\ UNCHANGED <<alive, freed, late, own, flags, fifo, owed, fails>>

-----------------------------------------------------------------------------
(* The hub ends.                                                           *)

\* deactivate() clears *_alive.
HubDies ==
  /\ death = "no" /\ alive /\ threads[1].caller # HubCall
  /\ alive' = FALSE
  /\ late' = \E t \in Ids : ~Quiet(t)
  /\ UNCHANGED <<freed, death, own, flags, threads, fifo, owed, fails>>

\* main() destroys the hub with its channels; stopPolling() detaches the thread, and the
\* members are gone.
Destroy ==
  /\ death = "no" /\ ~alive /\ ~freed
  /\ freed' = TRUE /\ fd' = -1 /\ attempts' = 0 /\ pipeRunning' = FALSE /\ handle' = FALSE
  /\ UNCHANGED <<alive, death, late, threads, fifo, owed, fails>>

\* A thread goes on in the memory of a destroyed channel: the process is terminated,
\* or else nothing comes of it.
TouchFreed(t) ==
  /\ death = "no" /\ freed /\ ~Quiet(t)
  /\ death' = "freed" /\ threads' = NoThreads
  /\ UNCHANGED <<alive, freed, late, own, flags, fifo, owed, fails>>

Step(t) ==
  \/ OpenPipe(t) \/ OpenFails(t) \/ MkfifoFails(t)
  \/ StartPolling(t) \/ ReconnectWithin(t) \/ NoThread(t)
  \/ Abort(t) \/ GiveUp(t) \/ StopPolling(t) \/ Disconnect(t) \/ Succeeded(t) \/ Retry(t)
  \/ PollBegins(t) \/ PollTests(t) \/ PollEnds(t) \/ PollTimesOut(t) \/ PollWakes(t)
  \/ PollSkips(t) \/ PollRead(t) \/ PollFails(t)

Next ==
  \/ \E t \in Ids : Step(t) \/ ShortRead(t) \/ TouchFreed(t)
  \/ WriterOpens \/ Write \/ WriterCloses
  \/ HubDies \/ Destroy

Spec == Init /\ [][Next]_vars
FairSpec == Spec /\ \A t \in Ids : WF_vars(Step(t))

-----------------------------------------------------------------------------
(* Properties.                                                             *)

Thread == [pc : {"none", "activate", "start", "within", "enter", "close", "after",
                 "begin", "test", "select", "ready"},
           fd : Fds \cup {-1}, caller : Ids \cup {Nobody, HubCall}]

TypeOK ==
  /\ alive \in BOOLEAN /\ freed \in BOOLEAN /\ late \in BOOLEAN
  /\ death \in {"no", "activate", "joinable", "attempts", "read", "freed"}
  /\ fd \in Fds \cup {-1} /\ attempts \in Nat /\ pipeRunning \in BOOLEAN /\ handle \in BOOLEAN
  /\ threads \in [Ids -> Thread]
  /\ met \subseteq open /\ open \subseteq Fds /\ writer \in BOOLEAN
  /\ data \subseteq Lines /\ owed \subseteq Lines
  /\ fails \in 0..MaxFails

\* A line written while one thread polls the FIFO and nothing else goes on is not lost,
\* whoever hangs up and however many reconnections follow before it is read:
\* pollThread() reads what is there before it takes an end of file for one.
LinesKept == owed \subseteq data

\* A channel may be destroyed under threads that wait in select(): for the process to be
\* lost, some thread was elsewhere when the hub died.  One that has just been started
\* (it reads _fd and _hub_alive first), one between two rounds (it tests _pipeRunning)
\* and one that reconnects all read members of the channel before they look at the hub.
OnlyLateAreLost == death = "freed" => late

\* The flag says that a thread polls, and none could be started.
Deaf == pipeRunning /\ ~handle

Reconnecting == \E t \in Ids : threads[t].pc = "enter"
HubWaits     == threads[1].caller = HubCall

\* The hub's wait for the activation and every call of reconnect() come to an end,
\* however many activations wait within it for one another and wherever in the nest a
\* thread is refused or the attempts run out: the hub goes on and the FIFO is polled,
\* or the process is terminated, the hub dead, or the channel deaf for want of a thread.
Recovers ==
  (Reconnecting \/ HubWaits)
    ~> ((~HubWaits /\ (Polling # {} \/ Deaf)) \/ death # "no" \/ ~alive)
=============================================================================
