------------------------------ MODULE Channel ------------------------------
(***************************************************************************)
(* The life of descriptor-based channels (channel.cpp) with the activate() *)
(* and tick() of IrcChannel: polling thread, reconnection, and the table   *)
(* of descriptors that all channels of the process share.                  *)
(*                                                                         *)
(* A thread of the model is either a pollThread() ("select") or a call of  *)
(* reconnect() with the activate() task it waits for; the first activate() *)
(* task is run by the hub.  A caller is who waits for the call to return.  *)
(***************************************************************************)
EXTENDS Integers, FiniteSets

CONSTANTS Channels,       \* the channels of the process
          MaxFd,          \* descriptors are 1..MaxFd; bound of the table
          MaxThreads,     \* bound: threads alive at the same time
          MaxReconnects,  \* max_reconnects of the configuration
          MaxBreaks       \* bound: connections lost, drops by tick() and signals

ASSUME ChannelAssumption ==
  /\ IsFiniteSet(Channels) /\ Channels # {} /\ "free" \notin Channels
  /\ MaxFd \in Nat \ {0} /\ MaxThreads \in Nat \ {0} /\ Cardinality(Channels) <= MaxThreads
  /\ MaxReconnects \in Nat /\ MaxBreaks \in Nat

Fds     == 1..MaxFd
Ids     == 1..MaxThreads
Nobody  == 0                    \* caller of a detached thread
HubCall == -1                   \* caller of the first activate()

VARIABLES
  alive,          \* *_hub_alive
  death,          \* why the process was terminated, or "no"
  table,          \* descriptor -> "free" or the channel that opened it
  broken,         \* open descriptors whose connection the peer has closed
  breaks,         \* counts what MaxBreaks bounds
  dropping,       \* channels whose tick() has closed _fd and will reset it
  calm,           \* history: no connection was lost or dropped while a call of
                  \*   reconnect() or activate() ran for its channel, and no signal
                  \*   sent a poll thread to reconnect a connection that works
  apart,          \* history: no channel opened a descriptor with a number that
                  \*   another channel still remembered
  fd,             \* per channel: _fd
  attempts,       \* per channel: _reconnect_attempt
  active,         \* per channel: _active
  pipeRunning,    \* per channel: _pipeRunning
  handle,         \* per channel: _thread holds a joinable thread
  threads         \* id -> [pc, ch, readFd, caller]

process == <<alive, death>>
files   == <<table, broken, breaks, dropping, calm, apart>>
flags   == <<active, pipeRunning, handle>>
vars    == <<process, files, fd, attempts, flags, threads>>

Idle == [pc |-> "none", ch |-> CHOOSE c \in Channels : TRUE, readFd |-> -1, caller |-> Nobody]
Call(pc, c, caller) == [pc |-> pc, ch |-> c, readFd |-> -1, caller |-> caller]
Poller(c, n)        == [pc |-> "select", ch |-> c, readFd |-> n, caller |-> Nobody]

First == CHOOSE f \in [Channels -> 1..Cardinality(Channels)] :
           \A c, d \in Channels : f[c] = f[d] => c = d

At(t, pc)  == death = "no" /\ threads[t].pc = pc
Goes(t, pc) == threads' = [threads EXCEPT ![t].pc = pc]
Unused     == {t \in Ids : threads[t].pc = "none"}
NewThread  == CHOOSE t \in Unused : \A u \in Unused : t <= u
Calls(c)   == {t \in Ids : threads[t].ch = c /\ threads[t].pc \notin {"none", "select"}}
Pollers(c) == {t \in Ids : threads[t].ch = c /\ threads[t].pc = "select"}
FreeFds    == {n \in Fds : table[n] = "free"}
Remembers(c, n) == fd[c] = n \/ \E t \in Pollers(c) : threads[t].readFd = n
LowestFree == CHOOSE n \in FreeFds : \A m \in FreeFds : n <= m

Init ==
  /\ alive = TRUE /\ death = "no"
  /\ table = [n \in Fds |-> "free"] /\ broken = {} /\ breaks = 0
  /\ dropping = {} /\ calm = TRUE /\ apart = TRUE
  /\ fd = [c \in Channels |-> -1]
  /\ attempts = [c \in Channels |-> 0]
  /\ active = [c \in Channels |-> FALSE]
  /\ pipeRunning = [c \in Channels |-> FALSE]
  /\ handle = [c \in Channels |-> FALSE]
  /\ threads = [t \in Ids |->
       IF \E c \in Channels : First[c] = t
         THEN Call("activate", CHOOSE c \in Channels : First[c] = t, HubCall)
         ELSE Idle]

-----------------------------------------------------------------------------
(* How a call of reconnect() ends.                                         *)

\* It returns: a startPolling() that made it goes on, a detached thread ends.
Returned(t) ==
  IF threads[t].caller \in Ids
    THEN [threads EXCEPT ![t] = Idle, ![threads[t].caller].pc = "setActive"]
    ELSE [threads EXCEPT ![t] = Idle]

\* The activate() task has ended, normally or by throwing: its future is waited
\* for, and the exception dropped, by reconnect(); the hub's call just ends.
ActivateEnds(t) ==
  threads' = IF threads[t].caller = HubCall THEN [threads EXCEPT ![t] = Idle]
                                            ELSE [threads EXCEPT ![t].pc = "after"]

-----------------------------------------------------------------------------
(* reconnect()                                                             *)

\* A delayed attempt has slept long enough.
Wake(t) ==
  /\ At(t, "sleep")
  /\ Goes(t, "enter")
  /\ UNCHANGED <<process, files, fd, attempts, flags>>

\* The hub is dead: return.
Abort(t) ==
  /\ At(t, "enter") /\ ~alive
  /\ threads' = Returned(t)
  /\ UNCHANGED <<process, files, fd, attempts, flags>>

\* Too many attempts: throw.  Nothing catches it in a detached thread; within an
\* activate() task it ends that task.
GiveUp(t) ==
  /\ At(t, "enter") /\ alive
  /\ attempts[threads[t].ch] > MaxReconnects
  /\ IF threads[t].caller \in Ids
       THEN LET u == threads[t].caller IN
              threads' = [threads EXCEPT ![t] = Idle,
                            ![u] = IF @.caller = HubCall THEN Idle ELSE [@ EXCEPT !.pc = "after"]]
       ELSE UNCHANGED threads
  /\ death' = IF threads[t].caller = Nobody THEN "attempts" ELSE "no"
  /\ UNCHANGED <<alive, files, fd, attempts, flags>>

Proceed(t) ==
  /\ At(t, "enter") /\ alive
  /\ attempts[threads[t].ch] <= MaxReconnects
  /\ Goes(t, "stop")
  /\ UNCHANGED <<process, files, fd, attempts, flags>>

\* (mutant of StopPolling: _thread is detached but not reset)
StopKeepsHandle(t) ==
  LET c == threads[t].ch IN
  /\ At(t, "stop")
  /\ active' = [active EXCEPT ![c] = @ /\ ~handle[c]]
  /\ pipeRunning' = [pipeRunning EXCEPT ![c] = @ /\ ~handle[c]]
  /\ Goes(t, "close")
  /\ UNCHANGED <<process, files, fd, attempts, handle>>

\* stopPolling(): does nothing without a thread, else clears both flags and
\* detaches the thread.
StopPolling(t) ==
  LET c == threads[t].ch IN
  /\ At(t, "stop")
  /\ active' = [active EXCEPT ![c] = @ /\ ~handle[c]]
  /\ pipeRunning' = [pipeRunning EXCEPT ![c] = @ /\ ~handle[c]]
  /\ handle' = [handle EXCEPT ![c] = FALSE]
  /\ Goes(t, "close")
  /\ UNCHANGED <<process, files, fd, attempts>>

\* close(n) frees the number n, whoever opened it; on a free number it fails.
CloseFd(n) ==
  /\ table' = [table EXCEPT ![n] = "free"]
  /\ broken' = broken \ {n}

\* disconnect(): close(_fd), which keeps its value.
Disconnect(t) ==
  LET c == threads[t].ch IN
  /\ At(t, "close")
  /\ IF fd[c] > 0 THEN CloseFd(fd[c]) ELSE UNCHANGED <<table, broken>>
  /\ Goes(t, "activate")
  /\ UNCHANGED <<process, breaks, dropping, calm, apart, fd, attempts, flags>>

\* After the activate() task: success is that _pipeRunning is set; otherwise count
\* the attempt and start a detached thread that sleeps and tries again.
Succeeded(t) ==
  LET c == threads[t].ch IN
  /\ At(t, "after") /\ pipeRunning[c]
  /\ attempts' = [attempts EXCEPT ![c] = 0]
  /\ threads' = Returned(t)
  /\ UNCHANGED <<process, files, fd, flags>>

\* (mutant of Retry: no thread is started for the next attempt)
RetryForgotten(t) ==
  LET c == threads[t].ch IN
  /\ At(t, "after") /\ ~pipeRunning[c]
  /\ attempts' = [attempts EXCEPT ![c] = @ + 1]
  /\ threads' = Returned(t)
  /\ UNCHANGED <<process, files, fd, flags>>

Retry(t) ==
  LET c == threads[t].ch IN
  /\ At(t, "after") /\ ~pipeRunning[c]
  /\ attempts' = [attempts EXCEPT ![c] = @ + 1]
  /\ \/ /\ threads[t].caller = Nobody
        /\ Goes(t, "sleep")
     \/ /\ threads[t].caller \in Ids /\ Unused # {}
        /\ threads' = [Returned(t) EXCEPT ![NewThread] = Call("sleep", c, Nobody)]
  /\ UNCHANGED <<process, files, fd, flags>>

-----------------------------------------------------------------------------
(* IrcChannel::activate()                                                  *)

\* An active channel is left alone.
AlreadyActive(t) ==
  /\ At(t, "activate") /\ active[threads[t].ch]
  /\ ActivateEnds(t)
  /\ UNCHANGED <<process, files, fd, attempts, flags>>

Connected(t) ==
  LET c == threads[t].ch IN
  /\ At(t, "activate") /\ ~active[c]
  /\ FreeFds # {}
  /\ table' = [table EXCEPT ![LowestFree] = c]
  /\ fd' = [fd EXCEPT ![c] = LowestFree]
  /\ apart' = (apart /\ \A d \in Channels \ {c} : ~Remembers(d, LowestFree))
  /\ Goes(t, "ready")
  /\ UNCHANGED <<process, broken, breaks, dropping, calm, attempts, flags>>

\* connect() throws before it has a socket (the name does not resolve, no
\* descriptor is left), or with a socket, which is never closed.
NotConnected(t) ==
  /\ At(t, "activate") /\ ~active[threads[t].ch]
  /\ \/ UNCHANGED <<table, broken>>
     \/ /\ FreeFds # {}
        /\ table' = [table EXCEPT ![LowestFree] = threads[t].ch]
        /\ broken' = broken \cup {LowestFree}
  /\ ActivateEnds(t)
  /\ UNCHANGED <<process, breaks, dropping, calm, apart, fd, attempts, flags>>

\* _fd is the number of an open descriptor, whoever opened it.
IsOpen(c) == fd[c] > 0 /\ table[fd[c]] # "free"

\* Poll fcntl() until _fd is open, and sleep once more.
Ready(t) ==
  /\ At(t, "ready") /\ IsOpen(threads[t].ch)
  /\ Goes(t, "register")
  /\ UNCHANGED <<process, files, fd, attempts, flags>>

\* registerConnection() writes to whatever _fd is by now.  If it was closed, or the peer
\* is gone, the write throws, which ends the task; if the peer is gone it may also go
\* unnoticed, or raise SIGPIPE, which nobody handles.
Register(t) ==
  LET c == threads[t].ch IN
  /\ At(t, "register")
  /\ \/ IsOpen(c) /\ Goes(t, "launch") /\ UNCHANGED death
     \/ (~IsOpen(c) \/ fd[c] \in broken) /\ ActivateEnds(t) /\ UNCHANGED death
     \/ fd[c] \in broken /\ death' = "pipe" /\ UNCHANGED threads
  /\ UNCHANGED <<alive, files, fd, attempts, flags>>

\* startPolling() with a descriptor.  Assigning _thread while it holds a joinable
\* thread terminates the process.
StartPolling(t) ==
  LET c == threads[t].ch IN
  /\ At(t, "launch") /\ fd[c] > 0
  /\ Unused # {}
  /\ pipeRunning' = [pipeRunning EXCEPT ![c] = TRUE]
  /\ death' = IF handle[c] THEN "joinable" ELSE "no"
  /\ handle' = [handle EXCEPT ![c] = TRUE]
  /\ threads' = [threads EXCEPT ![t].pc = "setActive", ![NewThread] = Poller(c, fd[c])]
  /\ UNCHANGED <<alive, files, fd, attempts, active>>

\* startPolling() without one: reconnect(), within this activate() task.
ReconnectWithin(t) ==
  LET c == threads[t].ch IN
  /\ At(t, "launch") /\ fd[c] < 0
  /\ Unused # {}
  /\ threads' = [threads EXCEPT ![t].pc = "within", ![NewThread] = Call("enter", c, t)]
  /\ UNCHANGED <<process, files, fd, attempts, flags>>

\* _active = true, and a last write, ping(), which may raise SIGPIPE (Incoming).
SetActive(t) ==
  /\ At(t, "setActive")
  /\ active' = [active EXCEPT ![threads[t].ch] = TRUE]
  /\ ActivateEnds(t)
  /\ UNCHANGED <<process, files, fd, attempts, pipeRunning, handle>>

-----------------------------------------------------------------------------
(* pollThread(), with its own copy of _fd.                                 *)

\* (mutant of PollEnds: *_alive is not looked at)
PollEndsWhenStopped(t) ==
  /\ At(t, "select")
  /\ ~pipeRunning[threads[t].ch]
  /\ threads' = [threads EXCEPT ![t] = Idle]
  /\ UNCHANGED <<process, files, fd, attempts, flags>>

\* _pipeRunning or *_alive is found cleared.
PollEnds(t) ==
  /\ At(t, "select")
  /\ ~pipeRunning[threads[t].ch] \/ ~alive
  /\ threads' = [threads EXCEPT ![t] = Idle]
  /\ UNCHANGED <<process, files, fd, attempts, flags>>

\* (mutant of PollFails: select() timing out counts as a failure)
PollTimesOut(t) ==
  /\ At(t, "select") /\ alive
  /\ threads' = [threads EXCEPT ![t] = Call("enter", @.ch, Nobody)]
  /\ UNCHANGED <<process, files, fd, attempts, flags>>

\* (mutant of PollFails: the thread does not return)
PollFailsGoesOn(t) ==
  LET n == threads[t].readFd IN
  /\ At(t, "select") /\ alive /\ Unused # {}
  /\ \/ table[n] = "free" /\ pipeRunning[threads[t].ch]
     \/ n \in broken
  /\ threads' = [threads EXCEPT ![NewThread] = Call("enter", threads[t].ch, Nobody)]
  /\ UNCHANGED <<process, files, fd, attempts, flags>>

\* select() or fcntl() fails on a closed descriptor, or the peer has closed the
\* connection: a detached thread calls reconnect() and this one ends.
PollFails(t) ==
  LET n == threads[t].readFd IN
  /\ At(t, "select") /\ alive
  /\ \/ table[n] = "free" /\ pipeRunning[threads[t].ch]
     \/ n \in broken
  /\ threads' = [threads EXCEPT ![t] = Call("enter", @.ch, Nobody)]
  /\ UNCHANGED <<process, files, fd, attempts, flags>>

\* A signal interrupts select(), which counts as a failure like any other.
Interrupted(t) ==
  /\ At(t, "select") /\ alive /\ pipeRunning[threads[t].ch]
  /\ breaks < MaxBreaks
  /\ threads' = [threads EXCEPT ![t] = Call("enter", @.ch, Nobody)]
  /\ breaks' = breaks + 1 /\ calm' = FALSE
  /\ UNCHANGED <<process, table, broken, dropping, apart, fd, attempts, flags>>

\* Two threads read the same descriptor: the second finds less than FIONREAD said
\* and throws in a thread.
ShortRead(t) ==
  /\ At(t, "select")
  /\ table[threads[t].readFd] # "free" /\ threads[t].readFd \notin broken
  /\ \E u \in Ids \ {t} : At(u, "select") /\ threads[u].readFd = threads[t].readFd
  /\ death' = "read"
  /\ UNCHANGED <<alive, files, fd, attempts, flags, threads>>

-----------------------------------------------------------------------------
(* The outside: peers, tick(), and the end of the hub.                     *)

Disturbs(c) == calm' = (calm /\ Calls(c) = {})

PeerCloses(n) ==
  /\ death = "no" /\ breaks < MaxBreaks
  /\ table[n] # "free" /\ n \notin broken
  /\ Disturbs(table[n])
  /\ broken' = broken \cup {n} /\ breaks' = breaks + 1
  /\ UNCHANGED <<process, table, dropping, apart, fd, attempts, flags, threads>>

\* IrcChannel::tick() finds no PONG: disconnect(_fd), and then _fd = -1, whatever has
\* been put there in between.
TickDrops(c) ==
  /\ death = "no" /\ alive /\ breaks < MaxBreaks /\ c \notin dropping
  /\ Disturbs(c)
  /\ IF fd[c] > 0 THEN CloseFd(fd[c]) ELSE UNCHANGED <<table, broken>>
  /\ dropping' = dropping \cup {c} /\ breaks' = breaks + 1
  /\ UNCHANGED <<process, apart, fd, attempts, flags, threads>>

TickForgets(c) ==
  /\ death = "no" /\ c \in dropping
  /\ Disturbs(c)
  /\ fd' = [fd EXCEPT ![c] = -1]
  /\ dropping' = dropping \ {c}
  /\ UNCHANGED <<process, table, broken, breaks, apart, attempts, flags, threads>>

\* The hub's loop calls incoming(), or tick() calls ping(): a write to _fd.
Incoming(c) ==
  /\ death = "no" /\ alive
  /\ fd[c] \in broken
  /\ death' = "pipe"
  /\ UNCHANGED <<alive, files, fd, attempts, flags, threads>>

\* deactivate() is called by the thread that called tick(), which waits for its tasks.
HubDies ==
  /\ death = "no" /\ alive /\ dropping = {}
  /\ alive' = FALSE
  /\ UNCHANGED <<death, files, fd, attempts, flags, threads>>

Step(t) ==
  \/ Wake(t) \/ Abort(t) \/ GiveUp(t) \/ Proceed(t) \/ StopPolling(t) \/ Disconnect(t)
  \/ Succeeded(t) \/ Retry(t)
  \/ AlreadyActive(t) \/ Connected(t) \/ NotConnected(t) \/ Ready(t) \/ Register(t)
  \/ StartPolling(t) \/ ReconnectWithin(t) \/ SetActive(t)
  \/ PollEnds(t) \/ PollFails(t)

Next ==
  \/ \E t \in Ids : Step(t) \/ Interrupted(t) \/ ShortRead(t)
  \/ \E n \in Fds : PeerCloses(n)
  \/ \E c \in Channels : TickDrops(c) \/ TickForgets(c) \/ Incoming(c)
  \/ HubDies

Spec == Init /\ [][Next]_vars
FairSpec == Spec /\ \A t \in Ids : WF_vars(Step(t))

-----------------------------------------------------------------------------
(* Properties.                                                             *)

TypeOK ==
  /\ alive \in BOOLEAN /\ death \in {"no", "attempts", "joinable", "read", "pipe"}
  /\ table \in [Fds -> Channels \cup {"free"}]
  /\ broken \subseteq {n \in Fds : table[n] # "free"} /\ breaks \in 0..MaxBreaks
  /\ dropping \subseteq Channels /\ calm \in BOOLEAN /\ apart \in BOOLEAN
  /\ fd \in [Channels -> Fds \cup {-1}] /\ attempts \in [Channels -> Nat]
  /\ active \in [Channels -> BOOLEAN] /\ pipeRunning \in [Channels -> BOOLEAN]
  /\ handle \in [Channels -> BOOLEAN]
  /\ threads \in [Ids -> [pc : {"none", "sleep", "enter", "stop", "close", "activate",
                                 "ready", "register", "launch", "within", "setActive", "after",
                                 "select"},
                           ch : Channels, readFd : Fds \cup {-1},
                           caller : Ids \cup {Nobody, HubCall}]]

\* One thread looks after a channel: at most one reconnection runs at a time, at
\* most one thread polls, and while nobody reconnects a polled channel has its
\* flags set and one joinable thread.  (Here and below `calm' leaves out connections
\* lost, and signals, while reconnect() is at work or brought to work: then two may
\* run at once.)
OneKeeper ==
  calm => \A c \in Channels :
    /\ Cardinality(Calls(c)) <= 1 /\ Cardinality(Pollers(c)) <= 1
    /\ Calls(c) = {} /\ Pollers(c) # {} => active[c] /\ pipeRunning[c] /\ handle[c]

\* Short of a write to a connection just lost, the process is terminated only when
\* a channel has failed to reconnect max_reconnects times and once more.
DiesOfAttempts == calm =>
  /\ death \in {"no", "pipe", "attempts"}
  /\ death = "attempts" => \E c \in Channels : attempts[c] = MaxReconnects + 1

\* Only the tick() of its channel takes down a connection that works.
TakesDownNone ==
  calm => \A n \in Fds : table[n] # "free" /\ n \notin broken /\ table'[n] = "free" =>
            table[n] \in dropping' \ dropping

\* reconnect() takes down no connection that works, its channel's or another's.
KeepsWorkingConnections == [][TakesDownNone]_vars

\* A reconnection ends with the channel polled again, the process terminated for
\* want of attempts, or the hub dead.
Recovers ==
  \A c \in Channels :
    (\E t \in Calls(c) : At(t, "enter")) ~> 
      (Pollers(c) # {} \/ death # "no" \/ ~alive \/ ~calm)

\* The wait for a descriptor that some other thread has closed meanwhile.
Spins(t) == At(t, "ready") /\ ~IsOpen(threads[t].ch)

\* After the hub's death every thread ends, except one that waits in activate()
\* for a descriptor that was closed under it, and its callers.  (A behaviour that
\* meets the bound MaxThreads says nothing.)
DeadHubStops ==
  ~alive ~> \/ death # "no" \/ Unused = {}
            \/ [](\A t \in Ids : threads[t].pc \in {"none", "within"} \/ Spins(t))
=============================================================================
