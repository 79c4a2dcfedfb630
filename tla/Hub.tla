-------------------------------- MODULE Hub --------------------------------
(***************************************************************************)
(* One Hub (hub.cpp): the channel lists, the message queue with its mutex  *)
(* and condition variable, the message loop thread, and the main thread's  *)
(* activate(), tick() and deactivate().  Channel threads appear through    *)
(* the one call they make, newMessage(); what goes on inside a channel is  *)
(* in other modules.                                                       *)
(*                                                                         *)
(* A message is its _originId, the only field the hub reads; NoMessage is  *)
(* the null pointer that parse() returns for input carrying no message.    *)
(* An action is what one thread does up to the next point where another    *)
(* thread can observe or change the state it uses.                         *)
(***************************************************************************)
EXTENDS Integers, Sequences

CONSTANTS Channels,     \* the channels constructed for this hub
          Direction,    \* [Channels -> {"input", "output", "inout"}]
          NoMessage,    \* a null message_ptr
          Spurious,     \* may the condition variable wake up by itself?
          MaxMessages   \* bound: channels call newMessage() at most so often

System    == "system"             \* origin 0xFFFF, used by deactivate() alone
Threads   == Channels \cup {System}   \* who calls pushMessage()
Message   == Channels \cup {System}
Outs      == {c \in Channels : Direction[c] # "input"}
Ins       == {c \in Channels : Direction[c] = "input"}

ASSUME HubAssumption ==
  /\ Direction \in [Channels -> {"input", "output", "inout"}]
  /\ Channels \cap {System, "loop", "free"} = {}
  /\ NoMessage \notin Message
  /\ Spurious \in BOOLEAN
  /\ MaxMessages \in Nat

VARIABLES
  inputChannels,        \* _inputChannels, _outputChannels: the lists, in order
  outputChannels,
  activation,           \* per channel: its activate() future
  main,                 \* where the main thread is
  ticking,              \* channels whose tick() task runs
  loopRunning,          \* _loopRunning
  alive,                \* *_alive
  messages,             \* _messages
  mutex,                \* owner of _mutex: a thread of Threads, "loop", "free"
  notifying,            \* threads between the unlock and notify_one()
  loop,                 \* where the message loop thread is
  item,                 \* msg of msgLoop()
  next,                 \* position of msgLoop()'s iterator in _outputChannels
  accepted,             \* history: every message ever pushed, in order
  taken,                \* history: how many messages popMessage() returned
  handed,               \* history: per output, positions of `accepted` passed
                        \*   to its incoming()
  late,                 \* history: messages popped after _loopRunning was cleared
  overlooked            \* history: the loop thread's last sleep began with messages
                        \*   in the queue

setupVars == <<inputChannels, outputChannels, activation>>
flagVars  == <<loopRunning, alive>>
mainVars  == <<main, ticking>>
queueVars == <<messages, mutex, notifying, accepted>>
itemVars  == <<item, next, taken, handed, late, overlooked>>
loopVars  == <<loop, itemVars>>
vars == <<setupVars, flagVars, mainVars, queueVars, loopVars>>

Listed(list) == {list[i] : i \in 1..Len(list)}

Init ==
  /\ inputChannels = <<>> /\ outputChannels = <<>>
  /\ activation = [c \in Channels |-> "idle"]
  /\ main = "setup" /\ ticking = {}
  /\ loopRunning = FALSE /\ alive = TRUE
  /\ messages = <<>> /\ mutex = "free" /\ notifying = {} /\ accepted = <<>>
  /\ loop = "none" /\ item = NoMessage /\ next = 1
  /\ taken = 0 /\ handed = [o \in Outs |-> {}] /\ late = 0 /\ overlooked = FALSE

-----------------------------------------------------------------------------
(* The main thread: construction, activate(), tick(), deactivate().        *)

\* A channel's constructor registers it; one list per direction, no duplicates.
AddChannel(c) ==
  /\ main = "setup"
  /\ c \notin Listed(inputChannels) \cup Listed(outputChannels)
  /\ IF Direction[c] = "input"
       THEN inputChannels' = Append(inputChannels, c) /\ UNCHANGED outputChannels
       ELSE outputChannels' = Append(outputChannels, c) /\ UNCHANGED inputChannels
  /\ UNCHANGED <<activation, mainVars, flagVars, queueVars, loopVars>>

\* activate(): refuses a hub without outputs, else starts every output's task.
ActivateOutputs ==
  /\ main = "setup"
  /\ Channels = Listed(inputChannels) \cup Listed(outputChannels)
  /\ main' = IF outputChannels = <<>> THEN "failed" ELSE "outputs"
  /\ activation' = [c \in Channels |->
       IF c \in Listed(outputChannels) THEN "starting" ELSE activation[c]]
  /\ UNCHANGED <<inputChannels, outputChannels, ticking, flagVars, queueVars, loopVars>>

\* One channel's activate() task ends, normally or by throwing.
FinishActivate(c, result) ==
  /\ activation[c] = "starting"
  /\ activation' = [activation EXCEPT ![c] = result]
  /\ UNCHANGED <<inputChannels, outputChannels, mainVars, flagVars, queueVars, loopVars>>

\* (mutant of Settled: the futures are dropped instead of waited for)
NotWaitedFor(cs) == TRUE

Settled(cs) == \A c \in cs : activation[c] \in {"ready", "failed"}
Failed(cs)  == \E c \in cs : activation[c] = "failed"

\* Every output task was waited for (get(), or the futures' destructors while
\* the exception propagates): give up, or start the inputs' tasks.
ActivateInputs ==
  /\ main = "outputs"
  /\ Settled(Listed(outputChannels))
  /\ main' = IF Failed(Listed(outputChannels)) THEN "failed" ELSE "inputs"
  /\ activation' = [c \in Channels |->
       IF c \in Listed(inputChannels) /\ ~Failed(Listed(outputChannels))
         THEN "starting" ELSE activation[c]]
  /\ UNCHANGED <<inputChannels, outputChannels, ticking, flagVars, queueVars, loopVars>>

\* Every input task was waited for: give up, or set _loopRunning and start the loop.
StartLoop ==
  /\ main = "inputs"
  /\ Settled(Listed(inputChannels))
  /\ IF Failed(Listed(inputChannels))
       THEN main' = "failed" /\ UNCHANGED <<loopRunning, loop>>
       ELSE main' = "running" /\ loopRunning' = TRUE /\ loop' = "check"
  /\ UNCHANGED <<setupVars, ticking, alive, queueVars, itemVars>>

\* tick(): one task per channel; the futures' destructors wait for all of them.
Tick ==
  /\ main = "running"
  /\ main' = "ticking"
  /\ ticking' = Listed(inputChannels) \cup Listed(outputChannels)
  /\ UNCHANGED <<setupVars, flagVars, queueVars, loopVars>>

TickTaskEnds(c) ==
  /\ c \in ticking
  /\ ticking' = ticking \ {c}
  /\ UNCHANGED <<setupVars, main, flagVars, queueVars, loopVars>>

TickReturns ==
  /\ main = "ticking"
  /\ ticking = {}
  /\ main' = "running"
  /\ UNCHANGED <<setupVars, ticking, flagVars, queueVars, loopVars>>

\* deactivate(): clear _loopRunning, then *_alive, then push the exit notice
\* (below), then join the loop thread.
StopLoop ==
  /\ main = "running"
  /\ loopRunning
  /\ main' = "stopping"
  /\ loopRunning' = FALSE
  /\ UNCHANGED <<setupVars, ticking, alive, queueVars, loopVars>>

\* (mutant of ClearAlive: no exit notice is pushed before the join)
ClearAliveAndJoin ==
  /\ main = "stopping"
  /\ main' = "joining"
  /\ alive' = FALSE
  /\ UNCHANGED <<setupVars, ticking, loopRunning, queueVars, loopVars>>

ClearAlive ==
  /\ main = "stopping"
  /\ main' = "notice"
  /\ alive' = FALSE
  /\ UNCHANGED <<setupVars, ticking, loopRunning, queueVars, loopVars>>

Join ==
  /\ main = "joining"
  /\ mutex # System /\ System \notin notifying
  /\ loop = "done"
  /\ main' = "stopped"
  /\ UNCHANGED <<setupVars, ticking, flagVars, queueVars, loopVars>>

-----------------------------------------------------------------------------
(* pushMessage(): lock; push and unlock; notify_one().  Channels call it   *)
(* from the moment their activate() runs, also while no loop exists.       *)

LockToPush(p) ==
  /\ mutex = "free"
  /\ p \notin notifying
  /\ IF p = System
       THEN main = "notice" /\ main' = "joining"
       ELSE /\ activation[p] # "idle"
            /\ Len(accepted) < MaxMessages
            /\ UNCHANGED main
  /\ mutex' = p
  /\ UNCHANGED <<setupVars, ticking, flagVars, messages, notifying, accepted, loopVars>>

\* (mutant of Push: the newest message goes to the front)
PushFront(p, m) ==
  /\ mutex = p
  /\ messages' = <<m>> \o messages
  /\ accepted' = Append(accepted, m)
  /\ mutex' = "free"
  /\ notifying' = notifying \cup {p}
  /\ UNCHANGED <<setupVars, mainVars, flagVars, loopVars>>

Push(p, m) ==
  /\ mutex = p
  /\ messages' = Append(messages, m)
  /\ accepted' = Append(accepted, m)
  /\ mutex' = "free"
  /\ notifying' = notifying \cup {p}
  /\ UNCHANGED <<setupVars, mainVars, flagVars, loopVars>>

\* (mutant of Notify: nobody is woken)
NotifyNobody(p) ==
  /\ p \in notifying
  /\ notifying' = notifying \ {p}
  /\ UNCHANGED <<setupVars, mainVars, flagVars, messages, mutex, accepted, loopVars>>

Notify(p) ==
  /\ p \in notifying
  /\ notifying' = notifying \ {p}
  /\ loop' = IF loop = "asleep" THEN "woken" ELSE loop
  /\ UNCHANGED <<setupVars, mainVars, flagVars, messages, mutex, accepted, itemVars>>

\* A channel stamps its own id on a message; parse() may also yield null.
Pushable(p) == IF p = System THEN {System} ELSE {p, NoMessage}

-----------------------------------------------------------------------------
(* msgLoop() and popMessage(), on the loop thread.                         *)

LoopGoes(from, to) == loop = from /\ loop' = to

LoopOnly(from, to) ==      \* nothing changes but the loop thread's position
  /\ LoopGoes(from, to)
  /\ UNCHANGED <<setupVars, flagVars, mainVars, queueVars, itemVars>>

\* (mutant of CheckRunning: for (;;) without the flag and the gate)
LoopForever == LoopOnly("check", "test")

\* while (_loopRunning)
CheckRunning ==
  /\ LoopOnly("check", IF loopRunning THEN "gate" ELSE "done")

\* popMessage()'s first loop: sleep until _loopRunning.
PassGate ==
  /\ loopRunning
  /\ LoopOnly("gate", "test")

\* while (_messages.empty()), read with or without the lock.
TestEmpty ==
  /\ LoopOnly("test", IF messages = <<>> THEN "lock" ELSE "pop")

\* Lock _mutex and wait on _cond, which unlocks it.  When the loop thread holds
\* _mutex already this lock is never granted.
Sleep ==
  /\ mutex = "free"
  /\ LoopGoes("lock", "asleep")
  /\ overlooked' = (messages # <<>>)
  /\ UNCHANGED <<setupVars, flagVars, mainVars, queueVars, item, next, taken, handed, late>>

SpuriousWake ==
  /\ Spurious
  /\ LoopOnly("asleep", "woken")

\* wait() returns with _mutex locked again.
Relock ==
  /\ mutex = "free"
  /\ mutex' = "loop"
  /\ LoopGoes("woken", "test")
  /\ UNCHANGED <<setupVars, flagVars, mainVars, messages, notifying, accepted, itemVars>>

\* front(), pop(), and unlock if the lock is owned.
Pop ==
  /\ LoopGoes("pop", "fan")
  /\ item' = Head(messages)
  /\ messages' = Tail(messages)
  /\ mutex' = IF mutex = "loop" THEN "free" ELSE mutex
  /\ next' = 1
  /\ taken' = taken + 1
  /\ late' = IF loopRunning THEN late ELSE late + 1
  /\ UNCHANGED <<setupVars, flagVars, mainVars, notifying, accepted, handed, overlooked>>

\* Popping without the lock while a thread is inside push() is a data race: the
\* pop either works as above or corrupts the queue and takes the process down.
CrashOnPop ==
  /\ mutex \in Threads
  /\ LoopOnly("pop", "crashed")

\* (mutant of Receives: a channel hears its own messages)
ReceivesOwn(o) == item # NoMessage

Receives(o) == item # NoMessage /\ item # o

SkipOutput ==
  /\ next <= Len(outputChannels)
  /\ ~Receives(outputChannels[next])
  /\ LoopGoes("fan", "fan")
  /\ next' = next + 1
  /\ UNCHANGED <<setupVars, flagVars, mainVars, queueVars, item, taken, handed, late,
                 overlooked>>

\* msg >> *out: a task runs incoming() and the discarded future's destructor
\* waits for it.
StartIncoming ==
  /\ next <= Len(outputChannels)
  /\ Receives(outputChannels[next])
  /\ LoopGoes("fan", "sending")
  /\ handed' = [handed EXCEPT ![outputChannels[next]] = @ \cup {taken}]
  /\ next' = next + 1
  /\ UNCHANGED <<setupVars, flagVars, mainVars, queueVars, item, taken, late, overlooked>>

\* (mutant of EndIncoming: the exception reaches the loop thread and ends it)
IncomingThrows == LoopOnly("sending", "done")

\* The task ends; an exception of incoming() dies with the future.
EndIncoming ==
  /\ LoopOnly("sending", "fan")

\* (mutant of FanOutDone: only the first output is offered the message)
FirstOutputOnly == next > 1 /\ LoopOnly("fan", "check")

FanOutDone ==
  /\ next > Len(outputChannels)
  /\ LoopOnly("fan", "check")

-----------------------------------------------------------------------------
Main ==
  \/ \E c \in Channels : AddChannel(c)
  \/ ActivateOutputs \/ ActivateInputs \/ StartLoop
  \/ Tick \/ TickReturns
  \/ StopLoop \/ ClearAlive \/ Join

Task ==
  \/ \E c \in Channels, result \in {"ready", "failed"} : FinishActivate(c, result)
  \/ \E c \in Channels : TickTaskEnds(c)

Producer ==
  \E p \in Threads :
    LockToPush(p) \/ (\E m \in Pushable(p) : Push(p, m)) \/ Notify(p)

LoopThread ==
  \/ CheckRunning \/ PassGate \/ TestEmpty \/ Sleep \/ SpuriousWake \/ Relock
  \/ Pop \/ CrashOnPop
  \/ SkipOutput \/ StartIncoming \/ EndIncoming \/ FanOutDone

Next == loop # "crashed" /\ (Main \/ Task \/ Producer \/ LoopThread)

Spec == Init /\ [][Next]_vars

-----------------------------------------------------------------------------
(* Fairness: every thread of the process keeps running (the scheduler), a  *)
(* mutex that is free is eventually granted, and the channels' activate(), *)
(* tick() and incoming() return.  Nobody is obliged to send, tick or stop. *)

Running(A) == loop # "crashed" /\ A

MainReturns == ActivateInputs \/ StartLoop \/ TickReturns \/ ClearAlive \/ Join
                 \/ LockToPush(System)

LoopWorks == CheckRunning \/ PassGate \/ TestEmpty \/ Sleep \/ Relock \/ Pop
               \/ SkipOutput \/ StartIncoming \/ FanOutDone

Scheduled ==
  /\ WF_vars(Running(MainReturns))
  /\ WF_vars(LoopWorks)
  /\ \A p \in Threads :
       WF_vars(Running((\E m \in Pushable(p) : Push(p, m)) \/ Notify(p)))
  /\ \A c \in Channels :
       /\ WF_vars(Running(\E r \in {"ready", "failed"} : FinishActivate(c, r)))
       /\ WF_vars(Running(TickTaskEnds(c)))

FairSpec == Spec /\ Scheduled /\ WF_vars(EndIncoming)

-----------------------------------------------------------------------------
(* Properties.                                                             *)

\* Each variable keeps its type.
TypeOK ==
  /\ inputChannels \in Seq(Ins) /\ outputChannels \in Seq(Outs)
  /\ activation \in [Channels -> {"idle", "starting", "ready", "failed"}]
  /\ main \in {"setup", "outputs", "inputs", "running", "ticking", "stopping",
               "notice", "joining", "stopped", "failed"}
  /\ ticking \in SUBSET Channels
  /\ loopRunning \in BOOLEAN /\ alive \in BOOLEAN
  /\ messages \in Seq(Message \cup {NoMessage})
  /\ accepted \in Seq(Message \cup {NoMessage})
  /\ mutex \in Threads \cup {"loop", "free"} /\ notifying \in SUBSET Threads
  /\ loop \in {"none", "check", "gate", "test", "lock", "asleep", "woken", "pop",
               "crashed", "fan", "sending", "done"}
  /\ item \in Message \cup {NoMessage}
  /\ next \in Nat \ {0} /\ taken \in Nat /\ late \in Nat /\ overlooked \in BOOLEAN
  /\ handed \in [Outs -> SUBSET (Nat \ {0})]

\* The queue is exactly the accepted messages not yet popped, in order: however
\* the channels' pushes, the unlocked reads of popMessage() and the shutdown
\* interleave, no message is lost, duplicated or reordered inside the hub.
QueueIsBacklog ==
  /\ Len(accepted) = taken + Len(messages)
  /\ \A i \in 1..Len(messages) : messages[i] = accepted[taken + i]

\* msgLoop() has passed output o with the message it holds, and how many
\* messages it has offered to o in all.
Offered(o) == \E k \in 1..(next - 1) : k <= Len(outputChannels) /\ outputChannels[k] = o

CursorOf(o) == IF loop \in {"fan", "sending"} /\ ~Offered(o) THEN taken - 1 ELSE taken

\* An output's incoming() was called once for each message offered to it that
\* is not null and not the output's own, and for nothing else: a channel never
\* hears itself, and the exit notice reaches whoever it is offered to.
HandedExactly ==
  \A o \in Outs : handed[o] =
    {i \in 1..CursorOf(o) : accepted[i] # NoMessage /\ accepted[i] # o}

\* activate() starts no input before every output is ready, and no message is
\* popped before every channel is.
ActivationOrder ==
  /\ (\E c \in Ins : activation[c] # "idle") => \A o \in Outs : activation[o] = "ready"
  /\ loop # "none" => \A c \in Channels : activation[c] = "ready"

\* Channels see *_alive cleared only when no tick() task is running any more and
\* the loop has been told to stop.
DeadHubIsQuiet == ~alive => ~loopRunning /\ ticking = {}

\* After the exit notice nothing is handed to any output, although channel
\* threads keep pushing.
NothingAfterNotice ==
  \A k \in 1..Len(accepted) : accepted[k] = System => taken <= k

\* deactivate() costs at most one more delivery, whatever the backlog, and when
\* it returns the loop thread has ended.
StopBound == late <= 1 /\ (main = "stopped" => loop = "done")

\* deactivate() keeps the order it is written in, whatever the loop thread and the
\* channels' threads do meanwhile.
StopsInOrder == DeadHubIsQuiet /\ NothingAfterNotice /\ StopBound

(* The three ways the loop thread can come to rest for good.               *)
Overslept   == loop = "asleep" /\ overlooked /\ messages # <<>>
                 /\ mutex = "free" /\ notifying = {}
SelfLocked  == loop = "lock" /\ mutex = "loop"
GateTrapped == loop = "gate" /\ ~loopRunning
Hung        == Overslept \/ SelfLocked \/ GateTrapped

\* While the hub runs its backlog drains, unless the loop thread hangs in
\* popMessage() for good or the racing pop takes the process down.
BacklogDrains ==
  (loopRunning /\ messages # <<>>)
    ~> (messages = <<>> \/ ~loopRunning \/ loop = "crashed" \/ []Hung)

\* deactivate() returns, unless the loop thread hangs in one of the three ways.
StopReturnsOrHangs ==
  (main = "stopping") ~> (main = "stopped" \/ loop = "crashed" \/ []Hung)

\* Every popped message reaches every output it is meant for: none is passed over by
\* another output's exception, by a stop or by a hang of popMessage().
AllOutputsOffered ==
  \A n \in 1..(MaxMessages + 1), o \in Outs :
    (taken >= n /\ accepted[n] \notin {NoMessage, o}) ~> n \in handed[o]

(* A promise of the comments that the code does not keep.                  *)

\* "Sleeps on _cond waiting for messages. When the message comes returns it.":
\* it never sleeps on a queue holding messages with no notification to come.
WokenByMessage == ~Overslept

(* The hub implements the relay.                                           *)
R == INSTANCE Relay WITH
       Outputs <- Outs, Origins <- Message,
       log <- accepted,
       cursor <- [o \in Outs |-> CursorOf(o)],
       got <- handed

RelaySpec == R!Spec
=============================================================================
