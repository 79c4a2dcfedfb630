------------------------------- MODULE Logger -------------------------------
(***************************************************************************)
(* The logging singleton (logging.cpp): threads that log without ever      *)
(* waiting for the lock, retry threads for what they could not push, the   *)
(* writer thread, replacement and expiry of the sink, and the destructor.  *)
(*                                                                         *)
(* A message is <<thread, number, level>>.  A worker is a thread that logs *)
(* or, under the message's own name, the retry thread of a message.  A     *)
(* retry thread sleeps 25 ms at least; the attempt that started it is      *)
(* taken to be over by then.                                               *)
(***************************************************************************)
EXTENDS Integers, Sequences

CONSTANTS Threads,      \* the threads that log
          Levels,       \* the severities used; a larger one is less severe
          Sinks,        \* the sinks an application creates
          MaxRepeats,   \* max_repeats (5 in the code)
          MaxCalls,     \* bound: messages logged per thread
          NoSink, NoMessage

Message == Threads \X (1..MaxCalls) \X Levels
Workers == Threads \cup Message
Level(m) == m[3]

ASSUME LoggerAssumption ==
  /\ Levels # {} /\ Levels \subseteq Nat
  /\ MaxRepeats \in Nat /\ MaxCalls \in Nat
  /\ NoSink \notin Sinks /\ NoMessage \notin Message
  /\ Threads \cap Message = {}

VARIABLES
  calls,        \* per thread: how many messages it has logged
  worker,       \* [Workers -> [pc, msg, seen]]: one call of log()
  delayed,      \* messages whose retry thread sleeps
  messages,     \* _messages
  locked,       \* _mutex is taken
  repeat,       \* _log_repeat
  severity,     \* _severity
  running,      \* _running
  sink,         \* the sink _sink refers to
  owned,        \* sinks the application still holds
  writer,       \* where the writer thread is
  out, item,    \* its strong reference, and the message it popped
  phase,        \* the life of the singleton: "up", then its destructor's steps
  death,        \* the process was terminated by an exception of log()
  pushed,       \* history: every message pushed, in order
  written,      \* history: every <<message, sink>> written, in order
  logged,       \* history: every message handed to log()
  late,         \* history: messages that were ever delayed
  filtered      \* history: messages dropped by severity

callVars   == <<calls, worker, delayed, logged, late, filtered>>
queueVars  == <<messages, pushed>>
configVars == <<severity, running, sink, owned>>
writerVars == <<writer, out, item, written>>
lifeVars   == <<phase, death>>
vars == <<callVars, queueVars, locked, repeat, configVars, writerVars, lifeVars>>

Idle == [pc |-> "idle", msg |-> NoMessage, seen |-> 0]

Init ==
  /\ calls = [t \in Threads |-> 0] /\ worker = [w \in Workers |-> Idle] /\ delayed = {}
  /\ messages = <<>> /\ locked = FALSE /\ repeat = 1
  /\ severity \in Levels /\ running = FALSE
  /\ sink = NoSink /\ owned = Sinks
  /\ writer = "none" /\ out = NoSink /\ item = NoMessage
  /\ phase = "up" /\ death = FALSE
  /\ pushed = <<>> /\ written = <<>> /\ logged = {} /\ late = {} /\ filtered = {}

-----------------------------------------------------------------------------
(* ~LogWriter() and log().                                                 *)

At(w, pc)   == worker[w].pc = pc
Goes(w, pc) == worker' = [worker EXCEPT ![w].pc = pc]
Ends(w)     == worker' = [worker EXCEPT ![w] = Idle]

\* (mutant of StartLog: every message is handed to a thread of its own)
StartLogDetached(t) ==
  /\ At(t, "idle") /\ calls[t] < MaxCalls
  /\ calls' = [calls EXCEPT ![t] = @ + 1]
  /\ \E l \in Levels : LET m == <<t, calls[t] + 1, l>> IN
       delayed' = delayed \cup {m} /\ logged' = logged \cup {m}
  /\ running' = TRUE
  /\ UNCHANGED <<worker, late, filtered, queueVars, locked, repeat,
                 severity, sink, owned, writerVars, lifeVars>>

\* LoggerImpl::get() (re)starts the singleton.
StartLog(t) ==
  /\ At(t, "idle") /\ calls[t] < MaxCalls
  /\ calls' = [calls EXCEPT ![t] = @ + 1]
  /\ \E l \in Levels : LET m == <<t, calls[t] + 1, l>> IN
       /\ worker' = [worker EXCEPT ![t] = [pc |-> "try", msg |-> m, seen |-> 0]]
       /\ logged' = logged \cup {m}
  /\ running' = TRUE
  /\ UNCHANGED <<delayed, late, filtered, queueVars, locked, repeat,
                 severity, sink, owned, writerVars, lifeVars>>

\* (mutant of Wake: the thread finds its copy of the message moved away)
WakeEmpty(m) ==
  /\ m \in delayed /\ At(m, "idle") /\ \A t \in Threads : worker[t].msg # m
  /\ delayed' = delayed \ {m}
  /\ UNCHANGED <<calls, worker, logged, late, filtered, queueVars, locked, repeat, configVars,
                 writerVars, lifeVars>>

\* A retry thread has slept long enough.
Wake(m) ==
  /\ m \in delayed /\ At(m, "idle") /\ \A t \in Threads : worker[t].msg # m
  /\ delayed' = delayed \ {m}
  /\ worker' = [worker EXCEPT ![m] = [pc |-> "try", msg |-> m, seen |-> 0]]
  /\ UNCHANGED <<calls, logged, late, filtered, queueVars, locked, repeat, configVars,
                 writerVars, lifeVars>>

\* The message is not severe enough, at this attempt.
Filter(w) ==
  /\ At(w, "try") /\ Level(worker[w].msg) > severity
  /\ filtered' = filtered \cup {worker[w].msg}
  /\ Ends(w)
  /\ UNCHANGED <<calls, delayed, logged, late, queueVars, locked, repeat, configVars,
                 writerVars, lifeVars>>

TryLock(w) ==
  /\ At(w, "try") /\ Level(worker[w].msg) <= severity
  /\ locked' = TRUE
  /\ Goes(w, IF locked THEN "refused" ELSE "holding")
  /\ UNCHANGED <<calls, delayed, logged, late, filtered, queueVars, repeat, configVars,
                 writerVars, lifeVars>>

\* The lock was taken: too many repeats throw, out of a destructor or out of a
\* thread; otherwise a retry thread is started.
GiveUp(w) ==
  /\ At(w, "refused") /\ repeat > MaxRepeats
  /\ death' = TRUE
  /\ UNCHANGED <<callVars, queueVars, locked, repeat, configVars, writerVars, phase>>

Delay(w) ==
  /\ At(w, "refused") /\ repeat <= MaxRepeats
  /\ delayed' = delayed \cup {worker[w].msg} /\ late' = late \cup {worker[w].msg}
  /\ Goes(w, "count")
  /\ UNCHANGED <<calls, logged, filtered, queueVars, locked, repeat, configVars, writerVars,
                 lifeVars>>

\* ++_log_repeat without the lock: a read and a store, and the updates of others
\* between the two are lost.
Count(w) ==
  /\ At(w, "count")
  /\ worker' = [worker EXCEPT ![w].pc = "store", ![w].seen = repeat]
  /\ UNCHANGED <<calls, delayed, logged, late, filtered, queueVars, locked, repeat, configVars,
                 writerVars, lifeVars>>

Store(w) ==
  /\ At(w, "store")
  /\ repeat' = worker[w].seen + 1
  /\ Goes(w, "notify")
  /\ UNCHANGED <<calls, delayed, logged, late, filtered, queueVars, locked, configVars,
                 writerVars, lifeVars>>

Push(w) ==
  /\ At(w, "holding")
  /\ messages' = Append(messages, worker[w].msg)
  /\ pushed' = Append(pushed, worker[w].msg)
  /\ repeat' = 1
  /\ locked' = FALSE
  /\ Goes(w, "notify")
  /\ UNCHANGED <<calls, delayed, logged, late, filtered, configVars, writerVars, lifeVars>>

Woken == IF writer = "asleep" THEN "woken" ELSE writer

\* (mutant of Notify: nobody is woken)
NotifyNobody(w) ==
  /\ At(w, "notify")
  /\ Ends(w)
  /\ UNCHANGED <<calls, delayed, logged, late, filtered, queueVars, locked, repeat,
                 configVars, writerVars, lifeVars>>

Notify(w) ==
  /\ At(w, "notify")
  /\ Ends(w)
  /\ writer' = Woken
  /\ UNCHANGED <<calls, delayed, logged, late, filtered, queueVars, locked, repeat,
                 configVars, out, item, written, lifeVars>>

-----------------------------------------------------------------------------
(* The application: setSeverity(), setOutput(), and letting go of a sink.  *)

SetSeverity(s) ==
  /\ phase = "up"
  /\ severity' = s
  /\ running' = TRUE
  /\ UNCHANGED <<callVars, queueVars, locked, repeat, sink, owned, writerVars, lifeVars>>

\* The writer thread is started once, by the first call.
SetOutput(s) ==
  /\ phase = "up" /\ s \in owned
  /\ sink' = s
  /\ running' = TRUE
  /\ writer' = IF writer = "none" THEN "check" ELSE writer
  /\ UNCHANGED <<callVars, queueVars, locked, repeat, severity, owned, out, item, written,
                 lifeVars>>

DropSink(s) ==
  /\ owned' = owned \ {s} /\ s \in owned
  /\ UNCHANGED <<callVars, queueVars, locked, repeat, severity, running, sink, writerVars,
                 lifeVars>>

-----------------------------------------------------------------------------
(* writeOut(), on the writer thread.                                       *)

Expired == sink \notin owned \cup ({out} \ {NoSink})

\* while (_running && !_sink.expired()), and the strong reference.
CheckSink ==
  /\ writer = "check"
  /\ IF running /\ ~Expired THEN writer' = "lock" /\ out' = sink
                            ELSE writer' = "ended" /\ UNCHANGED out
  /\ UNCHANGED <<callVars, queueVars, locked, repeat, configVars, item, written, lifeVars>>

\* Lock the mutex, at first or after a wait.
WriterLock ==
  /\ writer \in {"lock", "woken"}
  /\ ~locked
  /\ locked' = TRUE
  /\ writer' = "test"
  /\ UNCHANGED <<callVars, queueVars, repeat, configVars, out, item, written, lifeVars>>

WriterSleep ==
  /\ writer = "test" /\ messages = <<>> /\ running
  /\ locked' = FALSE
  /\ writer' = "asleep"
  /\ UNCHANGED <<callVars, queueVars, repeat, configVars, out, item, written, lifeVars>>

SpuriousWake ==
  /\ writer = "asleep"
  /\ writer' = "woken"
  /\ UNCHANGED <<callVars, queueVars, locked, repeat, configVars, out, item, written, lifeVars>>

\* if (!_running) continue
WriterStops ==
  /\ writer = "test" /\ ~running
  /\ locked' = FALSE
  /\ writer' = "check" /\ out' = NoSink
  /\ UNCHANGED <<callVars, queueVars, repeat, configVars, item, written, lifeVars>>

\* (mutant of Pop: the message stays in the queue)
Peek ==
  /\ writer = "test" /\ messages # <<>> /\ running
  /\ item' = Head(messages)
  /\ locked' = FALSE
  /\ writer' = "write"
  /\ UNCHANGED <<callVars, queueVars, repeat, configVars, out, written, lifeVars>>

Pop ==
  /\ writer = "test" /\ messages # <<>> /\ running
  /\ item' = Head(messages) /\ messages' = Tail(messages)
  /\ locked' = FALSE
  /\ writer' = "write"
  /\ UNCHANGED <<callVars, pushed, repeat, configVars, out, written, lifeVars>>

Write ==
  /\ writer = "write"
  /\ written' = Append(written, <<item, out>>)
  /\ item' = NoMessage /\ out' = NoSink
  /\ writer' = "check"
  /\ UNCHANGED <<callVars, queueVars, locked, repeat, configVars, lifeVars>>

-----------------------------------------------------------------------------
(* ~LoggerImpl(), after main() has returned and its sinks are gone.        *)

\* (mutant of Draining: the sink is not looked at)
NotEmpty == messages # <<>>

Draining == messages # <<>> /\ ~Expired

ExitStarts ==
  /\ phase = "up" /\ owned = {}
  /\ phase' = IF writer = "none" THEN "exited" ELSE "draining"
  /\ UNCHANGED <<callVars, queueVars, locked, repeat, configVars, writerVars, death>>

\* while (!_messages.empty() && !_sink.expired()) _cond.notify_one()
Drain ==
  /\ phase = "draining" /\ Draining
  /\ writer' = Woken
  /\ UNCHANGED <<callVars, queueVars, locked, repeat, configVars, out, item, written, lifeVars>>

StopWriter ==
  /\ phase = "draining" /\ ~Draining
  /\ running' = FALSE
  /\ phase' = "detached"
  /\ UNCHANGED <<callVars, queueVars, locked, repeat, severity, sink, owned, writerVars, death>>

LastNotify ==
  /\ phase = "detached"
  /\ writer' = Woken
  /\ phase' = "exited"
  /\ UNCHANGED <<callVars, queueVars, locked, repeat, configVars, out, item, written, death>>

-----------------------------------------------------------------------------
Attempt(w) == Filter(w) \/ TryLock(w) \/ GiveUp(w) \/ Delay(w) \/ Count(w) \/ Store(w)
              \/ Push(w) \/ Notify(w)

Writer == CheckSink \/ WriterLock \/ WriterSleep \/ WriterStops \/ Pop \/ Write

Exit == Drain \/ StopWriter \/ LastNotify

Up(A) == ~death /\ phase # "exited" /\ A

Next == Up(\/ \E t \in Threads : StartLog(t)
           \/ \E m \in Message : Wake(m)
           \/ \E w \in Workers : Attempt(w)
           \/ \E s \in Levels : SetSeverity(s)
           \/ \E s \in Sinks : SetOutput(s) \/ DropSink(s)
           \/ Writer \/ SpuriousWake
           \/ ExitStarts \/ Exit)

Spec == Init /\ [][Next]_vars

\* Threads keep running and a sleep ends; nobody must log, set an output or exit.
FairSpec ==
  /\ Spec
  /\ \A w \in Workers : WF_vars(Up(Attempt(w)))
  /\ \A m \in Message : WF_vars(Up(Wake(m)))
  /\ WF_vars(Up(Writer)) /\ WF_vars(Up(Exit))

-----------------------------------------------------------------------------
(* Properties.                                                             *)

Call == [pc : {"idle", "try", "refused", "holding", "count", "store", "notify"},
         msg : Message \cup {NoMessage}, seen : Nat]

TypeOK ==
  /\ calls \in [Threads -> 0..MaxCalls]
  /\ worker \in [Workers -> Call]
  /\ delayed \subseteq Message /\ logged \subseteq Message /\ late \subseteq Message /\ filtered \subseteq Message
  /\ messages \in Seq(Message) /\ pushed \in Seq(Message)
  /\ locked \in BOOLEAN
  /\ repeat \in Nat \ {0}
  /\ severity \in Levels /\ running \in BOOLEAN
  /\ sink \in Sinks \cup {NoSink} /\ owned \subseteq Sinks
  /\ writer \in {"none", "check", "lock", "test", "asleep", "woken", "write", "ended"}
  /\ out \in Sinks \cup {NoSink} /\ item \in Message \cup {NoMessage}
  /\ phase \in {"up", "draining", "detached", "exited"} /\ death \in BOOLEAN
  /\ written \in Seq(Message \X Sinks)

Writes == [i \in 1..Len(written) |-> written[i][1]]
Popped == IF item = NoMessage THEN Writes ELSE Append(Writes, item)

\* What the lock lets through comes out once and in order: the messages pushed are
\* those written, the one in the writer's hand and those queued.
PushedIsWritten == pushed = Popped \o messages

Carries(w, m) == worker[w].msg = m /\ worker[w].pc \in {"try", "refused", "holding"}
Tried(m)      == \E w \in Workers : Carries(w, m)
IsPushed(m)   == \E i \in 1..Len(pushed) : pushed[i] = m

\* Every message ever handed to log() is in exactly one place, however often its
\* attempts fail and whoever counts meanwhile: in one attempt, in one sleeping retry
\* thread, pushed once, or dropped for its severity; and none comes from nowhere.
OnePlace ==
  \A m \in Message :
    /\ m \in logged <=> Tried(m) \/ m \in delayed \cup filtered \/ IsPushed(m)
    /\ \A v, w \in Workers : Carries(v, m) /\ Carries(w, m) => v = w
    /\ \A i, j \in 1..Len(pushed) : pushed[i] = m /\ pushed[j] = m => i = j
    /\ Tried(m) => m \notin delayed \cup filtered /\ ~IsPushed(m)
    /\ IsPushed(m) => m \notin delayed \cup filtered
    /\ m \notin delayed \cap filtered

\* Messages of one thread overtake each other only if the earlier one was delayed.
ProgramOrder ==
  \A i, j \in 1..Len(pushed) :
    i < j /\ pushed[i][1] = pushed[j][1] /\ pushed[i][2] > pushed[j][2] => pushed[j] \in late

\* A message logged while the writer works is written or dropped for its severity,
\* unless the process is terminated, exits, or the writer's sink expires.
EventuallyWritten ==
  \A m \in Message :
    ((\E w \in Workers : worker[w].msg = m) /\ writer \notin {"none", "ended"})
      ~> (\/ \E i \in 1..Len(written) : written[i][1] = m
          \/ m \in filtered \/ death \/ phase # "up" \/ writer = "ended")

\* The destructor's busy loop over a queue it does not lock comes to an end.
ExitReturns == phase = "draining" ~> (phase = "exited" \/ death)
=============================================================================
