---------------------------- MODULE LoggerProofs ----------------------------
(***************************************************************************)
(* Theorems about Logger for every set of threads, severities and sinks    *)
(* and every number of attempts and messages.                              *)
(***************************************************************************)
EXTENDS Logger, SequenceTheorems, TLAPS

USE DEF callVars, queueVars, configVars, writerVars, lifeVars, Idle, At, Goes, Ends, Up, Call

-----------------------------------------------------------------------------
(* Types.                                                                  *)

\* A thread that is logging has a message; the writer thread has a sink from its check on.
TypeInv ==
  /\ TypeOK
  /\ \A w \in Workers : IF At(w, "idle") THEN worker[w].msg = NoMessage
                                         ELSE worker[w].msg \in Message
  /\ writer \in {"lock", "test", "asleep", "woken", "write"} => out \in Sinks
  /\ writer = "write" <=> item # NoMessage

LEMMA TypeInit == Init => TypeInv
<1> SUFFICES ASSUME Init PROVE TypeInv
  OBVIOUS
<1>1. calls \in [Threads -> 0..MaxCalls]
  BY LoggerAssumption DEF Init
<1>2. /\ worker \in [Workers -> Call]
      /\ \A w \in Workers : worker[w].pc = "idle" /\ worker[w].msg = NoMessage
  BY DEF Init
<1>3. repeat \in Nat \ {0} /\ severity \in Levels
  BY LoggerAssumption DEF Init
<1>4. /\ <<>> \in Seq(Message) /\ <<>> \in Seq(Message \X Sinks)
      /\ writer = "none" /\ out = NoSink /\ item = NoMessage
  BY DEF Init
<1>5. TypeOK
  BY <1>1, <1>2, <1>3, <1>4 DEF Init, TypeOK
<1>6. QED
  BY <1>2, <1>4, <1>5 DEF TypeInv

LEMMA WorkerType ==
  ASSUME TypeInv, NEW w \in Workers, Attempt(w)
  PROVE  TypeInv'
<1> USE DEF TypeInv, TypeOK
<1>1. CASE Filter(w)
  BY <1>1 DEF Filter
<1>2. CASE TryLock(w)
  <2>1. PICK pc \in {"refused", "holding"} : Goes(w, pc)
    BY <1>2 DEF TryLock
  <2>2. ~At(w, "idle") /\ worker' = [worker EXCEPT ![w].pc = pc]
    BY <1>2, <2>1 DEF TryLock
  <2>3. /\ worker' \in [Workers -> Call]
        /\ \A v \in Workers : IF At(v, "idle")' THEN worker'[v].msg = NoMessage
                                                 ELSE worker'[v].msg \in Message
    BY <2>2
  <2>4. QED
    BY <1>2, <2>3 DEF TryLock
<1>3. CASE GiveUp(w)
  BY <1>3 DEF GiveUp
<1>4. CASE Delay(w)
  <2>1. worker[w].msg \in Message
    BY <1>4 DEF Delay
  <2>2. delayed' \subseteq Message /\ late' \subseteq Message
    BY <1>4, <2>1 DEF Delay
  <2>3. QED
    BY ZenonT(60), <1>4, <2>2 DEF Delay
<1>5. CASE Count(w)
  <2>1. worker' = [worker EXCEPT ![w].pc = "store", ![w].seen = repeat] /\ repeat \in Nat
    BY <1>5 DEF Count
  <2>2. worker[w].msg \in Message
    BY <1>5 DEF Count
  <2>3. /\ worker' \in [Workers -> Call]
        /\ \A v \in Workers : IF At(v, "idle")' THEN worker'[v].msg = NoMessage
                                                 ELSE worker'[v].msg \in Message
    BY <2>1, <2>2
  <2>4. QED
    BY <1>5, <2>3 DEF Count
<1>9. CASE Store(w)
  <2>1. repeat' \in Nat \ {0}
    BY <1>9 DEF Store
  <2>2. QED
    BY ZenonT(60), <1>9, <2>1 DEF Store
<1>6. CASE Push(w)
  <2>1. repeat' \in Nat \ {0}
    BY <1>6 DEF Push
  <2>2. worker[w].msg \in Message
    BY <1>6 DEF Push
  <2>3. messages' \in Seq(Message) /\ pushed' \in Seq(Message)
    BY <1>6, <2>2 DEF Push
  <2>4. QED
    BY ZenonT(60), <1>6, <2>1, <2>3 DEF Push
<1>7. CASE Notify(w)
  BY <1>7 DEF Notify, Woken
<1>8. QED
  BY <1>1, <1>2, <1>3, <1>4, <1>5, <1>6, <1>7, <1>9 DEF Attempt

LEMMA WriterType == ASSUME TypeInv, Writer PROVE TypeInv'
<1> USE DEF TypeInv, TypeOK
<1>1. CASE CheckSink
  BY <1>1 DEF CheckSink, Expired
<1>2. CASE WriterLock \/ WriterSleep \/ WriterStops
  BY <1>2 DEF WriterLock, WriterSleep, WriterStops
<1>3. CASE Pop
  <2>1. Head(messages) \in Message /\ Tail(messages) \in Seq(Message)
    BY <1>3 DEF Pop
  <2>2. NoMessage \notin Message
    BY LoggerAssumption
  <2>3. QED
    BY <1>3, <2>1, <2>2 DEF Pop
<1>4. CASE Write
  <2>1. <<item, out>> \in Message \X Sinks
    BY <1>4 DEF Write
  <2>2. QED
    BY <1>4, <2>1 DEF Write
<1>5. QED
  BY <1>1, <1>2, <1>3, <1>4 DEF Writer

LEMMA TypeStep == TypeInv /\ [Next]_vars => TypeInv'
<1> SUFFICES ASSUME TypeInv, [Next]_vars PROVE TypeInv'
  OBVIOUS
<1> USE DEF TypeInv, TypeOK
<1>1. CASE UNCHANGED vars
  BY <1>1 DEF vars
<1>2. ASSUME NEW t \in Threads, StartLog(t) PROVE TypeInv'
  <2>1. PICK l \in Levels :
          worker' = [worker EXCEPT ![t] = [pc |-> "try", msg |-> <<t, calls[t] + 1, l>>, seen |-> 0]]
    BY <1>2 DEF StartLog
  <2>2. calls[t] + 1 \in 1..MaxCalls
    BY <1>2, LoggerAssumption DEF StartLog
  <2>3. <<t, calls[t] + 1, l>> \in Message
    BY <2>2 DEF Message
  <2>4. calls' \in [Threads -> 0..MaxCalls]
    BY <1>2, <2>2 DEF StartLog
  <2>5. t \in Workers
    BY DEF Workers
  <2>6. QED
    BY ZenonT(60), <1>2, <2>1, <2>3, <2>4, <2>5 DEF StartLog
<1>3. ASSUME NEW m \in Message, Wake(m) PROVE TypeInv'
  BY <1>3 DEF Wake, Workers
<1>4. ASSUME NEW w \in Workers, Attempt(w) PROVE TypeInv'
  BY <1>4, WorkerType
<1>5. ASSUME NEW s \in Levels, SetSeverity(s) PROVE TypeInv'
  BY <1>5 DEF SetSeverity
<1>6. ASSUME NEW s \in Sinks, SetOutput(s) \/ DropSink(s) PROVE TypeInv'
  BY ZenonT(60), <1>6 DEF SetOutput, DropSink
<1>7. CASE Writer
  BY <1>7, WriterType
<1>8. CASE SpuriousWake \/ ExitStarts \/ Exit
  BY ZenonT(60), <1>8 DEF SpuriousWake, ExitStarts, Exit, Drain, StopWriter, LastNotify, Woken
<1>9. QED
  BY <1>1, <1>2, <1>3, <1>4, <1>5, <1>6, <1>7, <1>8 DEF Next

\* Each variable keeps its type; the count of repeats, which the threads update without
\* the lock, is not bounded by the limit: each thread that tested it in time adds one.
THEOREM TypeCorrect == Spec => []TypeOK
<1>1. Spec => []TypeInv
  BY TypeInit, TypeStep, PTL DEF Spec
<1>2. TypeInv => TypeOK
  BY DEF TypeInv
<1>3. QED
  BY <1>1, <1>2, PTL

-----------------------------------------------------------------------------
(* The queue.                                                              *)

LEMMA QueueChanges ==
  ASSUME [Next]_vars
  PROVE  \/ UNCHANGED <<messages, pushed, item, written>>
         \/ \E w \in Workers : Push(w)
         \/ Pop
         \/ Write
BY DEF Next, vars, StartLog, Wake, Attempt, Filter, TryLock, GiveUp, Delay, Count, Store, Notify,
   SetSeverity, SetOutput, DropSink, Writer, CheckSink, WriterLock, WriterSleep, WriterStops,
   SpuriousWake, ExitStarts, Exit, Drain, StopWriter, LastNotify

\* What Writes and Popped are, element by element.
WritesAre ==
  /\ Writes \in Seq(Message) /\ Len(Writes) = Len(written)
  /\ \A i \in 1..Len(written) : Writes[i] = written[i][1]
  /\ item \in Message => Popped = Append(Writes, item)
  /\ item = NoMessage => Popped = Writes
  /\ Popped \in Seq(Message)

LEMMA WritesType == TypeInv => WritesAre
<1> SUFFICES ASSUME TypeInv PROVE WritesAre
  OBVIOUS
<1>1. \A i \in 1..Len(written) : written[i] \in Message \X Sinks
  BY ElementOfSeq DEF TypeInv, TypeOK
<1>2. Writes \in [1..Len(written) -> Message]
  BY <1>1 DEF Writes
<1>3. Len(written) \in Nat
  BY DEF TypeInv, TypeOK
<1>4. Writes \in Seq(Message) /\ Len(Writes) = Len(written)
  BY <1>2, <1>3
<1>5. \A i \in 1..Len(written) : Writes[i] = written[i][1]
  BY DEF Writes
<1>6. item \in Message => Popped = Append(Writes, item)
  BY LoggerAssumption DEF Popped
<1>7. item = NoMessage => Popped = Writes
  BY DEF Popped
<1>8. Popped \in Seq(Message)
  <2>1. CASE item \in Message
    BY <1>4, <1>6, <2>1, AppendProperties
  <2>2. CASE item = NoMessage
    BY <1>4, <1>7, <2>2
  <2>3. QED
    BY <2>1, <2>2 DEF TypeInv, TypeOK
<1>9. QED
  BY <1>4, <1>5, <1>6, <1>7, <1>8 DEF WritesAre

LEMMA PushedInit == Init => PushedIsWritten
<1> SUFFICES ASSUME Init PROVE PushedIsWritten
  OBVIOUS
<1>1. Popped = Writes /\ Writes = <<>>
  BY DEF Init, Popped, Writes
<1>2. QED
  BY <1>1 DEF Init, PushedIsWritten

LEMMA PushedStep ==
  ASSUME TypeInv, TypeInv', PushedIsWritten, [Next]_vars
  PROVE  PushedIsWritten'
<1> USE DEF PushedIsWritten
<1>1. CASE UNCHANGED <<messages, pushed, item, written>>
  BY <1>1 DEF Popped, Writes
<1>2. ASSUME NEW w \in Workers, Push(w) PROVE PushedIsWritten'
  <2> DEFINE m == worker[w].msg
  <2>1. m \in Message /\ messages \in Seq(Message) /\ Popped \in Seq(Message)
    BY <1>2, WritesType DEF Push, WritesAre, TypeInv, TypeOK
  <2>2. messages' = Append(messages, m) /\ pushed' = Append(pushed, m)
    BY <1>2 DEF Push
  <2>3. Popped' = Popped
    BY <1>2 DEF Push, Popped, Writes
  <2> HIDE DEF m
  <2>4. Append(Popped \o messages, m) = (Popped \o messages) \o <<m>>
    BY <2>1, AppendIsConcat, ConcatProperties
  <2>5. Append(messages, m) = messages \o <<m>>
    BY <2>1, AppendIsConcat
  <2>6. (Popped \o messages) \o <<m>> = Popped \o (messages \o <<m>>)
    <3>1. <<m>> \in Seq(Message)
      BY <2>1
    <3>2. QED
      BY <2>1, <3>1, ConcatAssociative
  <2>7. QED
    BY <2>2, <2>3, <2>4, <2>5, <2>6
<1>3. CASE Pop
  <2>1. item = NoMessage /\ Popped = Writes /\ Writes \in Seq(Message)
    BY <1>3, WritesType DEF Pop, WritesAre, TypeInv
  <2>2. messages \in Seq(Message) /\ messages # <<>>
    BY <1>3 DEF Pop, TypeInv, TypeOK
  <2>3. item' = Head(messages) /\ messages' = Tail(messages) /\ pushed' = pushed /\ Writes' = Writes
    BY <1>3 DEF Pop, Writes
  <2>4. Head(messages) \in Message /\ Tail(messages) \in Seq(Message)
    BY <2>2, HeadTailProperties
  <2>5. Popped' = Append(Writes, Head(messages))
    BY <2>3, <2>4, LoggerAssumption DEF Popped
  <2>6. Append(Writes, Head(messages)) = Writes \o <<Head(messages)>>
    BY <2>1, <2>4, AppendIsConcat
  <2>7. <<Head(messages)>> \o Tail(messages) = messages
    BY <2>2, <2>4
  <2>8. (Writes \o <<Head(messages)>>) \o Tail(messages) = Writes \o (<<Head(messages)>> \o Tail(messages))
    <3>1. <<Head(messages)>> \in Seq(Message)
      BY <2>4
    <3>2. QED
      BY <2>1, <2>4, <3>1, ConcatAssociative
  <2>9. QED
    BY <2>1, <2>3, <2>5, <2>6, <2>7, <2>8
<1>4. CASE Write
  <2>1. item \in Message /\ Popped = Append(Writes, item) /\ Writes \in Seq(Message)
        /\ Len(Writes) = Len(written) /\ \A i \in 1..Len(written) : Writes[i] = written[i][1]
    BY <1>4, WritesType DEF Write, WritesAre, TypeInv, TypeOK
  <2>2. item' = NoMessage /\ written' = Append(written, <<item, out>>)
        /\ pushed' = pushed /\ messages' = messages
    BY <1>4 DEF Write
  <2>3. written \in Seq(Message \X Sinks) /\ written' \in Seq(Message \X Sinks)
    BY DEF TypeInv, TypeOK
  <2>4. /\ Len(written') = Len(written) + 1 /\ Len(written) \in Nat
        /\ \A i \in 1..Len(written) : written'[i] = written[i]
        /\ written'[Len(written) + 1] = <<item, out>>
    BY <2>2, <2>3
  <2>5. Append(Writes, item) = Writes'
    <3>1. /\ Writes' \in Seq(Message) /\ Len(Writes') = Len(written')
          /\ \A i \in 1..Len(written') : Writes'[i] = written'[i][1]
      <4>1. TypeInv' => WritesAre'
        BY WritesType, PTL
      <4>2. QED
        BY <4>1 DEF WritesAre
    <3>2. /\ Append(Writes, item) \in Seq(Message) /\ Len(Append(Writes, item)) = Len(written')
          /\ \A i \in 1..Len(Writes) : Append(Writes, item)[i] = Writes[i]
          /\ Append(Writes, item)[Len(Writes) + 1] = item
      BY <2>1, <2>4, AppendProperties
    <3>3. \A i \in 1..Len(written') : Append(Writes, item)[i] = Writes'[i]
      BY <2>1, <2>4, <3>1, <3>2
    <3>4. QED
      BY <3>1, <3>2, <3>3, SeqEqual
  <2>6. Popped' = Writes'
    BY <2>2 DEF Popped
  <2>7. QED
    BY <2>1, <2>2, <2>5, <2>6
<1>5. QED
  BY <1>1, <1>2, <1>3, <1>4, QueueChanges

\* What passes the lock is written once and in order, whatever the attempts, wake-ups,
\* sinks and the exit do in between.
THEOREM QueueCorrect == Spec => []PushedIsWritten
<1>1. Init => TypeInv /\ PushedIsWritten
  BY TypeInit, PushedInit
<1>2. TypeInv /\ PushedIsWritten /\ [Next]_vars => (TypeInv /\ PushedIsWritten)'
  BY TypeStep, PushedStep
<1>3. QED
  BY <1>1, <1>2, PTL DEF Spec

-----------------------------------------------------------------------------
(* Where a message is.                                                     *)

Known(m) == m[2] <= calls[m[1]]

\* A thread is busy with its newest message only; a retry thread with its own, which
\* was late; and no message is anywhere before it is logged.
SourceInv ==
  /\ \A t \in Threads : ~At(t, "idle") => worker[t].msg[1] = t /\ worker[t].msg[2] = calls[t]
  /\ \A m \in Message : ~At(m, "idle") => worker[m].msg = m /\ m \in late
  /\ delayed \subseteq late
  /\ \A m \in late \cup filtered : Known(m)
  /\ \A i \in 1..Len(pushed) : Known(pushed[i])

LEMMA SourceInit == Init => SourceInv
BY DEF Init, SourceInv, Workers

LEMMA AttemptChanges ==
  ASSUME [Next]_vars
  PROVE  \/ UNCHANGED <<calls, worker, delayed, logged, late, filtered, pushed>>
         \/ \E t \in Threads : StartLog(t)
         \/ \E m \in Message : Wake(m)
         \/ \E w \in Workers : Attempt(w)
BY DEF Next, vars, SetSeverity, SetOutput, DropSink, Writer, CheckSink, WriterLock,
   WriterSleep, WriterStops, Pop, Write, SpuriousWake, ExitStarts, Exit, Drain, StopWriter,
   LastNotify

LEMMA SourceStep ==
  ASSUME TypeInv, SourceInv, [Next]_vars
  PROVE  SourceInv'
<1> USE DEF SourceInv, Known
<1>1. CASE UNCHANGED <<calls, worker, delayed, late, filtered, pushed>>
  BY <1>1
<1>2. ASSUME NEW t \in Threads, StartLog(t) PROVE SourceInv'
  <2>1. PICK l \in Levels :
          worker' = [worker EXCEPT ![t] = [pc |-> "try", msg |-> <<t, calls[t] + 1, l>>, seen |-> 0]]
    BY <1>2 DEF StartLog
  <2>2. /\ calls \in [Threads -> 0..MaxCalls] /\ calls' = [calls EXCEPT ![t] = @ + 1]
        /\ MaxCalls \in Nat /\ UNCHANGED <<delayed, late, filtered, pushed>>
    BY <1>2, LoggerAssumption DEF StartLog, TypeInv, TypeOK
  <2>3. \A u \in Threads : calls[u] \in Nat /\ calls[u] <= calls'[u] /\ calls'[t] = calls[t] + 1
                          /\ (u # t => calls'[u] = calls[u])
    BY <2>2
  <2>4. /\ worker'[t].msg = <<t, calls[t] + 1, l>> /\ t \in Workers
        /\ \A w \in Workers : w # t => worker'[w] = worker[w]
    BY <2>1 DEF Workers, TypeInv, TypeOK
  <2>5. \A m \in Message : Known(m) => Known(m)'
    BY <2>2, <2>3 DEF Message
  <2>6. \A u \in Threads :
          ~At(u, "idle")' => worker'[u].msg[1] = u /\ worker'[u].msg[2] = calls'[u]
    BY <2>2, <2>3, <2>4 DEF Workers
  <2>7. \A m \in Message : ~At(m, "idle")' => worker'[m].msg = m /\ m \in late'
    BY <2>2, <2>4, LoggerAssumption DEF Workers
  <2>8. \A m \in late' \cup filtered' : Known(m)'
    BY <2>2, <2>5 DEF TypeInv, TypeOK
  <2>9. \A i \in 1..Len(pushed') : Known(pushed[i])'
    BY <2>2, <2>5, ElementOfSeq DEF TypeInv, TypeOK
  <2>10. QED
    BY <2>2, <2>6, <2>7, <2>8, <2>9
<1>3. ASSUME NEW m \in Message, Wake(m) PROVE SourceInv'
  <2>1. /\ UNCHANGED <<calls, late, filtered, pushed>> /\ delayed' \subseteq delayed
        /\ m \in late /\ m \in Workers
    BY <1>3 DEF Wake, Workers
  <2>2. /\ worker'[m].msg = m
        /\ \A w \in Workers : w # m => worker'[w] = worker[w]
    BY <1>3, <2>1 DEF Wake, TypeInv, TypeOK
  <2>3. \A t \in Threads : t # m /\ t \in Workers
    BY LoggerAssumption DEF Workers
  <2>4. QED
    BY <2>1, <2>2, <2>3 DEF Workers
<1>4. ASSUME NEW w \in Workers, Attempt(w) PROVE SourceInv'
  <2>1. \A v \in Workers : ~At(v, "idle")' => ~At(v, "idle") /\ worker'[v].msg = worker[v].msg
    <3>1. worker \in [Workers -> Call]
      BY DEF TypeInv, TypeOK
    <3>2. CASE Filter(w) \/ GiveUp(w) \/ Notify(w)
      BY <3>1, <3>2 DEF Filter, GiveUp, Notify
    <3>3. CASE TryLock(w) \/ Delay(w) \/ Store(w) \/ Push(w)
      <4>1. PICK pc \in {"refused", "holding", "count", "notify"} :
              worker' = [worker EXCEPT ![w].pc = pc]
        BY <3>3 DEF TryLock, Delay, Store, Push
      <4>2. ~At(w, "idle")
        BY <3>3 DEF TryLock, Delay, Store, Push
      <4>3. /\ worker'[w].msg = worker[w].msg
            /\ \A v \in Workers : v = w \/ worker'[v] = worker[v]
        BY <3>1, <4>1
      <4>4. QED
        BY <4>2, <4>3
    <3>4. CASE Count(w)
      BY <3>1, <3>4 DEF Count
    <3>5. QED
      BY <1>4, <3>2, <3>3, <3>4 DEF Attempt
  <2>2. late \subseteq late' /\ calls' = calls
    BY <1>4 DEF Attempt, Filter, TryLock, GiveUp, Delay, Count, Store, Push, Notify
  <2>3. ~At(w, "idle") /\ worker[w].msg \in Message /\ Known(worker[w].msg)
    <3>1. ~At(w, "idle") /\ worker[w].msg \in Message
      BY <1>4 DEF Attempt, Filter, TryLock, GiveUp, Delay, Count, Store, Push, Notify, TypeInv
    <3>2. CASE w \in Threads
      BY <3>1, <3>2, LoggerAssumption DEF TypeInv, TypeOK
    <3>3. CASE w \in Message
      BY <3>1, <3>3
    <3>4. QED
      BY <3>1, <3>2, <3>3 DEF Workers
  <2>4. delayed' \subseteq late'
    BY <1>4 DEF Attempt, Filter, TryLock, GiveUp, Delay, Count, Store, Push, Notify
  <2>5. \A m \in late' \cup filtered' : Known(m)'
    BY <1>4, <2>3 DEF Attempt, Filter, TryLock, GiveUp, Delay, Count, Store, Push, Notify
  <2>6. \A i \in 1..Len(pushed') : Known(pushed[i])'
    <3>1. CASE pushed' = pushed
      BY <2>2, <3>1
    <3>2. CASE pushed' = Append(pushed, worker[w].msg)
      BY <2>2, <2>3, <3>2 DEF TypeInv, TypeOK
    <3>3. QED
      BY <1>4, <3>1, <3>2 DEF Attempt, Filter, TryLock, GiveUp, Delay, Count, Store, Push, Notify
  <2>7. QED
    BY <2>1, <2>2, <2>4, <2>5, <2>6 DEF Workers
<1>5. QED
  BY <1>1, <1>2, <1>3, <1>4, AttemptChanges

LEMMA OrderInit == Init => ProgramOrder
BY DEF Init, ProgramOrder

LEMMA OrderStep ==
  ASSUME TypeInv, SourceInv, ProgramOrder, [Next]_vars
  PROVE  ProgramOrder'
<1> USE DEF ProgramOrder
<1>1. late \subseteq late'
  BY DEF Next, vars, StartLog, Wake, Attempt, Filter, TryLock, GiveUp, Delay, Count, Store, Push,
     Notify, SetSeverity, SetOutput, DropSink, Writer, CheckSink, WriterLock, WriterSleep,
     WriterStops, Pop, Write, SpuriousWake, ExitStarts, Exit, Drain, StopWriter, LastNotify
<1>2. CASE UNCHANGED <<messages, pushed, item, written>> \/ Pop \/ Write
  <2>1. pushed' = pushed
    BY <1>2 DEF Pop, Write
  <2>2. QED
    BY <1>1, <2>1
<1>3. ASSUME NEW w \in Workers, Push(w) PROVE ProgramOrder'
  <2> DEFINE m == worker[w].msg
  <2>1. m \in Message /\ pushed \in Seq(Message) /\ ~At(w, "idle")
    BY <1>3 DEF Push, TypeInv, TypeOK
  <2>2. pushed' = Append(pushed, m)
    BY <1>3 DEF Push
  <2>3. \A i \in 1..Len(pushed) :
          pushed[i][1] = m[1] /\ pushed[i][2] > m[2] => m \in late
    <3>1. CASE w \in Message
      BY <2>1, <3>1 DEF SourceInv
    <3>2. CASE w \in Threads
      <4> SUFFICES ASSUME NEW i \in 1..Len(pushed), pushed[i][1] = m[1] PROVE ~(pushed[i][2] > m[2])
        OBVIOUS
      <4>1. pushed[i] \in Message
        BY <2>1, ElementOfSeq
      <4>2. pushed[i][2] <= calls[m[1]] /\ m[1] = w /\ m[2] = calls[w]
        BY <2>1, <3>2 DEF SourceInv, Known
      <4>3. pushed[i][2] \in Nat /\ m[2] \in Nat
        BY <2>1, <4>1 DEF Message
      <4>4. QED
        BY <4>2, <4>3
    <3>3. QED
      BY <3>1, <3>2 DEF Workers
  <2> HIDE DEF m
  <2>4. /\ Len(pushed') = Len(pushed) + 1 /\ Len(pushed) \in Nat
        /\ \A i \in 1..Len(pushed) : pushed'[i] = pushed[i]
        /\ pushed'[Len(pushed) + 1] = m
    BY <2>1, <2>2, AppendProperties, LenProperties
  <2> SUFFICES ASSUME NEW i \in 1..Len(pushed'), NEW j \in 1..Len(pushed'), i < j,
                      pushed'[i][1] = pushed'[j][1], pushed'[i][2] > pushed'[j][2]
               PROVE  pushed'[j] \in late'
    OBVIOUS
  <2>5. i \in 1..Len(pushed) /\ pushed'[i] = pushed[i]
    BY <2>4
  <2>6. CASE j \in 1..Len(pushed)
    BY <1>1, <2>4, <2>5, <2>6
  <2>7. CASE j = Len(pushed) + 1
    BY <1>1, <2>3, <2>4, <2>5, <2>7
  <2>8. QED
    BY <2>4, <2>6, <2>7
<1>4. QED
  BY <1>2, <1>3, QueueChanges

\* Two messages of a thread are pushed out of order only if the lock was taken when
\* the one that comes later was logged.
THEOREM OrderCorrect == Spec => []ProgramOrder
<1>1. Init => TypeInv /\ SourceInv /\ ProgramOrder
  BY TypeInit, SourceInit, OrderInit
<1>2. TypeInv /\ SourceInv /\ ProgramOrder /\ [Next]_vars
        => (TypeInv /\ SourceInv /\ ProgramOrder)'
  BY TypeStep, SourceStep, OrderStep
<1>3. QED
  BY <1>1, <1>2, PTL DEF Spec

-----------------------------------------------------------------------------
(* No message is lost or doubled on its way to the queue.                  *)

LEMMA PlaceInit == Init => OnePlace
BY LoggerAssumption DEF Init, OnePlace, Carries, Tried, IsPushed

\* A step that leaves what is delayed, dropped, pushed and logged, and who carries what.
LEMMA PlaceKept ==
  ASSUME OnePlace, UNCHANGED <<delayed, logged, filtered, pushed>>,
         \A v \in Workers : \A n \in Message : Carries(v, n)' <=> Carries(v, n)
  PROVE  OnePlace'
<1>1. \A n \in Message : Tried(n)' <=> Tried(n)
  BY DEF Tried
<1>2. \A n \in Message : IsPushed(n)' <=> IsPushed(n)
  BY DEF IsPushed
<1>3. QED
  BY <1>1, <1>2 DEF OnePlace

LEMMA PlaceStep ==
  ASSUME TypeInv, SourceInv, OnePlace, [Next]_vars
  PROVE  OnePlace'
<1>0. worker \in [Workers -> Call]
  BY DEF TypeInv, TypeOK
<1>1. CASE UNCHANGED <<calls, worker, delayed, logged, late, filtered, pushed>>
  <2>1. \A v \in Workers : \A n \in Message : Carries(v, n)' <=> Carries(v, n)
    BY <1>1 DEF Carries
  <2>2. QED
    BY <1>1, <2>1, PlaceKept
<1>2. ASSUME NEW t \in Threads, StartLog(t) PROVE OnePlace'
  <2>1. PICK l \in Levels :
          /\ worker' = [worker EXCEPT ![t] = [pc |-> "try", msg |-> <<t, calls[t] + 1, l>>, seen |-> 0]]
          /\ logged' = logged \cup {<<t, calls[t] + 1, l>>}
    BY <1>2 DEF StartLog
  <2> DEFINE n == <<t, calls[t] + 1, l>>
  <2>2. /\ UNCHANGED <<delayed, filtered, pushed>>
        /\ At(t, "idle") /\ worker[t].msg = NoMessage /\ calls[t] \in Nat
    BY <1>2, LoggerAssumption DEF StartLog, TypeInv, TypeOK, Workers
  <2>3. /\ worker'[t].msg = n /\ worker'[t].pc = "try" /\ t \in Workers
        /\ \A w \in Workers : w = t \/ worker'[w] = worker[w]
    BY <1>0, <2>1 DEF Workers
  <2>4. ~Known(n) /\ n \in Message
    BY <1>2, <2>2, LoggerAssumption DEF Known, StartLog, Message
  <2>5. n \notin delayed \cup filtered /\ ~IsPushed(n)
    BY <2>4 DEF SourceInv, IsPushed
  <2>6. \A w \in Workers : ~Carries(w, n)
    <3> SUFFICES ASSUME NEW w \in Workers, Carries(w, n) PROVE FALSE
      OBVIOUS
    <3>1. ~At(w, "idle") /\ worker[w].msg = n
      BY DEF Carries
    <3>2. CASE w \in Threads
      <4>1. n[1] = w
        BY <3>1, <3>2 DEF SourceInv
      <4>2. QED
        BY <2>2, <3>1, <4>1
    <3>3. CASE w \in Message
      <4>1. n = w /\ w \in late
        BY <3>1, <3>3 DEF SourceInv
      <4>2. QED
        BY <2>4, <4>1 DEF SourceInv
    <3>4. QED
      BY <3>2, <3>3 DEF Workers
  <2>7. logged' = logged \cup {n}
    BY <2>1
  <2> HIDE DEF n
  <2>8. \A v \in Workers : \A m \in Message : Carries(v, m)' <=> IF v = t THEN m = n ELSE Carries(v, m)
    BY <2>3, LoggerAssumption DEF Carries
  <2>9. \A m \in Message : ~Carries(t, m)
    BY <2>2 DEF Carries
  <2>10. \A m \in Message : Tried(m)' <=> m = n \/ Tried(m)
    BY <2>3, <2>8, <2>9 DEF Tried
  <2>11. ~Tried(n)
    BY <2>6 DEF Tried
  <2>12. \A m \in Message : IsPushed(m)' <=> IsPushed(m)
    BY <2>2 DEF IsPushed
  <2>13. \A m \in Message : \A u, v \in Workers : Carries(u, m)' /\ Carries(v, m)' => u = v
    BY <2>6, <2>8 DEF OnePlace
  <2>14. QED
    BY <2>2, <2>4, <2>5, <2>7, <2>10, <2>11, <2>12, <2>13 DEF OnePlace
<1>3. ASSUME NEW m \in Message, Wake(m) PROVE OnePlace'
  <2>1. /\ UNCHANGED <<filtered, pushed, logged>> /\ delayed' = delayed \ {m} /\ m \in delayed
        /\ m \in Workers /\ At(m, "idle")
    BY <1>3 DEF Wake, Workers
  <2>2. /\ worker'[m].msg = m /\ worker'[m].pc = "try"
        /\ \A w \in Workers : w = m \/ worker'[w] = worker[w]
    BY <1>0, <1>3, <2>1 DEF Wake
  <2>3. /\ \A v \in Workers : \A n \in Message : Carries(v, n)' <=> IF v = m THEN n = m ELSE Carries(v, n)
        /\ \A n \in Message : ~Carries(m, n)
    BY <2>1, <2>2, LoggerAssumption DEF Carries
  <2>4. ~Tried(m) /\ \A w \in Workers : ~Carries(w, m)
    BY <2>1 DEF OnePlace, Tried
  <2>5. \A n \in Message : Tried(n)' <=> n = m \/ Tried(n)
    BY <2>1, <2>3 DEF Tried
  <2>6. \A n \in Message : IsPushed(n)' <=> IsPushed(n)
    BY <2>1 DEF IsPushed
  <2>7. \A n \in Message : \A u, v \in Workers : Carries(u, n)' /\ Carries(v, n)' => u = v
    BY <2>3, <2>4 DEF OnePlace
  <2>8. QED
    BY <2>1, <2>4, <2>5, <2>6, <2>7 DEF OnePlace
<1>4. ASSUME NEW w \in Workers, Attempt(w) PROVE OnePlace'
  <2> DEFINE m == worker[w].msg
  <2>1. m \in Message /\ ~At(w, "idle") /\ logged' = logged
    BY <1>4 DEF Attempt, Filter, TryLock, GiveUp, Delay, Count, Store, Push, Notify, TypeInv
  \* The attempts that hand the message on: it leaves w for another place.
  <2>2. ASSUME Filter(w) \/ Delay(w) \/ Push(w) PROVE OnePlace'
    <3>1. Carries(w, m) /\ Tried(m) /\ \A v \in Workers : Carries(v, m) => v = w
      BY <2>1, <2>2 DEF Filter, Delay, Push, Carries, Tried, OnePlace
    <3>2. /\ worker'[w].pc \in {"idle", "count", "notify"}
          /\ \A v \in Workers : v = w \/ worker'[v] = worker[v]
      BY <1>0, <2>2 DEF Filter, Delay, Push
    <3>3. /\ \/ filtered' = filtered \cup {m} /\ UNCHANGED <<delayed, pushed>>
             \/ delayed' = delayed \cup {m} /\ UNCHANGED <<filtered, pushed>>
             \/ pushed' = Append(pushed, m) /\ UNCHANGED <<filtered, delayed>>
          /\ pushed \in Seq(Message)
      BY <2>2 DEF Filter, Delay, Push, TypeInv, TypeOK
    <3> HIDE DEF m
    <3>4. \A v \in Workers : \A n \in Message : Carries(v, n)' <=> v # w /\ Carries(v, n)
      BY <3>2 DEF Carries
    <3>5. \A n \in Message : Carries(w, n) => n = m
      BY DEF Carries, m
    <3>6. \A n \in Message : Tried(n)' <=> n # m /\ Tried(n)
      BY <3>1, <3>4, <3>5 DEF Tried
    <3>7. \A n \in Message : \A u, v \in Workers : Carries(u, n)' /\ Carries(v, n)' => u = v
      BY <3>4 DEF OnePlace
    <3>8. CASE pushed' = pushed
      <4>1. \A n \in Message : IsPushed(n)' <=> IsPushed(n)
        BY <3>8 DEF IsPushed
      <4>2. \A n \in Message : \A i, j \in 1..Len(pushed') : pushed'[i] = n /\ pushed'[j] = n => i = j
        BY <3>8 DEF OnePlace
      <4>3. pushed' # Append(pushed, m)
        BY <2>1, <3>3, <3>8
      <4>4. QED
        BY <2>1, <3>1, <3>3, <3>6, <3>7, <4>1, <4>2, <4>3 DEF OnePlace
    <3>9. CASE pushed' = Append(pushed, m) /\ UNCHANGED <<filtered, delayed>>
      <4>1. /\ Len(pushed') = Len(pushed) + 1 /\ Len(pushed) \in Nat
            /\ \A i \in 1..Len(pushed) : pushed'[i] = pushed[i]
            /\ pushed'[Len(pushed) + 1] = m
        BY <2>1, <3>3, <3>9, AppendProperties, LenProperties
      <4>2. \A n \in Message : IsPushed(n)' <=> n = m \/ IsPushed(n)
        BY <4>1 DEF IsPushed
      <4>3. ~IsPushed(m)
        BY <2>1, <3>1 DEF OnePlace
      <4>4. \A n \in Message : \A i, j \in 1..Len(pushed') :
              pushed'[i] = n /\ pushed'[j] = n => i = j
        BY <2>1, <4>1, <4>3 DEF IsPushed, OnePlace
      <4>5. QED
        BY <2>1, <3>1, <3>6, <3>7, <3>9, <4>2, <4>3, <4>4 DEF OnePlace
    <3>10. QED
      BY <3>3, <3>8, <3>9
  \* The others: nothing changes hands.
  <2>3. ASSUME TryLock(w) \/ GiveUp(w) \/ Count(w) \/ Store(w) \/ Notify(w) PROVE OnePlace'
    <3>1. UNCHANGED <<delayed, logged, filtered, pushed>>
      BY <2>3 DEF TryLock, GiveUp, Count, Store, Notify
    <3>2. CASE TryLock(w)
      <4>1. PICK pc \in {"refused", "holding"} : worker' = [worker EXCEPT ![w].pc = pc]
        BY <3>2 DEF TryLock
      <4>2. /\ worker'[w].msg = worker[w].msg /\ worker'[w].pc \in {"refused", "holding"}
            /\ worker[w].pc = "try"
            /\ \A v \in Workers : v = w \/ worker'[v] = worker[v]
        BY <1>0, <3>2, <4>1 DEF TryLock
      <4>3. \A v \in Workers : \A n \in Message : Carries(v, n)' <=> Carries(v, n)
        BY <4>2 DEF Carries
      <4>4. QED
        BY <3>1, <4>3, PlaceKept
    <3>3. CASE GiveUp(w) \/ Count(w) \/ Store(w) \/ Notify(w)
      <4>1. \/ worker' = worker
            \/ /\ worker[w].pc \in {"count", "store", "notify"}
               /\ worker'[w].pc \in {"store", "notify", "idle"}
               /\ \A v \in Workers : v = w \/ worker'[v] = worker[v]
        BY <1>0, <3>3 DEF GiveUp, Count, Store, Notify
      <4>2. \A v \in Workers : \A n \in Message : Carries(v, n)' <=> Carries(v, n)
        BY <4>1 DEF Carries
      <4>3. QED
        BY <3>1, <4>2, PlaceKept
    <3>4. QED
      BY <2>3, <3>2, <3>3
  <2>4. QED
    BY <1>4, <2>2, <2>3 DEF Attempt
<1>5. QED
  BY <1>1, <1>2, <1>3, <1>4, AttemptChanges

\* However often the lock is taken and a retry thread is started, every message ever
\* logged is somewhere, a sleeping retry included, and never in two places or pushed twice.
THEOREM PlaceCorrect == Spec => []OnePlace
<1>1. Init => TypeInv /\ SourceInv /\ OnePlace
  BY TypeInit, SourceInit, PlaceInit
<1>2. TypeInv /\ SourceInv /\ OnePlace /\ [Next]_vars => (TypeInv /\ SourceInv /\ OnePlace)'
  BY TypeStep, SourceStep, PlaceStep
<1>3. QED
  BY <1>1, <1>2, PTL DEF Spec
=============================================================================
