----------------------------- MODULE FileProofs -----------------------------
(***************************************************************************)
(* Theorems about FileChannel for every number of descriptors, threads,    *)
(* lines, attempts and failures.                                           *)
(***************************************************************************)
EXTENDS FileChannel, TLAPS

USE DEF Fds, Ids, Lines, Nobody, HubCall, At, Goes

LEMMA Bounds ==
  /\ MaxLines \in Nat /\ MaxFd \in Nat /\ MaxThreads \in Nat
  /\ MaxReconnects \in Nat /\ MaxFails \in Nat /\ MaxFd > 0 /\ MaxThreads > 0
BY FileAssumption

-----------------------------------------------------------------------------
(* Types.                                                                  *)

LEMMA ThreadValues ==
  /\ Idle \in Thread
  /\ \A pc \in {"activate", "enter", "begin"}, c \in Ids \cup {Nobody, HubCall} :
       Call(pc, c) \in Thread
  /\ \A n \in Fds \cup {-1} : Poller(n) \in Thread
BY DEF Idle, Call, Poller, Thread

LEMMA NoThreadsType == NoThreads \in [Ids -> Thread]
BY ThreadValues DEF NoThreads

\* The threads stay threads however a task or a call of reconnect() ends.
LEMMA EndedType ==
  ASSUME NEW ts \in [Ids -> Thread], NEW t \in Ids
  PROVE  Ended(ts, t) \in [Ids -> Thread]
BY ThreadValues DEF Ended, Thread

LEMMA ReturnedType ==
  ASSUME threads \in [Ids -> Thread], NEW t \in Ids
  PROVE  Returned(t) \in [Ids -> Thread]
<1>1. [threads EXCEPT ![t] = Idle] \in [Ids -> Thread]
  BY ThreadValues
<1>2. QED
  BY <1>1, EndedType DEF Returned

LEMMA GoesType ==
  ASSUME threads \in [Ids -> Thread], NEW t \in Ids,
         NEW pc \in {"none", "activate", "start", "within", "enter", "close", "after",
                     "begin", "test", "select", "ready"}
  PROVE  [threads EXCEPT ![t].pc = pc] \in [Ids -> Thread]
BY DEF Thread

LEMMA TypeInit == Init => TypeOK
<1> SUFFICES ASSUME Init PROVE TypeOK
  OBVIOUS
<1>1. threads \in [Ids -> Thread]
  BY ThreadValues DEF Init
<1>2. death \in {"no", "activate", "joinable", "attempts", "read", "freed"}
  BY DEF Init
<1>3. fd \in Fds \cup {-1} /\ attempts \in Nat
  BY DEF Init
<1>4. /\ met \subseteq open /\ open \subseteq Fds
      /\ data \subseteq Lines /\ owed \subseteq Lines
  BY Bounds DEF Init
<1>5. fails \in 0..MaxFails
  BY Bounds DEF Init
<1>6. /\ alive \in BOOLEAN /\ freed \in BOOLEAN /\ late \in BOOLEAN
      /\ pipeRunning \in BOOLEAN /\ handle \in BOOLEAN /\ writer \in BOOLEAN
  BY DEF Init
<1>7. QED
  BY <1>1, <1>2, <1>3, <1>4, <1>5, <1>6 DEF TypeOK

LEMMA TypeStep == TypeOK /\ [Next]_vars => TypeOK'
<1> SUFFICES ASSUME TypeOK, [Next]_vars PROVE TypeOK'
  OBVIOUS
<1> USE DEF TypeOK, process, own, flags, fifo
<1>0. CASE UNCHANGED vars
  BY <1>0 DEF vars
<1>1. CASE WriterOpens
  BY <1>1, Bounds DEF WriterOpens, Outside
<1>2. CASE Write
  BY <1>2, Bounds DEF Write, Outside
<1>3. CASE WriterCloses
  BY <1>3 DEF WriterCloses, Outside, Kept
<1>4. CASE HubDies \/ Destroy
  <2>1. late' \in BOOLEAN
    BY <1>4 DEF HubDies, Destroy
  <2>2. UNCHANGED <<threads, fifo, owed, fails, death>>
    BY <1>4 DEF HubDies, Destroy
  <2>3. alive' \in BOOLEAN /\ freed' \in BOOLEAN /\ pipeRunning' \in BOOLEAN /\ handle' \in BOOLEAN
    BY <1>4 DEF HubDies, Destroy
  <2>4. fd' \in Fds \cup {-1} /\ attempts' \in Nat
    <3>1. CASE HubDies
      <4>1. fd' = fd /\ attempts' = attempts
        BY <3>1 DEF HubDies
      <4>2. QED
        BY <4>1
    <3>2. CASE Destroy
      <4>1. fd' = -1 /\ attempts' = 0
        BY <3>2 DEF Destroy
      <4>2. QED
        BY <4>1
    <3>3. QED
      BY <1>4, <3>1, <3>2
  <2>5. QED
    BY <2>1, <2>2, <2>3, <2>4
<1>5. ASSUME NEW t \in Ids, OpenPipe(t) PROVE TypeOK'
  BY <1>5, GoesType DEF OpenPipe
<1>6. ASSUME NEW t \in Ids, OpenFails(t) PROVE TypeOK'
  <2>1. fails' \in 0..MaxFails /\ fd' = -1
    BY <1>6, Bounds DEF OpenFails
  <2>2. threads' \in [Ids -> Thread]
    BY <1>6, GoesType DEF OpenFails
  <2>3. UNCHANGED <<process, attempts, flags, fifo, owed>>
    BY <1>6 DEF OpenFails
  <2>4. QED
    BY <2>1, <2>2, <2>3
<1>7. ASSUME NEW t \in Ids, MkfifoFails(t) PROVE TypeOK'
  BY <1>7, EndedType, NoThreadsType, Bounds DEF MkfifoFails
<1>8. ASSUME NEW t \in Ids, StartPolling(t) PROVE TypeOK'
  <2>1. threads' \in [Ids -> Thread]
    <3>1. Ended(threads, t) \in [Ids -> Thread] /\ Call("begin", Nobody) \in Thread
      BY <1>8, EndedType, ThreadValues DEF StartPolling
    <3>2. QED
      BY <1>8, <3>1, NoThreadsType DEF StartPolling
  <2>2. QED
    BY <1>8, <2>1 DEF StartPolling
<1>9. ASSUME NEW t \in Ids, ReconnectWithin(t) PROVE TypeOK'
  <2>1. [threads EXCEPT ![t].pc = "within"] \in [Ids -> Thread] /\ Call("enter", t) \in Thread
    BY ThreadValues, GoesType
  <2>2. threads' \in [Ids -> Thread]
    BY <1>9, <2>1 DEF ReconnectWithin
  <2>3. QED
    BY <1>9, <2>2 DEF ReconnectWithin
<1>10. ASSUME NEW t \in Ids, NoThread(t) PROVE TypeOK'
  BY <1>10, EndedType DEF NoThread
<1>11. ASSUME NEW t \in Ids, PollBegins(t) PROVE TypeOK'
  BY <1>11, ThreadValues DEF PollBegins
<1>12. ASSUME NEW t \in Ids, Abort(t) \/ GiveUp(t) PROVE TypeOK'
  BY <1>12, ReturnedType, NoThreadsType DEF Abort, GiveUp
<1>13. ASSUME NEW t \in Ids, StopPolling(t) PROVE TypeOK'
  BY <1>13, GoesType DEF StopPolling
<1>14. ASSUME NEW t \in Ids, Disconnect(t) PROVE TypeOK'
  BY <1>14, GoesType DEF Disconnect, Close, Kept
<1>15. ASSUME NEW t \in Ids, Succeeded(t) PROVE TypeOK'
  BY <1>15, ReturnedType DEF Succeeded
<1>16. ASSUME NEW t \in Ids, Retry(t) PROVE TypeOK'
  <2>1. threads' \in [Ids -> Thread]
    BY <1>16, ReturnedType, ThreadValues DEF Retry
  <2>2. QED
    BY <1>16, <2>1 DEF Retry
<1>17. ASSUME NEW t \in Ids, PollEnds(t) \/ PollTests(t) PROVE TypeOK'
  <2>1. threads' \in [Ids -> Thread]
    <3>1. CASE PollEnds(t)
      BY <3>1, ThreadValues DEF PollEnds
    <3>2. CASE PollTests(t)
      BY <3>2, ThreadValues, GoesType DEF PollTests
    <3>3. QED
      BY <1>17, <3>1, <3>2
  <2>2. UNCHANGED <<process, own, flags, fifo, owed, fails>>
    BY <1>17 DEF PollEnds, PollTests
  <2>3. QED
    BY <2>1, <2>2
<1>18. ASSUME NEW t \in Ids, PollTimesOut(t) \/ PollWakes(t) \/ PollSkips(t) PROVE TypeOK'
  <2>1. PICK pc \in {"test", "ready"} : Goes(t, pc)
    BY <1>18 DEF PollTimesOut, PollWakes, PollSkips
  <2>2. threads' \in [Ids -> Thread]
    BY <2>1, GoesType
  <2>3. UNCHANGED <<process, own, flags, fifo, owed, fails>>
    BY <1>18 DEF PollTimesOut, PollWakes, PollSkips
  <2>4. QED
    BY <2>2, <2>3
<1>19. ASSUME NEW t \in Ids, PollRead(t) PROVE TypeOK'
  BY <1>19, GoesType DEF PollRead
<1>20. ASSUME NEW t \in Ids, PollFails(t) PROVE TypeOK'
  BY <1>20, ThreadValues DEF PollFails
<1>21. ASSUME NEW t \in Ids, ShortRead(t) \/ TouchFreed(t) PROVE TypeOK'
  BY <1>21, NoThreadsType DEF ShortRead, TouchFreed
<1>22. QED
  BY <1>0, <1>1, <1>2, <1>3, <1>4, <1>5, <1>6, <1>7, <1>8, <1>9, <1>10, <1>11, <1>12, <1>13,
     <1>14, <1>15, <1>16, <1>17, <1>18, <1>19, <1>20, <1>21 DEF Next, Step

\* Each variable keeps its type, whoever reconnects, hangs up or dies.
THEOREM TypeCorrect == Spec => []TypeOK
<1>1. QED
  BY TypeInit, TypeStep, PTL DEF Spec

-----------------------------------------------------------------------------
(* Lines.                                                                  *)

\* While a line is owed nothing of the channel goes on but one thread that polls an
\* open descriptor; or that has ended, and then no descriptor is closed any more.
Attended ==
  /\ open # {}
  /\ \A t \in Ids : threads[t].pc \in {"none", "test", "select", "ready"}
  /\ \A t \in Polling : threads[t].fd \in open

KeptInv == owed # {} => Attended

LEMMA KeptInit == Init => LinesKept /\ KeptInv
BY DEF Init, LinesKept, KeptInv

LEMMA KeptStep == TypeOK /\ LinesKept /\ KeptInv /\ [Next]_vars => (LinesKept /\ KeptInv)'
<1> SUFFICES ASSUME TypeOK, LinesKept, KeptInv, [Next]_vars PROVE (LinesKept /\ KeptInv)'
  OBVIOUS
<1> USE DEF TypeOK, LinesKept, KeptInv, Attended, Polling, process, own, flags, fifo
<1>0. CASE UNCHANGED vars
  BY <1>0 DEF vars
<1>1. CASE WriterOpens
  BY <1>1 DEF WriterOpens, Outside
<1>2. CASE Write
  <2>1. CASE Settled
    <3>1. PICK t \in Polling : threads[t].fd \in open /\ Unused = Ids \ {t}
      BY <2>1 DEF Settled
    <3>2. \A u \in Ids : u # t => threads[u].pc = "none"
      BY <3>1 DEF Unused
    <3>3. Attended
      BY <1>2, <3>1, <3>2 DEF Write
    <3>4. QED
      BY <1>2, <3>3 DEF Write, Outside
  <2>2. CASE ~Settled
    BY <1>2, <2>2 DEF Write, Outside
  <2>3. QED
    BY <2>1, <2>2
<1>3. CASE WriterCloses
  BY <1>3 DEF WriterCloses, Outside, Kept
<1>4. CASE HubDies \/ Destroy
  BY <1>4 DEF HubDies, Destroy
<1>5. ASSUME NEW t \in Ids,
             OpenPipe(t) \/ OpenFails(t) \/ MkfifoFails(t) \/ StartPolling(t)
               \/ ReconnectWithin(t) \/ NoThread(t) \/ Abort(t) \/ GiveUp(t)
               \/ StopPolling(t) \/ Disconnect(t) \/ Succeeded(t) \/ Retry(t) \/ PollBegins(t)
      PROVE  (LinesKept /\ KeptInv)'
  <2>1. threads[t].pc \notin {"none", "test", "select", "ready"}
    BY <1>5 DEF OpenPipe, OpenFails, MkfifoFails, StartPolling, ReconnectWithin, NoThread,
       Abort, GiveUp, StopPolling, Disconnect, Succeeded, Retry, PollBegins
  <2>2. owed = {}
    BY <2>1
  <2>3. owed' = owed
    BY <1>5 DEF OpenPipe, OpenFails, MkfifoFails, StartPolling, ReconnectWithin, NoThread,
       Abort, GiveUp, StopPolling, Disconnect, Succeeded, Retry, PollBegins
  <2>4. QED
    BY <2>2, <2>3
<1>6. ASSUME NEW t \in Ids,
             PollTests(t) \/ PollEnds(t) \/ PollTimesOut(t) \/ PollWakes(t) \/ PollSkips(t)
      PROVE  (LinesKept /\ KeptInv)'
  <2>1. UNCHANGED <<open, data, owed>>
    BY <1>6 DEF PollTests, PollEnds, PollTimesOut, PollWakes, PollSkips
  <2>2. \A u \in Ids : \/ threads'[u] = threads[u]
                      \/ threads'[u].pc = "none"
                      \/ /\ threads[u].pc \in {"test", "select", "ready"}
                         /\ threads'[u].pc \in {"test", "select", "ready"}
                         /\ threads'[u].fd = threads[u].fd
    <3>1. CASE threads' = [threads EXCEPT ![t] = Idle]
      BY <3>1 DEF Idle
    <3>2. CASE \E pc \in {"test", "select", "ready"} :
                 threads' = [threads EXCEPT ![t].pc = pc] /\ threads[t].pc \in {"test", "select", "ready"}
      BY <3>2 DEF Thread
    <3>3. CASE PollTests(t)
      BY <3>3, <3>1, <3>2 DEF PollTests
    <3>4. CASE PollEnds(t)
      BY <3>4, <3>1 DEF PollEnds
    <3>5. CASE PollTimesOut(t)
      BY <3>5, <3>2 DEF PollTimesOut
    <3>6. CASE PollWakes(t)
      BY <3>6, <3>2 DEF PollWakes
    <3>7. CASE PollSkips(t)
      BY <3>7, <3>2 DEF PollSkips
    <3>8. QED
      BY <1>6, <3>3, <3>4, <3>5, <3>6, <3>7
  <2>3. QED
    BY <2>1, <2>2
<1>7. ASSUME NEW t \in Ids, PollRead(t) PROVE (LinesKept /\ KeptInv)'
  BY <1>7 DEF PollRead
<1>8. ASSUME NEW t \in Ids, PollFails(t) PROVE (LinesKept /\ KeptInv)'
  <2>1. owed = {}
    BY <1>8 DEF PollFails
  <2>2. QED
    BY <1>8, <2>1 DEF PollFails
<1>9. ASSUME NEW t \in Ids, ShortRead(t) \/ TouchFreed(t) PROVE (LinesKept /\ KeptInv)'
  <2>1. UNCHANGED <<open, data, owed>> /\ \A u \in Ids : threads'[u].pc = "none"
    <3>1. UNCHANGED <<open, data, owed>> /\ threads' = NoThreads
      BY <1>9 DEF ShortRead, TouchFreed
    <3>2. \A u \in Ids : NoThreads[u].pc = "none"
      BY DEF NoThreads, Idle
    <3>3. QED
      BY <3>1, <3>2
  <2>2. QED
    BY <2>1
<1>10. QED
  BY <1>0, <1>1, <1>2, <1>3, <1>4, <1>5, <1>6, <1>7, <1>8, <1>9 DEF Next, Step

\* A line written to a channel at rest is read before the descriptor is closed.
THEOREM SettledLinesKept == Spec => []LinesKept
<1>1. QED
  BY TypeInit, TypeStep, KeptInit, KeptStep, PTL DEF Spec

-----------------------------------------------------------------------------
(* The end.                                                                *)

\* A hub that died while its channel's threads all waited in select() leaves none that
\* will ever do anything but end.
QuietInv ==
  /\ freed => ~alive
  /\ ~alive /\ ~late => \A t \in Ids : Quiet(t)

LEMMA QuietInit == Init => OnlyLateAreLost /\ QuietInv
BY DEF Init, OnlyLateAreLost, QuietInv, Quiet

LEMMA QuietStep ==
  TypeOK /\ OnlyLateAreLost /\ QuietInv /\ [Next]_vars => (OnlyLateAreLost /\ QuietInv)'
<1> SUFFICES ASSUME TypeOK, OnlyLateAreLost, QuietInv, [Next]_vars
             PROVE  (OnlyLateAreLost /\ QuietInv)'
  OBVIOUS
<1> USE DEF TypeOK, OnlyLateAreLost, QuietInv, Quiet, process, own, flags, fifo
<1>0. CASE UNCHANGED vars
  BY <1>0 DEF vars
<1>1. CASE WriterOpens \/ Write \/ WriterCloses
  <2>1. UNCHANGED <<alive, freed, death, late, threads>>
    BY <1>1 DEF WriterOpens, Write, WriterCloses, Outside
  <2>2. QED
    BY <2>1
<1>2. CASE HubDies
  BY <1>2 DEF HubDies
<1>3. CASE Destroy
  BY <1>3 DEF Destroy
<1>4. ASSUME NEW t \in Ids,
             OpenPipe(t) \/ OpenFails(t) \/ MkfifoFails(t) \/ StartPolling(t)
               \/ ReconnectWithin(t) \/ NoThread(t) \/ Abort(t) \/ GiveUp(t)
               \/ StopPolling(t) \/ Disconnect(t) \/ Succeeded(t) \/ Retry(t)
               \/ PollBegins(t) \/ PollTests(t) \/ PollSkips(t) \/ PollRead(t) \/ PollFails(t)
      PROVE  (OnlyLateAreLost /\ QuietInv)'
  <2>1. /\ threads[t].pc \notin {"none", "select"} /\ death' # "freed"
        /\ UNCHANGED <<alive, freed, late>>
    BY <1>4 DEF OpenPipe, OpenFails, MkfifoFails, StartPolling, ReconnectWithin, NoThread,
       Abort, GiveUp, StopPolling, Disconnect, Succeeded, Retry, PollBegins, PollTests, PollSkips,
       PollRead, PollFails
  <2>2. QED
    BY <2>1
<1>5. ASSUME NEW t \in Ids, PollEnds(t) PROVE (OnlyLateAreLost /\ QuietInv)'
  BY <1>5 DEF PollEnds, Idle
<1>6. ASSUME NEW t \in Ids, PollTimesOut(t) \/ PollWakes(t) PROVE (OnlyLateAreLost /\ QuietInv)'
  BY <1>6 DEF PollTimesOut, PollWakes
<1>7. ASSUME NEW t \in Ids, ShortRead(t) PROVE (OnlyLateAreLost /\ QuietInv)'
  BY <1>7 DEF ShortRead
<1>8. ASSUME NEW t \in Ids, TouchFreed(t) PROVE (OnlyLateAreLost /\ QuietInv)'
  BY <1>8 DEF TouchFreed
<1>9. QED
  BY <1>0, <1>1, <1>2, <1>3, <1>4, <1>5, <1>6, <1>7, <1>8 DEF Next, Step

\* Destroying the channel under its threads is dangerous only if, when the hub died, one
\* of them was not waiting in select(): just started, between two rounds, or reconnecting.
THEOREM LateThreadsOnly == Spec => []OnlyLateAreLost
<1>1. QED
  BY TypeInit, TypeStep, QuietInit, QuietStep, PTL DEF Spec
=============================================================================
