---------------------------- MODULE ChannelProofs ---------------------------
(***************************************************************************)
(* Theorems about Channel, for any number of channels, descriptors,        *)
(* threads and attempts: the types; and, for as long as the system hands   *)
(* no channel a descriptor number that another still remembers, that one   *)
(* thread at a time keeps each channel, that only exhausted attempts end   *)
(* the process, that no working connection is taken down and that nobody   *)
(* waits for a closed descriptor.  A channel alone in its process needs no *)
(* such premise; and no channel needs it to keep, for good, a thread that  *)
(* polls or reconnects.                                                    *)
(***************************************************************************)
EXTENDS Channel, WellFoundedInduction, FiniteSetTheorems, TLAPS

USE DEF Fds, Ids, Nobody, HubCall, process, files, flags, At, Goes

-----------------------------------------------------------------------------
(* Descriptors and threads.                                                *)

Less == {p \in Nat \X Nat : p[1] < p[2]}

\* A number is chosen as the least of its kind: there is one.
LEMMA LeastExists ==
  ASSUME NEW S \in SUBSET Nat, S # {}
  PROVE  \E x \in S : \A y \in S : x <= y
<1>1. IsWellFoundedOn(Less, Nat)
  BY NatLessThanWellFounded DEF OpToRel, Less
<1>2. PICK x \in S : \A y \in S : ~(<<y, x>> \in Less)
  BY <1>1, WFMin
<1>3. \A y \in S : ~(y < x)
  BY <1>2 DEF Less
<1>4. QED
  BY <1>3

LEMMA Bounds == MaxFd \in Nat /\ MaxThreads \in Nat /\ MaxReconnects \in Nat /\ MaxBreaks \in Nat
BY ChannelAssumption

LEMMA LowestIsFree == FreeFds # {} => LowestFree \in Fds /\ table[LowestFree] = "free"
<1> SUFFICES ASSUME FreeFds # {} PROVE LowestFree \in FreeFds
  BY DEF FreeFds
<1>1. FreeFds \in SUBSET Nat
  BY Bounds DEF FreeFds
<1>2. \E n \in FreeFds : \A m \in FreeFds : n <= m
  BY <1>1, LeastExists
<1>3. QED
  BY <1>2 DEF LowestFree

LEMMA NewIsUnused == Unused # {} => NewThread \in Ids /\ threads[NewThread].pc = "none"
<1> SUFFICES ASSUME Unused # {} PROVE NewThread \in Unused
  BY DEF Unused
<1>1. Unused \in SUBSET Nat
  BY Bounds DEF Unused
<1>2. \E t \in Unused : \A u \in Unused : t <= u
  BY <1>1, LeastExists
<1>3. QED
  BY <1>2 DEF NewThread

-----------------------------------------------------------------------------
(* Types.                                                                  *)

Pcs == {"none", "sleep", "enter", "stop", "close", "activate", "ready", "register",
        "launch", "within", "setActive", "after", "select"}
Callers == Ids \cup {Nobody, HubCall}
Thread == [pc : Pcs, ch : Channels, readFd : Fds \cup {-1}, caller : Callers]

LEMMA ThreadValues ==
  /\ Idle \in Thread
  /\ \A pc \in Pcs, c \in Channels, u \in Callers : Call(pc, c, u) \in Thread
  /\ \A c \in Channels, n \in Fds : Poller(c, n) \in Thread
BY ChannelAssumption DEF Idle, Call, Poller, Thread, Callers, Pcs

LEMMA ThreadUpdate ==
  ASSUME NEW ts \in [Ids -> Thread], NEW t, NEW pc \in Pcs, NEW x \in Thread
  PROVE  [ts EXCEPT ![t].pc = pc] \in [Ids -> Thread] /\ [ts EXCEPT ![t] = x] \in [Ids -> Thread]
<1>1. CASE t \in Ids
  <2>1. [ts[t] EXCEPT !.pc = pc] \in Thread
    BY <1>1 DEF Thread
  <2>2. QED
    BY <1>1, <2>1
<1>2. CASE t \notin Ids
  BY <1>2
<1>3. QED
  BY <1>1, <1>2

LEMMA ReturnedType ==
  ASSUME threads \in [Ids -> Thread], NEW t \in Ids
  PROVE  Returned(t) \in [Ids -> Thread]
<1>1. [threads EXCEPT ![t] = Idle] \in [Ids -> Thread]
  BY ThreadValues, ThreadUpdate DEF Pcs
<1>2. [[threads EXCEPT ![t] = Idle] EXCEPT ![threads[t].caller].pc = "setActive"] \in [Ids -> Thread]
  BY <1>1, ThreadUpdate, ThreadValues DEF Pcs
<1>3. QED
  BY <1>1, <1>2 DEF Returned

LEMMA ActivateEndsType ==
  ASSUME threads \in [Ids -> Thread], NEW t \in Ids, ActivateEnds(t)
  PROVE  threads' \in [Ids -> Thread]
<1>1. [threads EXCEPT ![t] = Idle] \in [Ids -> Thread]
  BY ThreadValues, ThreadUpdate DEF Pcs
<1>2. [threads EXCEPT ![t].pc = "after"] \in [Ids -> Thread]
  BY ThreadValues, ThreadUpdate DEF Pcs
<1>3. QED
  BY <1>1, <1>2 DEF ActivateEnds

\* TypeOK, apart from the threads.
FileType ==
  /\ table \in [Fds -> Channels \cup {"free"}]
  /\ broken \subseteq {n \in Fds : table[n] # "free"} /\ breaks \in 0..MaxBreaks
  /\ dropping \subseteq Channels /\ calm \in BOOLEAN /\ apart \in BOOLEAN
  /\ fd \in [Channels -> Fds \cup {-1}]

FlagType ==
  /\ alive \in BOOLEAN /\ death \in {"no", "attempts", "joinable", "read", "pipe"}
  /\ attempts \in [Channels -> Nat]
  /\ active \in [Channels -> BOOLEAN] /\ pipeRunning \in [Channels -> BOOLEAN]
  /\ handle \in [Channels -> BOOLEAN]

TypeInv == FileType /\ FlagType /\ threads \in [Ids -> Thread]

LEMMA TypeIsInv == TypeOK <=> TypeInv
BY DEF TypeOK, TypeInv, FileType, FlagType, Thread, Pcs, Callers

LEMMA TypeInit == Init => TypeInv
<1> SUFFICES ASSUME Init PROVE TypeInv
  OBVIOUS
<1>1. FileType
  BY Bounds DEF Init, FileType
<1>2. FlagType
  BY DEF Init, FlagType
<1>3. threads \in [Ids -> Thread]
  <2> SUFFICES ASSUME NEW t \in Ids
               PROVE  (IF \E c \in Channels : First[c] = t
                         THEN Call("activate", CHOOSE c \in Channels : First[c] = t, HubCall)
                         ELSE Idle) \in Thread
    BY DEF Init
  <2>1. CASE \E c \in Channels : First[c] = t
    <3>1. (CHOOSE c \in Channels : First[c] = t) \in Channels
      BY <2>1
    <3>2. QED
      BY <2>1, <3>1, ThreadValues DEF Pcs, Callers
  <2>2. QED
    BY <2>1, ThreadValues
<1>4. QED
  BY <1>1, <1>2, <1>3 DEF TypeInv

LEMMA ReconnectType ==
  ASSUME TypeInv, NEW t \in Ids,
         Wake(t) \/ Abort(t) \/ GiveUp(t) \/ Proceed(t) \/ StopPolling(t) \/ Disconnect(t)
           \/ Succeeded(t) \/ Retry(t)
  PROVE  TypeInv'
<1> USE DEF TypeInv
<1>1. CASE Wake(t) \/ Proceed(t)
  <2>1. /\ [threads EXCEPT ![t].pc = "enter"] \in [Ids -> Thread]
        /\ [threads EXCEPT ![t].pc = "stop"] \in [Ids -> Thread]
    BY ThreadUpdate, ThreadValues DEF Pcs
  <2>2. QED
    BY <1>1, <2>1 DEF Wake, Proceed, FileType, FlagType
<1>2. CASE Abort(t)
  <2>1. threads' \in [Ids -> Thread]
    BY <1>2, ReturnedType DEF Abort
  <2>2. QED
    BY <1>2, <2>1 DEF Abort, FileType, FlagType
<1>3. CASE GiveUp(t)
  <2> DEFINE u == threads[t].caller
             x == IF [threads EXCEPT ![t] = Idle][u].caller = HubCall
                    THEN Idle ELSE [[threads EXCEPT ![t] = Idle][u] EXCEPT !.pc = "after"]
  <2>1. [threads EXCEPT ![t] = Idle] \in [Ids -> Thread]
    BY ThreadUpdate, ThreadValues DEF Pcs
  <2>2. u \in Ids => x \in Thread
    BY <2>1, ThreadValues DEF Thread, Pcs
  <2>3. u \in Ids => [[threads EXCEPT ![t] = Idle] EXCEPT ![u] = x] \in [Ids -> Thread]
    BY <2>1, <2>2
  <2>4. threads' \in [Ids -> Thread]
    BY <1>3, <2>3 DEF GiveUp
  <2>5. FileType' /\ FlagType'
    BY <1>3 DEF GiveUp, FileType, FlagType
  <2>6. QED
    BY <2>4, <2>5
<1>4. CASE StopPolling(t)
  <2>1. threads' \in [Ids -> Thread]
    BY <1>4, ThreadUpdate, ThreadValues DEF StopPolling, Pcs
  <2>2. threads[t].ch \in Channels
    BY DEF Thread
  <2>3. QED
    BY <1>4, <2>1, <2>2 DEF StopPolling, FileType, FlagType
<1>5. CASE Disconnect(t)
  <2>1. threads' \in [Ids -> Thread]
    BY <1>5, ThreadUpdate, ThreadValues DEF Disconnect, Pcs
  <2>2. QED
    BY <1>5, <2>1 DEF Disconnect, CloseFd, FileType, FlagType
<1>6. CASE Succeeded(t)
  <2>1. threads' \in [Ids -> Thread]
    BY <1>6, ReturnedType DEF Succeeded
  <2>2. QED
    BY <1>6, <2>1 DEF Succeeded, FileType, FlagType
<1>7. CASE Retry(t)
  <2>1. threads[t].ch \in Channels
    BY DEF Thread
  <2>2. Call("sleep", threads[t].ch, Nobody) \in Thread
    BY <2>1, ThreadValues DEF Pcs, Callers
  <2>3. [Returned(t) EXCEPT ![NewThread] = Call("sleep", threads[t].ch, Nobody)] \in [Ids -> Thread]
    BY <2>2, ReturnedType, ThreadUpdate DEF Pcs
  <2>4. [threads EXCEPT ![t].pc = "sleep"] \in [Ids -> Thread]
    BY ThreadUpdate, ThreadValues DEF Pcs
  <2>5. threads' \in [Ids -> Thread]
    BY <1>7, <2>3, <2>4 DEF Retry
  <2>6. FileType' /\ FlagType'
    BY <1>7, <2>1 DEF Retry, FileType, FlagType
  <2>7. QED
    BY <2>5, <2>6
<1>8. QED
  BY <1>1, <1>2, <1>3, <1>4, <1>5, <1>6, <1>7

LEMMA ActivateType ==
  ASSUME TypeInv, NEW t \in Ids,
         AlreadyActive(t) \/ Connected(t) \/ NotConnected(t) \/ Ready(t) \/ Register(t)
           \/ StartPolling(t) \/ ReconnectWithin(t) \/ SetActive(t)
  PROVE  TypeInv'
<1> USE DEF TypeInv
<1>0. threads[t].ch \in Channels
  BY DEF Thread
<1>1. CASE AlreadyActive(t)
  <2>1. threads' \in [Ids -> Thread]
    BY <1>1, ActivateEndsType DEF AlreadyActive
  <2>2. QED
    BY <1>1, <2>1 DEF AlreadyActive, FileType, FlagType
<1>2. CASE Connected(t)
  <2>1. LowestFree \in Fds
    BY <1>2, LowestIsFree DEF Connected
  <2>2. threads' \in [Ids -> Thread]
    BY <1>2, ThreadUpdate, ThreadValues DEF Connected, Pcs
  <2>3. FileType'
    BY <1>0, <1>2, <2>1, ChannelAssumption DEF Connected, FileType
  <2>4. FlagType'
    BY <1>2 DEF Connected, FlagType
  <2>5. QED
    BY <2>2, <2>3, <2>4
<1>3. CASE NotConnected(t)
  <2>1. threads' \in [Ids -> Thread]
    BY <1>3, ActivateEndsType DEF NotConnected
  <2>2. FreeFds # {} => LowestFree \in Fds
    BY LowestIsFree
  <2>3. FileType'
    BY <1>0, <1>3, <2>2, ChannelAssumption DEF NotConnected, FileType
  <2>4. FlagType'
    BY <1>3 DEF NotConnected, FlagType
  <2>5. QED
    BY <2>1, <2>3, <2>4
<1>4. CASE Register(t)
  <2>1. [threads EXCEPT ![t].pc = "launch"] \in [Ids -> Thread]
    BY ThreadUpdate, ThreadValues DEF Pcs
  <2>2. threads' \in [Ids -> Thread]
    BY <1>4, <2>1, ActivateEndsType DEF Register
  <2>3. QED
    BY <1>4, <2>2 DEF Register, FileType, FlagType
<1>8. CASE Ready(t)
  <2>1. threads' \in [Ids -> Thread]
    BY <1>8, ThreadUpdate, ThreadValues DEF Ready, Pcs
  <2>2. QED
    BY <1>8, <2>1 DEF Ready, FileType, FlagType
<1>5. CASE StartPolling(t)
  <2>1. fd[threads[t].ch] \in Fds
    BY <1>0, <1>5 DEF StartPolling, FileType
  <2>2. [threads EXCEPT ![t].pc = "setActive"] \in [Ids -> Thread]
    BY ThreadUpdate, ThreadValues DEF Pcs
  <2>3. Poller(threads[t].ch, fd[threads[t].ch]) \in Thread
    BY <1>0, <2>1, ThreadValues
  <2>4. threads' \in [Ids -> Thread]
    BY <1>5, <2>2, <2>3, ThreadUpdate DEF StartPolling, Pcs
  <2>5. FlagType'
    BY <1>0, <1>5 DEF StartPolling, FlagType
  <2>6. QED
    BY <1>5, <2>4, <2>5 DEF StartPolling, FileType
<1>6. CASE ReconnectWithin(t)
  <2>1. [threads EXCEPT ![t].pc = "within"] \in [Ids -> Thread]
    BY ThreadUpdate, ThreadValues DEF Pcs
  <2>2. Call("enter", threads[t].ch, t) \in Thread
    BY <1>0, ThreadValues DEF Pcs, Callers
  <2>3. threads' \in [Ids -> Thread]
    BY <1>6, <2>1, <2>2, ThreadUpdate DEF ReconnectWithin, Pcs
  <2>4. QED
    BY <1>6, <2>3 DEF ReconnectWithin, FileType, FlagType
<1>7. CASE SetActive(t)
  <2>1. threads' \in [Ids -> Thread]
    BY <1>7, ActivateEndsType DEF SetActive
  <2>2. FlagType'
    BY <1>0, <1>7 DEF SetActive, FlagType
  <2>3. QED
    BY <1>7, <2>1, <2>2 DEF SetActive, FileType
<1>9. QED
  BY <1>1, <1>2, <1>3, <1>4, <1>5, <1>6, <1>7, <1>8

LEMMA TypeStep == TypeInv /\ [Next]_vars => TypeInv'
<1> SUFFICES ASSUME TypeInv, [Next]_vars PROVE TypeInv'
  OBVIOUS
<1> USE DEF TypeInv
<1>1. CASE UNCHANGED vars
  BY <1>1 DEF vars, FileType, FlagType
<1>2. ASSUME NEW t \in Ids, Step(t) PROVE TypeInv'
  <2>1. CASE PollEnds(t)
    <3>1. threads' \in [Ids -> Thread]
      BY <2>1, ThreadUpdate, ThreadValues DEF PollEnds, Pcs
    <3>2. QED
      BY <2>1, <3>1 DEF PollEnds, FileType, FlagType
  <2>2. CASE PollFails(t)
    <3>1. Call("enter", threads[t].ch, Nobody) \in Thread
      BY ThreadValues DEF Thread, Pcs, Callers
    <3>2. threads' \in [Ids -> Thread]
      BY <2>2, <3>1, ThreadUpdate DEF PollFails, Pcs
    <3>3. QED
      BY <2>2, <3>2 DEF PollFails, FileType, FlagType
  <2>3. QED
    BY <1>2, <2>1, <2>2, ReconnectType, ActivateType DEF Step
<1>3. ASSUME NEW t \in Ids, ShortRead(t) PROVE TypeInv'
  BY <1>3 DEF ShortRead, FileType, FlagType
<1>4. ASSUME NEW n \in Fds, PeerCloses(n) PROVE TypeInv'
  BY <1>4, Bounds DEF PeerCloses, Disturbs, FileType, FlagType
<1>5. ASSUME NEW c \in Channels, TickDrops(c) PROVE TypeInv'
  <2>1. /\ breaks' \in 0..MaxBreaks /\ dropping' \subseteq Channels
        /\ calm' \in BOOLEAN /\ apart' \in BOOLEAN /\ fd' \in [Channels -> Fds \cup {-1}]
    BY <1>5, Bounds DEF TickDrops, Disturbs, FileType
  <2>2. \/ UNCHANGED <<table, broken>>
        \/ table' = [table EXCEPT ![fd[c]] = "free"] /\ broken' = broken \ {fd[c]}
    BY <1>5 DEF TickDrops, CloseFd
  <2>3. /\ table' \in [Fds -> Channels \cup {"free"}]
        /\ broken' \subseteq {n \in Fds : table'[n] # "free"}
    BY <2>2 DEF FileType
  <2>4. FileType'
    BY <2>1, <2>3 DEF FileType
  <2>5. QED
    BY <1>5, <2>4 DEF TickDrops, FlagType
<1>6. ASSUME NEW c \in Channels, Incoming(c) PROVE TypeInv'
  BY <1>6 DEF Incoming, FileType, FlagType
<1>7. CASE HubDies
  BY <1>7 DEF HubDies, FileType, FlagType
<1>8. ASSUME NEW c \in Channels, TickForgets(c) PROVE TypeInv'
  BY <1>8 DEF TickForgets, Disturbs, FileType, FlagType
<1>9. ASSUME NEW t \in Ids, Interrupted(t) PROVE TypeInv'
  <2>1. Call("enter", threads[t].ch, Nobody) \in Thread
    BY ThreadValues DEF Thread, Pcs, Callers
  <2>2. threads' \in [Ids -> Thread]
    BY <1>9, <2>1, ThreadUpdate DEF Interrupted, Pcs
  <2>3. FlagType'
    BY <1>9 DEF Interrupted, FlagType
  <2>4. FileType'
    <3>1. breaks' = breaks + 1 /\ breaks < MaxBreaks /\ ~calm'
          /\ UNCHANGED <<table, broken, dropping, apart, fd>>
      BY <1>9 DEF Interrupted
    <3>2. breaks' \in 0..MaxBreaks
      BY <3>1, Bounds DEF FileType
    <3>3. calm' \in BOOLEAN
      BY <1>9 DEF Interrupted
    <3>4. QED
      BY <3>1, <3>2, <3>3 DEF FileType
  <2>5. QED
    BY <2>2, <2>3, <2>4
<1>10. QED
  BY <1>1, <1>2, <1>3, <1>4, <1>5, <1>6, <1>7, <1>8, <1>9 DEF Next

\* Each variable keeps its type, for any number of channels that share the descriptors.
THEOREM TypeCorrect == Spec => []TypeOK
<1>1. Spec => []TypeInv
  BY TypeInit, TypeStep, PTL DEF Spec
<1>2. QED
  BY <1>1, TypeIsInv, PTL

-----------------------------------------------------------------------------
(* The invariant: what a channel's call has come to, and what its poll     *)
(* thread reads, while no number is remembered by two channels.            *)

InCall(c, t) == threads[t].ch = c /\ threads[t].pc \notin {"none", "select"}
Polls(c, t)  == threads[t].ch = c /\ threads[t].pc = "select"
NoPoller(c)  == \A u \in Ids : ~Polls(c, u)

Seeks(t)     == threads[t].pc \in {"sleep", "enter", "stop", "close", "activate"}
Connects(t)  == threads[t].pc \in {"ready", "register", "launch"}
Failed(c, t) == threads[t].pc = "after" /\ ~pipeRunning[c]
Done(c, t)   == threads[t].pc = "after" /\ pipeRunning[c]

\* A channel's connection works if the number that it remembers is its own.
Works(c)  == fd[c] > 0 /\ table[fd[c]] = c /\ fd[c] \notin broken
Broken(c) == fd[c] > 0 => table[fd[c]] = "free" \/ fd[c] \in broken

\* While a call is at work, by how far it has come: nobody polls until it has opened a
\* connection that works, and the flags are those of a channel that is not polled.
CallInv(c, t) ==
  /\ Seeks(t) \/ Connects(t) \/ Failed(c, t) => NoPoller(c)
  /\ threads[t].pc \in {"close", "activate"} \/ Connects(t) \/ Failed(c, t) => ~handle[c]
  /\ Seeks(t) \/ Failed(c, t) => Broken(c)
  /\ Connects(t) \/ threads[t].pc = "setActive" \/ Done(c, t) => Works(c)
  /\ threads[t].pc = "setActive" => pipeRunning[c]
  /\ Done(c, t) => active[c]
  /\ threads[t].pc \notin {"sleep", "enter"} => attempts[c] <= MaxReconnects
  /\ threads[t].pc # "within" /\ threads[t].caller \notin Ids

\* A thread polls the descriptor its channel has, for as long as it has it.
PollInv(c, t) ==
  /\ pipeRunning[c]
  /\ active[c] \/ \E u \in Ids : InCall(c, u)
  /\ threads[t].readFd \in Fds
  /\ fd[c] > 0 => threads[t].readFd = fd[c]

OneEach(c) ==
  /\ \A t, u \in Ids : InCall(c, t) /\ InCall(c, u) => t = u
  /\ \A t, u \in Ids : Polls(c, t) /\ Polls(c, u) => t = u

FlagInv(c) ==
  /\ pipeRunning[c] \/ active[c] => handle[c]
  /\ attempts[c] <= MaxReconnects + 1

Kept(c) ==
  /\ OneEach(c) /\ FlagInv(c)
  /\ \A t \in Ids : InCall(c, t) => CallInv(c, t)
  /\ \A t \in Ids : Polls(c, t) => PollInv(c, t)

\* No number is remembered by two channels.
ApartInv == \A c, d \in Channels, n \in Fds : Remembers(c, n) /\ Remembers(d, n) => c = d

\* A number that works is remembered by none but the channel that opened it.
OwnInv == \A c \in Channels, n \in Fds :
  Remembers(c, n) => table[n] \in {"free", c} \/ n \in broken

DeathInv ==
  /\ death \in {"no", "pipe", "attempts"}
  /\ death = "attempts" => \E c \in Channels : attempts[c] = MaxReconnects + 1

KeeperInv ==
  /\ TypeInv
  /\ calm /\ apart => ApartInv /\ OwnInv /\ DeathInv /\ \A c \in Channels : Kept(c)

LEMMA KeeperInit == Init => KeeperInv
<1> SUFFICES ASSUME Init PROVE KeeperInv
  OBVIOUS
<1>1. TypeInv
  BY TypeInit
<1>2. \A t \in Ids : /\ threads[t].pc \in {"none", "activate"}
                     /\ threads[t].pc = "activate" => First[threads[t].ch] = t
                     /\ threads[t].caller \in {Nobody, HubCall}
  BY DEF Init, Call, Idle
<1>3. ASSUME NEW c \in Channels PROVE Kept(c)
  <2>1. OneEach(c)
    BY <1>2 DEF OneEach, InCall, Polls
  <2>2. FlagInv(c)
    BY Bounds DEF Init, FlagInv
  <2>3. NoPoller(c)
    BY <1>2 DEF NoPoller, Polls
  <2>4. ASSUME NEW t \in Ids, InCall(c, t) PROVE CallInv(c, t)
    <3>1. threads[t].pc = "activate" /\ threads[t].caller \notin Ids
      BY <1>2, <2>4, Bounds DEF InCall
    <3>2. ~handle[c] /\ fd[c] = -1 /\ attempts[c] = 0
      BY DEF Init
    <3>3. QED
      BY <2>3, <3>1, <3>2, Bounds DEF CallInv, Seeks, Connects, Failed, Done, Broken
  <2>5. QED
    BY <1>2, <2>1, <2>2, <2>4 DEF Kept, Polls
<1>4. ApartInv
  <2>1. \A c \in Channels : Pollers(c) = {} /\ fd[c] = -1
    BY <1>2 DEF Pollers, Init
  <2>2. QED
    BY <2>1, Bounds DEF ApartInv, Remembers
<1>5. DeathInv
  BY DEF Init, DeathInv
<1>6. OwnInv
  BY DEF Init, OwnInv
<1>7. QED
  BY <1>1, <1>3, <1>4, <1>5, <1>6 DEF KeeperInv

\* A call goes on to p, or ends; no other thread moves.
Moves(t, p) ==
  /\ threads'[t].pc = p
  /\ p # "none" => threads'[t].caller \notin Ids /\ threads'[t].ch = threads[t].ch
  /\ \A u \in Ids : u = t \/ threads'[u] = threads[u]

LEMMA OthersRest ==
  ASSUME NEW c, OneEach(c), NEW t \in Ids, InCall(c, t), NEW p \in Pcs \ {"select"}, Moves(t, p)
  PROVE  /\ OneEach(c)'
         /\ \A u \in Ids : InCall(c, u)' => u = t
         /\ \A u \in Ids : Polls(c, u)' <=> Polls(c, u)
         /\ \A u \in Ids : Polls(c, u) => threads'[u] = threads[u]
         /\ NoPoller(c)' <=> NoPoller(c)
         /\ InCall(c, t)' <=> p # "none"
BY DEF OneEach, InCall, Polls, Moves, NoPoller, Pcs

\* So it is enough to look at the call that moves, at the flags and at the poll thread.
LEMMA MoveKeeps ==
  ASSUME NEW c, Kept(c), NEW t \in Ids, InCall(c, t), NEW p \in Pcs \ {"select"}, Moves(t, p),
         FlagInv(c)', p # "none" => CallInv(c, t)',
         \A u \in Ids : Polls(c, u) => PollInv(c, u)'
  PROVE  Kept(c)'
BY OthersRest DEF Kept

LEMMA PollersKept ==
  ASSUME NEW c, Kept(c), UNCHANGED <<pipeRunning, fd>>, active[c] => active'[c],
         active'[c] \/ \E t \in Ids : InCall(c, t)', NEW u \in Ids, Polls(c, u),
         threads'[u] = threads[u]
  PROVE  PollInv(c, u)'
BY DEF Kept, PollInv

LEMMA GoesMoves ==
  ASSUME threads \in [Ids -> Thread], NEW t \in Ids, NEW p \in Pcs, threads[t].caller \notin Ids,
         threads' = [threads EXCEPT ![t].pc = p]
  PROVE  Moves(t, p)
BY DEF Moves, Thread

LEMMA ReturnedMoves ==
  ASSUME threads \in [Ids -> Thread], NEW t \in Ids, threads[t].caller \notin Ids,
         threads' = Returned(t)
  PROVE  Moves(t, "none")
BY DEF Moves, Returned, Idle

LEMMA ActivateEndsMoves ==
  ASSUME threads \in [Ids -> Thread], NEW t \in Ids, threads[t].caller \notin Ids,
         ActivateEnds(t)
  PROVE  Moves(t, "none") \/ Moves(t, "after")
<1>1. CASE threads[t].caller = HubCall
  BY <1>1 DEF Moves, ActivateEnds, Idle
<1>2. CASE threads[t].caller # HubCall
  BY <1>2, GoesMoves DEF ActivateEnds, Pcs
<1>3. QED
  BY <1>1, <1>2


LEMMA SeekKeeps ==
  ASSUME TypeInv, NEW c \in Channels, Kept(c), NEW t \in Ids, threads[t].ch = c,
         Wake(t) \/ Abort(t) \/ GiveUp(t) \/ Proceed(t) \/ StopPolling(t) \/ Disconnect(t)
  PROVE  Kept(c)'
<1>0. threads \in [Ids -> Thread] /\ threads[t].ch = c /\ fd[c] \in Fds \cup {-1}
      /\ attempts[c] \in Nat
  BY DEF TypeInv, Thread, FileType, FlagType
<1>1. Seeks(t) /\ InCall(c, t) /\ death = "no"
  BY DEF Seeks, InCall, Wake, Abort, GiveUp, Proceed, StopPolling, Disconnect
<1>2. CallInv(c, t) /\ FlagInv(c) /\ OneEach(c)
  BY <1>1 DEF Kept
<1>3. NoPoller(c) /\ threads[t].caller \notin Ids /\ Broken(c)
  BY <1>1, <1>2 DEF CallInv
<1>4. \A u \in Ids : ~Polls(c, u)
  BY <1>3 DEF NoPoller
<1>5. CASE Wake(t)
  <2>1. Moves(t, "enter") /\ At(t, "sleep") /\ UNCHANGED <<process, files, fd, attempts, flags>>
    BY <1>0, <1>3, <1>5, GoesMoves DEF Wake, Pcs
  <2>2. NoPoller(c)'
    BY <1>1, <1>2, <1>3, <2>1, OthersRest DEF Pcs
  <2>3. CallInv(c, t)' /\ FlagInv(c)'
    BY <1>2, <1>3, <2>1, <2>2 DEF CallInv, FlagInv, Moves, Seeks, Connects, Failed, Done, Broken
  <2>4. QED
    BY <1>1, <1>4, <2>1, <2>3, MoveKeeps DEF Pcs
<1>6. CASE Abort(t)
  <2>1. Moves(t, "none") /\ UNCHANGED <<process, files, fd, attempts, flags>>
    BY <1>0, <1>3, <1>6, ReturnedMoves DEF Abort
  <2>2. FlagInv(c)'
    BY <1>2, <2>1 DEF FlagInv
  <2>3. QED
    BY <1>1, <1>4, <2>1, <2>2, MoveKeeps DEF Pcs
<1>7. CASE GiveUp(t)
  <2>1. UNCHANGED <<threads, files, fd, attempts, flags>> /\ attempts[c] > MaxReconnects
        /\ death' \in {"no", "attempts"}
    BY <1>0, <1>3, <1>7 DEF GiveUp
  <2>2. attempts[c] = MaxReconnects + 1
    BY <1>0, <1>2, <2>1, Bounds DEF FlagInv
  <2>3. FlagInv(c)'
    BY <1>2, <2>1, <2>2 DEF FlagInv
  <2>4. QED
    BY <2>1, <2>3 DEF Kept, OneEach, CallInv, PollInv, InCall, Polls, Seeks, Connects, Failed,
       Done, Broken, Works, NoPoller
<1>8. CASE Proceed(t)
  <2>1. /\ Moves(t, "stop") /\ UNCHANGED <<process, files, fd, attempts, flags>>
        /\ attempts[c] <= MaxReconnects
    BY <1>0, <1>3, <1>8, GoesMoves DEF Proceed, Pcs
  <2>2. NoPoller(c)'
    BY <1>1, <1>2, <1>3, <2>1, OthersRest DEF Pcs
  <2>3. CallInv(c, t)' /\ FlagInv(c)'
    BY <1>2, <1>3, <2>1, <2>2 DEF CallInv, FlagInv, Moves, Seeks, Connects, Failed, Done, Broken
  <2>4. QED
    BY <1>1, <1>4, <2>1, <2>3, MoveKeeps DEF Pcs
<1>9. CASE StopPolling(t)
  <2>1. /\ Moves(t, "close") /\ UNCHANGED <<process, files, fd, attempts>> /\ At(t, "stop")
    BY <1>0, <1>3, <1>9, GoesMoves DEF StopPolling, Pcs
  <2>2. active \in [Channels -> BOOLEAN] /\ pipeRunning \in [Channels -> BOOLEAN]
        /\ handle \in [Channels -> BOOLEAN]
    BY DEF TypeInv, FlagType
  <2>3. ~handle'[c]
    BY <1>0, <1>9, <2>2 DEF StopPolling
  <2>4. ~active'[c] /\ ~pipeRunning'[c]
    BY <1>0, <1>2, <1>9, <2>2 DEF StopPolling, FlagInv
  <2>5. NoPoller(c)'
    BY <1>1, <1>2, <1>3, <2>1, OthersRest DEF Pcs
  <2>6. CallInv(c, t)' /\ FlagInv(c)'
    BY <1>2, <1>3, <2>1, <2>3, <2>4, <2>5
       DEF CallInv, FlagInv, Moves, Seeks, Connects, Failed, Done, Broken
  <2>7. QED
    BY <1>1, <1>4, <2>1, <2>6, MoveKeeps DEF Pcs
<1>10. CASE Disconnect(t)
  <2>1. /\ Moves(t, "activate") /\ At(t, "close")
        /\ UNCHANGED <<process, breaks, calm, fd, attempts, flags>>
    BY <1>0, <1>3, <1>10, GoesMoves DEF Disconnect, Pcs
  <2>2. Broken(c)'
    <3>1. fd[c] > 0 => table' = [table EXCEPT ![fd[c]] = "free"]
      BY <1>0, <1>10 DEF Disconnect, CloseFd
    <3>2. table \in [Fds -> Channels \cup {"free"}] /\ fd' = fd
      BY <2>1 DEF TypeInv, FileType
    <3>3. fd[c] > 0 => fd[c] \in Fds
      BY <1>0
    <3>4. fd[c] > 0 => table'[fd[c]] = "free"
      BY <3>1, <3>2, <3>3
    <3>5. QED
      BY <3>2, <3>4 DEF Broken
  <2>3. NoPoller(c)'
    BY <1>1, <1>2, <1>3, <2>1, OthersRest DEF Pcs
  <2>4. CallInv(c, t)' /\ FlagInv(c)'
    BY <1>2, <1>3, <2>1, <2>2, <2>3
       DEF CallInv, FlagInv, Moves, Seeks, Connects, Failed, Done
  <2>5. QED
    BY <1>1, <1>4, <2>1, <2>4, MoveKeeps DEF Pcs
<1>11. QED
  BY <1>5, <1>6, <1>7, <1>8, <1>9, <1>10

LEMMA AfterKeeps ==
  ASSUME TypeInv, NEW c \in Channels, Kept(c), NEW t \in Ids, threads[t].ch = c,
         Succeeded(t) \/ Retry(t)
  PROVE  Kept(c)'
<1>0. threads \in [Ids -> Thread] /\ threads[t].ch = c /\ attempts \in [Channels -> Nat]
  BY DEF TypeInv, Thread, FlagType
<1>1. threads[t].pc = "after" /\ InCall(c, t) /\ death = "no"
  BY DEF InCall, Succeeded, Retry
<1>2. CallInv(c, t) /\ FlagInv(c) /\ OneEach(c) /\ threads[t].caller \notin Ids
  BY <1>1 DEF Kept, CallInv
<1>3. CASE Succeeded(t)
  <2>1. /\ Moves(t, "none") /\ UNCHANGED <<process, files, fd, flags>>
        /\ attempts'[c] = 0 /\ pipeRunning[c]
    BY <1>0, <1>2, <1>3, ReturnedMoves DEF Succeeded
  <2>2. FlagInv(c)'
    BY <1>1, <1>2, <2>1, Bounds DEF FlagInv
  <2>3. active[c]
    BY <1>1, <1>2, <2>1 DEF CallInv, Done
  <2>4. \A u \in Ids : Polls(c, u) => PollInv(c, u)'
    BY <1>1, <1>2, <2>1, <2>3, OthersRest, PollersKept DEF Pcs
  <2>5. QED
    BY <1>1, <2>1, <2>2, <2>4, MoveKeeps DEF Pcs
<1>4. CASE Retry(t)
  <2>1. /\ threads' = [threads EXCEPT ![t].pc = "sleep"] /\ UNCHANGED <<process, files, fd, flags>>
        /\ attempts'[c] = attempts[c] + 1 /\ ~pipeRunning[c]
    BY <1>0, <1>2, <1>4 DEF Retry
  <2>2. Moves(t, "sleep")
    BY <1>0, <1>2, <2>1, GoesMoves DEF Pcs
  <2>3. NoPoller(c) /\ Broken(c) /\ attempts[c] <= MaxReconnects
    BY <1>1, <1>2, <2>1 DEF CallInv, Failed
  <2>4. FlagInv(c)'
    BY <1>0, <1>1, <1>2, <2>1, <2>3, Bounds DEF FlagInv
  <2>5. NoPoller(c)'
    BY <1>1, <1>2, <2>2, <2>3, OthersRest DEF Pcs
  <2>6. CallInv(c, t)'
    BY <1>2, <2>1, <2>2, <2>3, <2>5 DEF CallInv, Moves, Seeks, Connects, Failed, Done, Broken
  <2>7. \A u \in Ids : ~Polls(c, u)
    BY <2>3 DEF NoPoller
  <2>8. QED
    BY <1>1, <2>2, <2>4, <2>6, <2>7, MoveKeeps DEF Pcs
<1>5. QED
  BY <1>3, <1>4

LEMMA ConnectKeeps ==
  ASSUME TypeInv, NEW c \in Channels, Kept(c), NEW t \in Ids, threads[t].ch = c,
         AlreadyActive(t) \/ Connected(t) \/ NotConnected(t) \/ Ready(t) \/ Register(t)
           \/ ReconnectWithin(t)
  PROVE  Kept(c)'
<1>0. threads \in [Ids -> Thread] /\ threads[t].ch = c /\ fd \in [Channels -> Fds \cup {-1}]
      /\ table \in [Fds -> Channels \cup {"free"}] /\ \A n \in broken : table[n] # "free"
  BY DEF TypeInv, Thread, FileType
<1>1. threads[t].pc \in {"activate", "ready", "register", "launch"} /\ InCall(c, t) /\ death = "no"
  BY DEF InCall, AlreadyActive, Connected, NotConnected, Ready, Register, ReconnectWithin
<1>2. CallInv(c, t) /\ FlagInv(c) /\ OneEach(c)
  BY <1>1 DEF Kept
<1>3. /\ NoPoller(c) /\ threads[t].caller \notin Ids /\ ~handle[c] /\ attempts[c] <= MaxReconnects
      /\ threads[t].pc = "activate" => Broken(c)
      /\ threads[t].pc \in {"ready", "register", "launch"} => Works(c)
  BY <1>1, <1>2 DEF CallInv, Seeks, Connects
<1>4. (\A u \in Ids : ~Polls(c, u)) /\ ~active[c] /\ ~pipeRunning[c]
  BY <1>2, <1>3 DEF NoPoller, FlagInv
<1>5. CASE Connected(t)
  <2>1. /\ Moves(t, "ready") /\ UNCHANGED <<process, attempts, flags>>
    BY <1>0, <1>3, <1>5, GoesMoves DEF Connected, Pcs
  <2>2. LowestFree \in Fds /\ table[LowestFree] = "free"
    BY <1>5, LowestIsFree DEF Connected
  <2>3. fd'[c] = LowestFree /\ table'[LowestFree] = c /\ broken' = broken
    BY <1>0, <1>5, <2>2 DEF Connected
  <2>4. Works(c)'
    BY <1>0, <2>2, <2>3, Bounds, ChannelAssumption DEF Works
  <2>5. NoPoller(c)'
    BY <1>1, <1>2, <1>3, <2>1, OthersRest DEF Pcs
  <2>6. CallInv(c, t)' /\ FlagInv(c)'
    BY <1>2, <1>3, <2>1, <2>4, <2>5 DEF CallInv, FlagInv, Moves, Seeks, Connects, Failed, Done
  <2>7. QED
    BY <1>1, <1>4, <2>1, <2>6, MoveKeeps DEF Pcs
<1>6. CASE NotConnected(t)
  <2>1. /\ ActivateEnds(t) /\ UNCHANGED <<process, breaks, calm, fd, attempts, flags>>
        /\ Broken(c) /\ fd[c] \in Fds \cup {-1}
    BY <1>0, <1>3, <1>6 DEF NotConnected
  <2>2. Moves(t, "none") \/ Moves(t, "after")
    BY <1>0, <1>3, <2>1, ActivateEndsMoves
  <2>3. Broken(c)'
    <3>1. CASE UNCHANGED <<table, broken>>
      BY <2>1, <3>1 DEF Broken
    <3>2. CASE /\ FreeFds # {} /\ table' = [table EXCEPT ![LowestFree] = c]
               /\ broken' = broken \cup {LowestFree}
      <4>1. fd[c] # LowestFree => table'[fd[c]] = table[fd[c]] \/ ~(fd[c] > 0)
        BY <1>0, <2>1, <3>2
      <4>2. QED
        BY <2>1, <3>2, <4>1 DEF Broken
    <3>3. QED
      BY <1>0, <1>6, <3>1, <3>2 DEF NotConnected
  <2>4. NoPoller(c)' /\ FlagInv(c)'
    BY <1>1, <1>2, <1>3, <2>1, <2>2, OthersRest DEF FlagInv, Pcs
  <2>5. CASE Moves(t, "after")
    <3>1. CallInv(c, t)'
      BY <1>3, <1>4, <2>1, <2>3, <2>4, <2>5 DEF CallInv, Moves, Seeks, Connects, Failed, Done
    <3>2. QED
      BY <1>1, <1>4, <2>4, <2>5, <3>1, MoveKeeps DEF Pcs
  <2>6. CASE Moves(t, "none")
    BY <1>1, <1>4, <2>4, <2>6, MoveKeeps DEF Pcs
  <2>7. QED
    BY <2>2, <2>5, <2>6
<1>7. CASE Register(t)
  <2>1. Works(c) /\ fd[c] \notin broken /\ IsOpen(c)
    BY <1>3, <1>7, ChannelAssumption DEF Register, Works, IsOpen
  <2>2. /\ Moves(t, "launch") /\ UNCHANGED <<process, files, fd, attempts, flags>>
    BY <1>0, <1>3, <1>7, <2>1, GoesMoves DEF Register, Pcs
  <2>3. NoPoller(c)'
    BY <1>1, <1>2, <1>3, <2>2, OthersRest DEF Pcs
  <2>4. CallInv(c, t)' /\ FlagInv(c)'
    BY <1>2, <1>3, <2>1, <2>2, <2>3
       DEF CallInv, FlagInv, Moves, Seeks, Connects, Failed, Done, Works
  <2>5. QED
    BY <1>1, <1>4, <2>2, <2>4, MoveKeeps DEF Pcs
<1>8. CASE Ready(t)
  <2>1. Works(c) /\ Moves(t, "register") /\ UNCHANGED <<process, files, fd, attempts, flags>>
    BY <1>0, <1>3, <1>8, GoesMoves DEF Ready, Pcs
  <2>2. NoPoller(c)'
    BY <1>1, <1>2, <1>3, <2>1, OthersRest DEF Pcs
  <2>3. CallInv(c, t)' /\ FlagInv(c)'
    BY <1>2, <1>3, <2>1, <2>2
       DEF CallInv, FlagInv, Moves, Seeks, Connects, Failed, Done, Works
  <2>4. QED
    BY <1>1, <1>4, <2>1, <2>3, MoveKeeps DEF Pcs
<1>9. ~AlreadyActive(t)
  BY <1>0, <1>4 DEF AlreadyActive
<1>10. ~ReconnectWithin(t)
  <2>1. At(t, "launch") => fd[c] > 0
    BY <1>3 DEF Works
  <2>2. QED
    BY <1>0, <2>1, Bounds DEF ReconnectWithin
<1>11. QED
  BY <1>5, <1>6, <1>7, <1>8, <1>9, <1>10

LEMMA StartKeeps ==
  ASSUME TypeInv, NEW c \in Channels, Kept(c), NEW t \in Ids, threads[t].ch = c,
         StartPolling(t) \/ SetActive(t)
  PROVE  Kept(c)'
<1>0. threads \in [Ids -> Thread] /\ threads[t].ch = c /\ fd[c] \in Fds \cup {-1}
      /\ pipeRunning \in [Channels -> BOOLEAN] /\ handle \in [Channels -> BOOLEAN]
      /\ active \in [Channels -> BOOLEAN]
  BY DEF TypeInv, Thread, FileType, FlagType
<1>1. threads[t].pc \in {"launch", "setActive"} /\ InCall(c, t) /\ death = "no"
  BY DEF InCall, StartPolling, SetActive
<1>2. CallInv(c, t) /\ FlagInv(c) /\ OneEach(c)
  BY <1>1 DEF Kept
<1>3. threads[t].caller \notin Ids /\ attempts[c] <= MaxReconnects /\ Works(c)
  BY <1>1, <1>2 DEF CallInv, Connects
<1>4. CASE StartPolling(t)
  <2>1. /\ NoPoller(c) /\ ~handle[c] /\ threads[t].pc = "launch"
    BY <1>2, <1>4 DEF StartPolling, CallInv, Connects
  <2>2. PICK n \in Ids : n = NewThread /\ threads[n].pc = "none" /\ n # t
    BY <1>1, <1>4, NewIsUnused DEF StartPolling
  <2>3. /\ threads' = [threads EXCEPT ![t].pc = "setActive", ![n] = Poller(c, fd[c])]
        /\ pipeRunning'[c] /\ handle'[c] /\ death' = "no"
        /\ UNCHANGED <<alive, files, fd, attempts, active>>
    BY <1>0, <1>4, <2>1, <2>2 DEF StartPolling
  <2>4. /\ threads'[t].pc = "setActive" /\ threads'[t].caller = threads[t].caller
        /\ threads'[t].ch = c
        /\ threads'[n].pc = "select" /\ threads'[n].readFd = fd[c] /\ threads'[n].ch = c
        /\ \A u \in Ids : u = t \/ u = n \/ threads'[u] = threads[u]
    <3> DEFINE ts == [threads EXCEPT ![t].pc = "setActive"]
    <3>1. /\ ts \in [Ids -> Thread] /\ ts[t].pc = "setActive" /\ ts[t].caller = threads[t].caller
          /\ ts[t].ch = c /\ \A u \in Ids : u = t \/ ts[u] = threads[u]
      BY <1>0 DEF Thread, Pcs
    <3>2. threads' = [ts EXCEPT ![n] = Poller(c, fd[c])]
      BY <2>3
    <3> HIDE DEF ts
    <3>3. QED
      BY <2>2, <3>1, <3>2 DEF Poller
  <2>5. \A u \in Ids : u # t => ~InCall(c, u)
    BY <1>1, <1>2 DEF OneEach
  <2>6. \A u \in Ids : ~Polls(c, u)
    BY <2>1 DEF NoPoller
  <2>7. /\ \A u \in Ids : InCall(c, u)' => u = t
        /\ \A u \in Ids : Polls(c, u)' => u = n
        /\ InCall(c, t)'
    BY <2>2, <2>4, <2>5, <2>6 DEF InCall, Polls
  <2>8. CallInv(c, t)' /\ FlagInv(c)'
    BY <1>2, <1>3, <2>3, <2>4 DEF CallInv, FlagInv, Seeks, Connects, Failed, Done, Works
  <2>9. PollInv(c, n)'
    <3>1. fd[c] \in Fds
      BY <1>0, <1>3 DEF Works
    <3>2. QED
      BY <2>3, <2>4, <2>7, <3>1 DEF PollInv
  <2>10. OneEach(c)'
    BY <2>7 DEF OneEach
  <2>11. QED
    BY <2>7, <2>8, <2>9, <2>10 DEF Kept
<1>5. CASE SetActive(t)
  <2>1. pipeRunning[c] /\ handle[c]
    BY <1>2, <1>5 DEF SetActive, CallInv, FlagInv
  <2>2. /\ ActivateEnds(t) /\ active'[c]
        /\ UNCHANGED <<process, files, fd, attempts, pipeRunning, handle>>
    BY <1>0, <1>5 DEF SetActive
  <2>3. Moves(t, "none") \/ Moves(t, "after")
    BY <1>0, <1>3, <2>2, ActivateEndsMoves
  <2>4. FlagInv(c)'
    BY <1>2, <2>1, <2>2 DEF FlagInv
  <2>5. \A u \in Ids : Polls(c, u) => PollInv(c, u)'
    BY <1>1, <1>2, <2>2, <2>3, OthersRest, PollersKept DEF Pcs
  <2>6. CASE Moves(t, "after")
    <3>1. CallInv(c, t)'
      BY <1>3, <2>1, <2>2, <2>6 DEF CallInv, Moves, Seeks, Connects, Failed, Done, Works
    <3>2. QED
      BY <1>1, <2>4, <2>5, <2>6, <3>1, MoveKeeps DEF Pcs
  <2>7. CASE Moves(t, "none")
    BY <1>1, <2>4, <2>5, <2>7, MoveKeeps DEF Pcs
  <2>8. QED
    BY <2>3, <2>6, <2>7
<1>6. QED
  BY <1>4, <1>5

LEMMA PollKeeps ==
  ASSUME TypeInv, NEW c \in Channels, Kept(c), NEW t \in Ids, threads[t].ch = c,
         PollEnds(t) \/ PollFails(t)
  PROVE  Kept(c)'
<1>0. threads \in [Ids -> Thread] /\ threads[t].ch = c /\ fd[c] \in Fds \cup {-1}
  BY DEF TypeInv, Thread, FileType
<1>1. /\ Polls(c, t) /\ ~InCall(c, t) /\ UNCHANGED <<process, files, fd, attempts, flags>>
  BY DEF Polls, InCall, PollEnds, PollFails
<1>2. PollInv(c, t) /\ FlagInv(c) /\ OneEach(c)
  BY <1>1 DEF Kept
<1>3. \A u \in Ids : Polls(c, u) => u = t
  BY <1>1, <1>2 DEF OneEach
<1>4. FlagInv(c)'
  BY <1>1, <1>2 DEF FlagInv
<1>5. CASE PollEnds(t)
  <2>1. threads'[t].pc = "none" /\ \A u \in Ids : u = t \/ threads'[u] = threads[u]
    BY <1>0, <1>5 DEF PollEnds, Idle
  <2>2. /\ \A u \in Ids : InCall(c, u)' => InCall(c, u) /\ threads'[u] = threads[u]
        /\ \A u \in Ids : ~Polls(c, u)'
    BY <1>3, <2>1 DEF InCall, Polls
  <2>3. OneEach(c)'
    BY <1>2, <2>2 DEF OneEach
  <2>4. ASSUME NEW u \in Ids, InCall(c, u)' PROVE CallInv(c, u)'
    <3>1. CallInv(c, u) /\ threads'[u] = threads[u] /\ NoPoller(c)'
      BY <2>2, <2>4 DEF Kept, NoPoller
    <3>2. QED
      BY <1>1, <3>1 DEF CallInv, Seeks, Connects, Failed, Done, Works, Broken
  <2>5. QED
    BY <1>4, <2>2, <2>3, <2>4 DEF Kept
<1>6. CASE PollFails(t)
  <2>1. Broken(c)
    BY <1>0, <1>2, <1>6 DEF PollFails, PollInv, Broken
  <2>2. \A u \in Ids : ~InCall(c, u)
    <3> SUFFICES ASSUME NEW u \in Ids, InCall(c, u) PROVE FALSE
      OBVIOUS
    <3>1. CallInv(c, u)
      BY DEF Kept
    <3>2. ~NoPoller(c) /\ ~Works(c)
      BY <1>1, <2>1, ChannelAssumption DEF NoPoller, Works, Broken
    <3>3. threads[u].pc \in Pcs
      BY <1>0 DEF Thread
    <3>4. QED
      BY <3>1, <3>2, <3>3 DEF CallInv, InCall, Seeks, Connects, Failed, Done, Pcs
  <2>3. /\ threads'[t].pc = "enter" /\ threads'[t].caller = Nobody
        /\ \A u \in Ids : u = t \/ threads'[u] = threads[u]
    BY <1>0, <1>6 DEF PollFails, Call
  <2>4. /\ \A u \in Ids : InCall(c, u)' => u = t
        /\ \A u \in Ids : ~Polls(c, u)'
    BY <1>3, <2>2, <2>3 DEF InCall, Polls
  <2>5. NoPoller(c)' /\ Broken(c)'
    BY <1>1, <2>1, <2>4 DEF NoPoller, Broken
  <2>6. CallInv(c, t)'
    BY <2>3, <2>5, Bounds DEF CallInv, Seeks, Connects, Failed, Done
  <2>7. OneEach(c)'
    BY <2>4 DEF OneEach
  <2>8. QED
    BY <1>4, <2>4, <2>6, <2>7 DEF Kept
<1>7. QED
  BY <1>5, <1>6

-----------------------------------------------------------------------------
(* What one channel does leaves the others alone.                          *)

\* Nothing that is d's changes; its descriptor stays as good or as bad as it is.
Elsewhere(d) ==
  /\ fd'[d] = fd[d] /\ attempts'[d] = attempts[d]
  /\ active'[d] = active[d] /\ pipeRunning'[d] = pipeRunning[d] /\ handle'[d] = handle[d]
  /\ \A u \in Ids : /\ InCall(d, u)' <=> InCall(d, u)
                    /\ Polls(d, u)' <=> Polls(d, u)
                    /\ InCall(d, u) \/ Polls(d, u) => threads'[u] = threads[u]
  /\ Works(d) => Works(d)'
  /\ Broken(d) => Broken(d)'

LEMMA ElsewhereKeeps ==
  ASSUME NEW d, Kept(d), Elsewhere(d)
  PROVE  Kept(d)'
<1>1. OneEach(d)' /\ FlagInv(d)' /\ (NoPoller(d) <=> NoPoller(d)')
  BY DEF Kept, OneEach, FlagInv, NoPoller, Elsewhere
<1>2. ASSUME NEW u \in Ids, InCall(d, u)' PROVE CallInv(d, u)'
  <2>1. CallInv(d, u) /\ threads'[u] = threads[u]
    BY <1>2 DEF Elsewhere, Kept
  <2>2. QED
    BY <1>1, <2>1 DEF Elsewhere, CallInv, Seeks, Connects, Failed, Done
<1>3. ASSUME NEW u \in Ids, Polls(d, u)' PROVE PollInv(d, u)'
  <2>1. PollInv(d, u) /\ threads'[u] = threads[u]
    BY <1>3 DEF Elsewhere, Kept
  <2>2. QED
    BY <2>1 DEF Elsewhere, PollInv
<1>4. QED
  BY <1>1, <1>2, <1>3 DEF Kept

\* A step changes the thread that takes it and perhaps one that was unused, which then
\* belongs to the same channel.
Same(c) ==
  \A u \in Ids : \/ threads'[u] = threads[u]
                 \/ /\ threads[u].pc = "none" \/ threads[u].ch = c
                    /\ threads'[u].pc = "none" \/ threads'[u].ch = c

LEMMA MovesSame ==
  ASSUME NEW c, NEW t \in Ids, threads[t].ch = c, NEW p \in Pcs, Moves(t, p)
  PROVE  Same(c)
BY DEF Moves, Same

LEMMA StepSame ==
  ASSUME TypeInv, NEW c \in Channels, Kept(c), NEW t \in Ids, threads[t].ch = c, Step(t)
  PROVE  Same(c)
<1>0. threads \in [Ids -> Thread]
  BY DEF TypeInv
<1>1. CASE PollEnds(t) \/ PollFails(t)
  <2>1. threads' = [threads EXCEPT ![t] = Idle] \/ threads' = [threads EXCEPT ![t] = Call("enter", c, Nobody)]
    BY <1>1 DEF PollEnds, PollFails
  <2>2. Idle.pc = "none" /\ Call("enter", c, Nobody).ch = c
    BY DEF Idle, Call
  <2>3. QED
    BY <1>0, <2>1, <2>2 DEF Same
<1>2. CASE ~(PollEnds(t) \/ PollFails(t))
  <2>1. InCall(c, t)
    BY <1>2 DEF InCall, Step, Wake, Abort, GiveUp, Proceed, StopPolling, Disconnect, Succeeded,
                Retry, AlreadyActive, Connected, NotConnected, Ready, Register, StartPolling,
                ReconnectWithin, SetActive
  <2>2. threads[t].caller \notin Ids /\ threads[t].pc # "within"
        /\ (threads[t].pc = "launch" => fd[c] > 0)
    BY <2>1 DEF Kept, CallInv, Connects, Works
  <2>3. CASE \/ Wake(t) \/ Proceed(t) \/ StopPolling(t) \/ Disconnect(t) \/ Connected(t)
             \/ Ready(t) \/ Retry(t)
    <3>1. \E p \in Pcs : threads' = [threads EXCEPT ![t].pc = p]
      BY <2>2, <2>3 DEF Wake, Proceed, StopPolling, Disconnect, Connected, Ready, Retry, Pcs
    <3>2. QED
      BY <1>0, <2>2, <3>1, GoesMoves, MovesSame
  <2>4. CASE Abort(t) \/ Succeeded(t)
    BY <1>0, <2>2, <2>4, ReturnedMoves, MovesSame DEF Abort, Succeeded, Pcs
  <2>5. CASE GiveUp(t)
    BY <2>2, <2>5 DEF GiveUp, Same
  <2>6. CASE AlreadyActive(t) \/ NotConnected(t) \/ Register(t) \/ SetActive(t)
    <3>1. ActivateEnds(t) \/ threads' = threads \/ threads' = [threads EXCEPT ![t].pc = "launch"]
      BY <2>6 DEF AlreadyActive, NotConnected, Ready, Register, SetActive
    <3>2. CASE ActivateEnds(t)
      BY <1>0, <2>2, <3>2, ActivateEndsMoves, MovesSame DEF Pcs
    <3>3. CASE threads' = threads
      BY <3>3 DEF Same
    <3>4. CASE threads' = [threads EXCEPT ![t].pc = "launch"]
      BY <1>0, <2>2, <3>4, GoesMoves, MovesSame DEF Pcs
    <3>5. QED
      BY <3>1, <3>2, <3>3, <3>4
  <2>7. CASE StartPolling(t)
    <3>1. PICK n \in Ids : n = NewThread /\ threads[n].pc = "none"
      BY <2>7, NewIsUnused DEF StartPolling
    <3> DEFINE ts == [threads EXCEPT ![t].pc = "setActive"]
    <3>2. ts \in [Ids -> Thread] /\ ts[t].ch = c /\ \A u \in Ids : u = t \/ ts[u] = threads[u]
      BY <1>0 DEF Thread, Pcs
    <3>3. threads' = [ts EXCEPT ![n] = Poller(c, fd[c])]
      BY <2>7, <3>1 DEF StartPolling
    <3> HIDE DEF ts
    <3>4. QED
      BY <3>1, <3>2, <3>3 DEF Same, Poller
  <2>8. ~ReconnectWithin(t)
    <3>1. fd[c] \in Fds \cup {-1}
      BY DEF TypeInv, FileType
    <3>2. QED
      BY <2>2, <3>1, Bounds DEF ReconnectWithin
  <2>9. QED
    BY <1>2, <2>3, <2>4, <2>5, <2>6, <2>7, <2>8 DEF Step
<1>3. QED
  BY <1>1, <1>2

LEMMA SameElsewhere ==
  ASSUME NEW c, NEW d, c # d, Same(c), NEW u \in Ids
  PROVE  /\ InCall(d, u)' <=> InCall(d, u)
         /\ Polls(d, u)' <=> Polls(d, u)
         /\ InCall(d, u) \/ Polls(d, u) => threads'[u] = threads[u]
BY DEF Same, InCall, Polls

\* What a step of one channel does to the numbers that another remembers: it closes none
\* of them, and opens none but what the history notices.
LEMMA StepElsewhere ==
  ASSUME TypeInv, ApartInv, NEW c \in Channels, Kept(c), NEW t \in Ids, threads[t].ch = c, Step(t),
         apart', NEW d \in Channels \ {c}, Kept(d)
  PROVE  Elsewhere(d)
<1>0. /\ fd \in [Channels -> Fds \cup {-1}] /\ table \in [Fds -> Channels \cup {"free"}]
      /\ attempts \in [Channels -> Nat] /\ active \in [Channels -> BOOLEAN]
      /\ pipeRunning \in [Channels -> BOOLEAN] /\ handle \in [Channels -> BOOLEAN]
  BY DEF TypeInv, FileType, FlagType
<1>1. /\ fd'[d] = fd[d] /\ attempts'[d] = attempts[d]
      /\ active'[d] = active[d] /\ pipeRunning'[d] = pipeRunning[d] /\ handle'[d] = handle[d]
  BY <1>0 DEF Step, files, Wake, Abort, GiveUp, Proceed, StopPolling, Disconnect, Succeeded,
     Retry, AlreadyActive, Connected, NotConnected, Ready, Register, StartPolling,
     ReconnectWithin, SetActive, PollEnds, PollFails
<1>2. \A u \in Ids : /\ InCall(d, u)' <=> InCall(d, u)
                     /\ Polls(d, u)' <=> Polls(d, u)
                     /\ InCall(d, u) \/ Polls(d, u) => threads'[u] = threads[u]
  BY StepSame, SameElsewhere
<1>3. (Works(d) => Works(d)') /\ (Broken(d) => Broken(d)')
  <2>1. CASE UNCHANGED <<table, broken>>
    BY <1>1, <2>1 DEF Works, Broken
  <2>2. CASE Disconnect(t)
    <3>1. \/ UNCHANGED <<table, broken>>
          \/ /\ fd[c] \in Fds /\ table' = [table EXCEPT ![fd[c]] = "free"]
             /\ broken' = broken \ {fd[c]}
      BY <1>0, <2>2 DEF Disconnect, CloseFd
    <3>2. fd[c] \in Fds => fd[d] # fd[c]
      BY DEF ApartInv, Remembers
    <3>3. fd[d] \in Fds /\ fd[c] \in Fds => [table EXCEPT ![fd[c]] = "free"][fd[d]] = table[fd[d]]
      BY <1>0, <3>2
    <3>4. fd[d] > 0 => fd[d] \in Fds
      BY <1>0
    <3>5. QED
      BY <1>1, <2>1, <3>1, <3>2, <3>3, <3>4 DEF Works, Broken
  <2>3. CASE Connected(t)
    <3>1. LowestFree \in Fds /\ table[LowestFree] = "free"
      BY <2>3, LowestIsFree DEF Connected
    <3>2. fd[d] # LowestFree /\ table' = [table EXCEPT ![LowestFree] = c] /\ broken' = broken
      BY <2>3 DEF Connected, Remembers
    <3>3. fd[d] > 0 => table'[fd[d]] = table[fd[d]]
      BY <1>0, <3>2
    <3>4. QED
      BY <1>1, <3>2, <3>3 DEF Works, Broken
  <2>4. CASE NotConnected(t) /\ ~UNCHANGED <<table, broken>>
    <3>1. /\ LowestFree \in Fds /\ table[LowestFree] = "free"
          /\ table' = [table EXCEPT ![LowestFree] = c] /\ broken' = broken \cup {LowestFree}
      BY <2>4, LowestIsFree DEF NotConnected
    <3>2. fd[d] > 0 /\ fd[d] # LowestFree => table'[fd[d]] = table[fd[d]]
      BY <1>0, <3>1
    <3>3. Works(d) => fd[d] # LowestFree
      BY <3>1, ChannelAssumption DEF Works
    <3>4. QED
      BY <1>1, <3>1, <3>2, <3>3 DEF Works, Broken
  <2>5. QED
    BY <2>1, <2>2, <2>3, <2>4 DEF Step, files, Wake, Abort, GiveUp, Proceed, StopPolling,
       Succeeded, Retry, AlreadyActive, Ready, Register, StartPolling, ReconnectWithin, SetActive,
       PollEnds, PollFails
<1>4. QED
  BY <1>1, <1>2, <1>3 DEF Elsewhere

\* A channel comes to remember a number only by opening it.
LEMMA StepRemembers ==
  ASSUME TypeInv, NEW c \in Channels, Kept(c), NEW t \in Ids, threads[t].ch = c, Step(t),
         NEW n \in Fds, Remembers(c, n)'
  PROVE  Remembers(c, n) \/ (Connected(t) /\ n = LowestFree)
<1>0. threads \in [Ids -> Thread] /\ fd \in [Channels -> Fds \cup {-1}]
  BY DEF TypeInv, FileType
<1>1. fd' = fd \/ (Connected(t) /\ fd'[c] = LowestFree)
  BY <1>0 DEF Step, files, Wake, Abort, GiveUp, Proceed, StopPolling, Disconnect, Succeeded,
     Retry, AlreadyActive, Connected, NotConnected, Ready, Register, StartPolling,
     ReconnectWithin, SetActive, PollEnds, PollFails
<1>2. CASE fd'[c] = n
  BY <1>1, <1>2 DEF Remembers
<1>3. ASSUME NEW u \in Ids, Polls(c, u)', threads'[u].readFd = n PROVE Remembers(c, n)
  <2>1. CASE Polls(c, u) /\ threads'[u] = threads[u]
    BY <1>3, <2>1 DEF Remembers, Polls, Pollers
  <2>2. CASE StartPolling(t)
    <3>1. PICK m \in Ids : m = NewThread /\ threads[m].pc = "none"
      BY <2>2, NewIsUnused DEF StartPolling
    <3> DEFINE ts == [threads EXCEPT ![t].pc = "setActive"]
    <3>2. /\ ts \in [Ids -> Thread] /\ ts[t].pc = "setActive"
          /\ \A v \in Ids : v = t \/ ts[v] = threads[v]
      BY <1>0 DEF Thread, Pcs
    <3>3. threads' = [ts EXCEPT ![m] = Poller(c, fd[c])] /\ Poller(c, fd[c]).readFd = fd[c]
      BY <2>2, <3>1 DEF StartPolling, Poller
    <3> HIDE DEF ts
    <3>4. u = m \/ threads'[u] = threads[u]
      BY <1>3, <3>2, <3>3 DEF Polls
    <3>5. CASE u = m
      BY <1>3, <3>2, <3>3, <3>5 DEF Remembers
    <3>6. QED
      BY <1>3, <2>1, <3>4, <3>5 DEF Polls
  <2>3. CASE PollEnds(t) \/ PollFails(t)
    <3>1. threads' = [threads EXCEPT ![t] = Idle] \/ threads' = [threads EXCEPT ![t] = Call("enter", c, Nobody)]
      BY <2>3 DEF PollEnds, PollFails
    <3>2. Idle.pc = "none" /\ Call("enter", c, Nobody).pc = "enter"
      BY DEF Idle, Call
    <3>3. threads'[t].pc # "select" /\ \A v \in Ids : v = t \/ threads'[v] = threads[v]
      BY <1>0, <3>1, <3>2
    <3>4. QED
      BY <1>3, <2>1, <3>3 DEF Polls
  <2>4. CASE ~(StartPolling(t) \/ PollEnds(t) \/ PollFails(t))
    <3>1. InCall(c, t)
      BY <2>4 DEF InCall, Step, Wake, Abort, GiveUp, Proceed, StopPolling, Disconnect, Succeeded,
                  Retry, AlreadyActive, Connected, NotConnected, Ready, Register, StartPolling,
                  ReconnectWithin, SetActive
    <3>2. threads[t].caller \notin Ids /\ (threads[t].pc = "launch" => fd[c] \in Fds)
      BY <1>0, <3>1 DEF Kept, CallInv, Connects, Works
    <3>3. \/ ActivateEnds(t) \/ threads' = Returned(t) \/ threads' = threads
          \/ \E p \in Pcs \ {"select"} : threads' = [threads EXCEPT ![t].pc = p]
      BY <2>4, <3>2, Bounds DEF Step, Wake, Abort, GiveUp, Proceed, StopPolling, Disconnect,
         Succeeded, Retry, AlreadyActive, Connected, NotConnected, Ready, Register, ReconnectWithin,
         SetActive, Pcs
    <3>4. threads' = threads \/ \E p \in Pcs \ {"select"} : Moves(t, p)
      BY <1>0, <3>2, <3>3, ActivateEndsMoves, ReturnedMoves, GoesMoves DEF Pcs
    <3>5. threads'[u] = threads[u]
      BY <1>3, <3>4 DEF Moves, Polls
    <3>6. QED
      BY <1>3, <2>1, <3>5 DEF Polls
  <2>5. QED
    BY <2>2, <2>3, <2>4
<1>4. QED
  BY <1>2, <1>3 DEF Remembers, Pollers, Polls

LEMMA OthersForget ==
  ASSUME TypeInv, ApartInv, NEW c \in Channels, Kept(c), NEW t \in Ids, threads[t].ch = c, Step(t),
         apart', NEW d \in Channels \ {c}, Kept(d), NEW n \in Fds, Remembers(d, n)'
  PROVE  Remembers(d, n)
<1>1. Elsewhere(d)
  BY StepElsewhere
<1>2. CASE fd'[d] = n
  BY <1>1, <1>2 DEF Elsewhere, Remembers
<1>3. ASSUME NEW u \in Ids, Polls(d, u)', threads'[u].readFd = n PROVE Remembers(d, n)
  BY <1>1, <1>3 DEF Elsewhere, Remembers, Polls, Pollers
<1>4. QED
  BY <1>2, <1>3 DEF Remembers, Pollers, Polls

LEMMA ApartStep ==
  ASSUME TypeInv, ApartInv, NEW c \in Channels, NEW t \in Ids, threads[t].ch = c, Step(t),
         apart', \A d \in Channels : Kept(d)
  PROVE  ApartInv'
<1>1. ASSUME NEW d \in Channels \ {c}, NEW n \in Fds, Remembers(c, n)', Remembers(d, n)' PROVE FALSE
  <2>1. Remembers(d, n)
    BY <1>1, OthersForget
  <2>2. CASE Remembers(c, n)
    BY <2>1, <2>2 DEF ApartInv
  <2>3. CASE Connected(t) /\ n = LowestFree
    BY <2>1, <2>3 DEF Connected
  <2>4. QED
    BY <1>1, <2>2, <2>3, StepRemembers
<1>2. ASSUME NEW d \in Channels, NEW e \in Channels, NEW n \in Fds, Remembers(d, n)', Remembers(e, n)'
      PROVE  d = e
  <2>1. CASE d = c \/ e = c
    BY <1>1, <1>2, <2>1
  <2>2. CASE d # c /\ e # c
    BY <1>2, <2>2, OthersForget DEF ApartInv
  <2>3. QED
    BY <2>1, <2>2
<1>3. QED
  BY <1>2 DEF ApartInv

\* What a step does to the table: nothing, or it frees a number, or it takes a free one.
LEMMA StepTable ==
  ASSUME TypeInv, NEW c \in Channels, NEW t \in Ids, threads[t].ch = c, Step(t), NEW n \in Fds
  PROVE  \/ table'[n] = table[n] /\ (n \in broken => n \in broken')
         \/ table'[n] = "free"
         \/ n \in broken'
         \/ Connected(t) /\ n = LowestFree /\ table'[n] = c
<1>0. table \in [Fds -> Channels \cup {"free"}]
  BY DEF TypeInv, FileType
<1>1. CASE Disconnect(t)
  <2>1. \/ UNCHANGED <<table, broken>>
        \/ table' = [table EXCEPT ![fd[c]] = "free"] /\ broken' = broken \ {fd[c]}
    BY <1>1 DEF Disconnect, CloseFd
  <2>2. QED
    BY <1>0, <2>1
<1>2. CASE Connected(t)
  <2>1. table' = [table EXCEPT ![LowestFree] = c] /\ broken' = broken
    BY <1>2 DEF Connected
  <2>2. QED
    BY <1>0, <1>2, <2>1
<1>3. CASE NotConnected(t)
  <2>1. \/ UNCHANGED <<table, broken>>
        \/ table' = [table EXCEPT ![LowestFree] = c] /\ broken' = broken \cup {LowestFree}
    BY <1>3 DEF NotConnected
  <2>2. QED
    BY <1>0, <2>1
<1>4. CASE ~(Disconnect(t) \/ Connected(t) \/ NotConnected(t))
  <2>1. UNCHANGED <<table, broken>>
    BY <1>4 DEF Step, files, Wake, Abort, GiveUp, Proceed, StopPolling, Succeeded, Retry,
       AlreadyActive, Ready, Register, StartPolling, ReconnectWithin, SetActive, PollEnds, PollFails
  <2>2. QED
    BY <2>1
<1>5. QED
  BY <1>1, <1>2, <1>3, <1>4

LEMMA OwnStep ==
  ASSUME TypeInv, ApartInv, OwnInv, NEW c \in Channels, NEW t \in Ids, threads[t].ch = c, Step(t),
         apart', \A d \in Channels : Kept(d)
  PROVE  OwnInv'
<1> SUFFICES ASSUME NEW d \in Channels, NEW n \in Fds, Remembers(d, n)'
             PROVE  table'[n] \in {"free", d} \/ n \in broken'
  BY DEF OwnInv
<1>1. CASE Remembers(d, n) /\ ~(Connected(t) /\ n = LowestFree)
  BY <1>1, StepTable DEF OwnInv
<1>2. CASE Connected(t) /\ n = LowestFree
  <2>1. d = c
    BY <1>2, OthersForget DEF Connected
  <2>2. QED
    BY <2>1, StepTable, <1>2, LowestIsFree DEF Connected, TypeInv, FileType
<1>3. QED
  BY <1>1, <1>2, StepRemembers, OthersForget

\* A reconnection gives up at its max_reconnects + 1st attempt; no other step but a write
\* to a connection just lost ends the process.
LEMMA DeathStep ==
  ASSUME TypeInv, DeathInv, NEW c \in Channels, Kept(c), NEW t \in Ids, threads[t].ch = c, Step(t)
  PROVE  DeathInv'
<1>0. attempts[c] \in Nat /\ death = "no" /\ FlagInv(c)
  BY DEF TypeInv, FlagType, Kept, Step, Wake, Abort, GiveUp, Proceed, StopPolling, Disconnect,
     Succeeded, Retry, AlreadyActive, Connected, NotConnected, Ready, Register, StartPolling,
     ReconnectWithin, SetActive, PollEnds, PollFails
<1>1. CASE GiveUp(t)
  <2>1. attempts'[c] = MaxReconnects + 1
    BY <1>0, <1>1, Bounds DEF GiveUp, FlagInv
  <2>2. QED
    BY <1>1, <2>1 DEF GiveUp, DeathInv
<1>2. CASE StartPolling(t)
  <2>1. InCall(c, t) /\ Connects(t)
    BY <1>2 DEF StartPolling, InCall, Connects
  <2>2. ~handle[c]
    BY <2>1 DEF Kept, CallInv
  <2>3. QED
    BY <1>2, <2>2 DEF StartPolling, DeathInv
<1>3. CASE Register(t)
  BY <1>0, <1>3 DEF Register, DeathInv
<1>4. QED
  BY <1>0, <1>1, <1>2, <1>3 DEF Step, DeathInv, Wake, Abort, Proceed, StopPolling, Disconnect,
     Succeeded, Retry, AlreadyActive, Connected, NotConnected, Ready, ReconnectWithin,
     SetActive, PollEnds, PollFails

-----------------------------------------------------------------------------
(* The outside, and the invariant at last.                                 *)

\* Each number is read by one thread.
LEMMA NoShortRead ==
  ASSUME TypeInv, ApartInv, \A c \in Channels : Kept(c), NEW t \in Ids
  PROVE  ~ShortRead(t)
<1> SUFFICES ASSUME NEW u \in Ids \ {t}, threads[t].pc = "select", threads[u].pc = "select",
                    threads[u].readFd = threads[t].readFd
             PROVE  FALSE
  BY DEF ShortRead
<1> DEFINE c == threads[t].ch
           d == threads[u].ch
           n == threads[t].readFd
<1>1. c \in Channels /\ d \in Channels
  BY DEF TypeInv, Thread
<1>2. Polls(c, t) /\ Polls(d, u)
  BY DEF Polls
<1>3. n \in Fds
  BY <1>1, <1>2 DEF Kept, PollInv
<1>4. Remembers(c, n) /\ Remembers(d, n)
  BY DEF Remembers, Pollers
<1>5. c = d
  BY <1>1, <1>3, <1>4 DEF ApartInv
<1>6. QED
  BY <1>1, <1>2, <1>5 DEF Kept, OneEach

\* A connection is lost of a channel that no call is at work for.
LEMMA PeerKeeps ==
  ASSUME TypeInv, NEW n \in Fds, PeerCloses(n), calm', NEW c \in Channels, Kept(c)
  PROVE  Kept(c)'
<1>1. /\ UNCHANGED <<process, table, fd, attempts, flags, threads>>
      /\ broken' = broken \cup {n} /\ Calls(table[n]) = {}
  BY DEF PeerCloses, Disturbs
<1>2. CASE table[n] = c
  <2>1. \A t \in Ids : ~InCall(c, t)
    BY <1>1, <1>2 DEF Calls, InCall
  <2>2. /\ \A t \in Ids : ~InCall(c, t)'
        /\ \A t \in Ids : Polls(c, t)' => Polls(c, t) /\ PollInv(c, t)'
    BY <1>1, <2>1 DEF Kept, Polls, PollInv, InCall
  <2>3. OneEach(c)' /\ FlagInv(c)'
    BY <1>1 DEF Kept, OneEach, FlagInv, InCall, Polls
  <2>4. QED
    BY <2>2, <2>3 DEF Kept
<1>3. CASE table[n] # c
  <2>1. Elsewhere(c)
    BY <1>1, <1>3 DEF Elsewhere, InCall, Polls, Works, Broken
  <2>2. QED
    BY <2>1, ElsewhereKeeps
<1>4. QED
  BY <1>2, <1>3

LEMMA DropKeeps ==
  ASSUME TypeInv, ApartInv, NEW d \in Channels, TickDrops(d) \/ TickForgets(d), calm',
         NEW c \in Channels, Kept(c)
  PROVE  Kept(c)'
<1>0. fd \in [Channels -> Fds \cup {-1}] /\ table \in [Fds -> Channels \cup {"free"}]
  BY DEF TypeInv, FileType
<1>1. /\ UNCHANGED <<process, attempts, flags, threads>>
      /\ fd' \in {fd, [fd EXCEPT ![d] = -1]} /\ Calls(d) = {}
  BY DEF TickDrops, TickForgets, Disturbs
<1>2. CASE d = c
  <2>1. (\A t \in Ids : ~InCall(c, t)) /\ fd'[c] \in {fd[c], -1}
    BY <1>0, <1>1, <1>2 DEF Calls, InCall
  <2>2. /\ \A t \in Ids : ~InCall(c, t)'
        /\ \A t \in Ids : Polls(c, t)' => Polls(c, t) /\ PollInv(c, t)'
    BY <1>1, <2>1, Bounds DEF Kept, Polls, PollInv, InCall
  <2>3. OneEach(c)' /\ FlagInv(c)'
    BY <1>1 DEF Kept, OneEach, FlagInv, InCall, Polls
  <2>4. QED
    BY <2>2, <2>3 DEF Kept
<1>3. CASE d # c
  <2>1. fd'[c] = fd[c] /\ (fd[c] > 0 => fd[c] \in Fds)
    BY <1>0, <1>1, <1>3
  <2>2. \/ UNCHANGED <<table, broken>>
        \/ fd[d] \in Fds /\ table' = [table EXCEPT ![fd[d]] = "free"] /\ broken' = broken \ {fd[d]}
    BY <1>0 DEF TickDrops, TickForgets, CloseFd
  <2>3. fd[d] \in Fds => fd[c] # fd[d]
    BY <1>3 DEF ApartInv, Remembers
  <2>4. (Works(c) => Works(c)') /\ (Broken(c) => Broken(c)')
    <3>1. fd[c] > 0 => table'[fd[c]] = table[fd[c]] /\ (fd[c] \in broken' <=> fd[c] \in broken)
      BY <1>0, <2>1, <2>2, <2>3
    <3>2. QED
      BY <2>1, <3>1 DEF Works, Broken
  <2>5. Elsewhere(c)
    BY <1>1, <2>1, <2>4 DEF Elsewhere, InCall, Polls
  <2>6. QED
    BY <2>5, ElsewhereKeeps
<1>4. QED
  BY <1>2, <1>3

LEMMA OutsideKeeps ==
  ASSUME TypeInv, ApartInv, OwnInv, DeathInv, \A c \in Channels : Kept(c), calm',
         \/ UNCHANGED vars
         \/ \E n \in Fds : PeerCloses(n)
         \/ \E d \in Channels : TickDrops(d) \/ TickForgets(d) \/ Incoming(d)
         \/ HubDies
  PROVE  ApartInv' /\ OwnInv' /\ DeathInv' /\ \A c \in Channels : Kept(c)'
<1>1. /\ UNCHANGED <<attempts, threads>>
      /\ death' = death \/ death' = "pipe"
  BY DEF vars, PeerCloses, TickDrops, TickForgets, Incoming, HubDies, files
<1>2. DeathInv'
  BY <1>1 DEF DeathInv
<1>3. \A c \in Channels : fd'[c] = fd[c] \/ fd'[c] = -1
  BY DEF vars, PeerCloses, TickDrops, TickForgets, Incoming, HubDies, TypeInv, FileType
<1>4. \A c \in Channels, n \in Fds : Remembers(c, n)' => Remembers(c, n)
  BY <1>1, <1>3, Bounds DEF Remembers, Pollers
<1>5. ApartInv'
  BY <1>4 DEF ApartInv
<1>6. ASSUME NEW c \in Channels PROVE Kept(c)'
  <2>1. CASE UNCHANGED vars \/ HubDies \/ \E d \in Channels : Incoming(d)
    <3>1. UNCHANGED <<files, fd, attempts, flags, threads>>
      BY <2>1 DEF vars, HubDies, Incoming
    <3>2. Elsewhere(c)
      BY <3>1 DEF Elsewhere, InCall, Polls, Works, Broken
    <3>3. QED
      BY <3>2, ElsewhereKeeps
  <2>2. QED
    BY <2>1, PeerKeeps, DropKeeps
<1>7. ASSUME NEW n \in Fds
      PROVE  \/ table'[n] = table[n] /\ (n \in broken => n \in broken')
             \/ table'[n] = "free"
  <2>1. CASE UNCHANGED table /\ broken \subseteq broken'
    BY <2>1
  <2>2. ASSUME NEW d \in Channels, TickDrops(d)
        PROVE  \/ table'[n] = table[n] /\ (n \in broken => n \in broken')
               \/ table'[n] = "free"
    <3>1. \/ UNCHANGED <<table, broken>>
          \/ table' = [table EXCEPT ![fd[d]] = "free"] /\ broken' = broken \ {fd[d]}
      BY <2>2 DEF TickDrops, CloseFd
    <3>2. table \in [Fds -> Channels \cup {"free"}]
      BY DEF TypeInv, FileType
    <3>3. QED
      BY <3>1, <3>2
  <2>3. QED
    BY <2>1, <2>2 DEF vars, files, PeerCloses, TickForgets, Incoming, HubDies
<1>8. OwnInv'
  BY <1>4, <1>7 DEF OwnInv
<1>9. QED
  BY <1>2, <1>5, <1>6, <1>8

LEMMA KeeperStep == KeeperInv /\ [Next]_vars => KeeperInv'
<1> SUFFICES ASSUME KeeperInv, [Next]_vars PROVE KeeperInv'
  OBVIOUS
<1>1. TypeInv /\ TypeInv'
  BY TypeStep DEF KeeperInv
<1>2. ASSUME calm', apart' PROVE ApartInv' /\ OwnInv' /\ DeathInv' /\ \A c \in Channels : Kept(c)'
  <2>1. calm /\ apart
    <3>1. ASSUME NEW t \in Ids, Step(t) PROVE calm /\ apart
      BY <3>1, <1>1, <1>2 DEF files, Step, Wake, Abort, GiveUp, Proceed, StopPolling,
         Disconnect, Succeeded, Retry, AlreadyActive, Connected, NotConnected, Ready, Register,
         StartPolling, ReconnectWithin, SetActive, PollEnds, PollFails
    <3>2. ASSUME NEW t \in Ids, Interrupted(t) \/ ShortRead(t) PROVE calm /\ apart
      BY <3>2, <1>2 DEF files, Interrupted, ShortRead
    <3>3. ASSUME NEW n \in Fds, PeerCloses(n) PROVE calm /\ apart
      BY <3>3, <1>2 DEF PeerCloses, Disturbs
    <3>4. ASSUME NEW c \in Channels, TickDrops(c) \/ TickForgets(c) \/ Incoming(c)
          PROVE  calm /\ apart
      BY <3>4, <1>2 DEF files, TickDrops, TickForgets, Incoming, Disturbs
    <3>5. CASE HubDies \/ UNCHANGED vars
      BY <3>5, <1>2 DEF vars, files, HubDies
    <3>6. QED
      BY <3>1, <3>2, <3>3, <3>4, <3>5 DEF Next
  <2>2. ApartInv /\ OwnInv /\ DeathInv /\ \A c \in Channels : Kept(c)
    BY <2>1 DEF KeeperInv
  <2>3. ASSUME NEW t \in Ids, Step(t) PROVE ApartInv' /\ OwnInv' /\ DeathInv' /\ \A c \in Channels : Kept(c)'
    <3>1. PICK c \in Channels : threads[t].ch = c
      BY <1>1 DEF TypeInv, Thread
    <3>2. Kept(c)'
      BY <1>1, <2>2, <2>3, <3>1, SeekKeeps, AfterKeeps, ConnectKeeps, StartKeeps, PollKeeps DEF Step
    <3>3. \A d \in Channels \ {c} : Kept(d)'
      BY <1>1, <1>2, <2>2, <2>3, <3>1, StepElsewhere, ElsewhereKeeps
    <3>4. ApartInv' /\ OwnInv' /\ DeathInv'
      BY <1>1, <1>2, <2>2, <2>3, <3>1, ApartStep, OwnStep, DeathStep
    <3>5. QED
      BY <3>2, <3>3, <3>4
  <2>4. CASE \/ UNCHANGED vars
             \/ \E n \in Fds : PeerCloses(n)
             \/ \E d \in Channels : TickDrops(d) \/ TickForgets(d) \/ Incoming(d)
             \/ HubDies
    BY <1>1, <1>2, <2>2, <2>4, OutsideKeeps
  <2>5. \A t \in Ids : ~Interrupted(t)
    BY <1>2 DEF Interrupted
  <2>6. QED
    BY <1>1, <2>2, <2>3, <2>4, <2>5, NoShortRead DEF Next
<1>3. QED
  BY <1>1, <1>2 DEF KeeperInv

-----------------------------------------------------------------------------
(* The theorems.                                                           *)

LEMMA KeeperAlways == Spec => []KeeperInv
BY KeeperInit, KeeperStep, PTL DEF Spec

LEMMA AtMostOne ==
  ASSUME NEW S, \A x, y \in S : x = y
  PROVE  Cardinality(S) <= 1
<1>1. CASE S = {}
  BY <1>1, FS_EmptySet
<1>2. ASSUME NEW x \in S PROVE Cardinality(S) <= 1
  <2>1. S = {x}
    BY <1>2
  <2>2. QED
    BY <2>1, FS_Singleton
<1>3. QED
  BY <1>1, <1>2

\* One thread at a time keeps each channel, and while it is polled and nobody reconnects
\* its flags say so; as long as no connection is lost during a reconnection of its channel,
\* no signal interrupts a poll thread, and no descriptor number is opened that another
\* channel remembers.
THEOREM KeeperCorrect == Spec => [](apart => OneKeeper)
<1>1. KeeperInv => (apart => OneKeeper)
  <2> SUFFICES ASSUME KeeperInv, apart, calm, NEW c \in Channels
               PROVE  /\ Cardinality(Calls(c)) <= 1 /\ Cardinality(Pollers(c)) <= 1
                      /\ Calls(c) = {} /\ Pollers(c) # {} => active[c] /\ pipeRunning[c] /\ handle[c]
    BY DEF OneKeeper
  <2>1. Kept(c)
    BY DEF KeeperInv
  <2>2. \A t, u \in Calls(c) : t = u
    BY <2>1 DEF Kept, OneEach, InCall, Calls
  <2>3. \A t, u \in Pollers(c) : t = u
    BY <2>1 DEF Kept, OneEach, Polls, Pollers
  <2>4. ASSUME Calls(c) = {}, NEW t \in Pollers(c) PROVE active[c] /\ pipeRunning[c] /\ handle[c]
    <3>1. PollInv(c, t) /\ FlagInv(c)
      BY <2>1 DEF Kept, Polls, Pollers
    <3>2. \A u \in Ids : ~InCall(c, u)
      BY <2>4 DEF Calls, InCall
    <3>3. QED
      BY <3>1, <3>2 DEF PollInv, FlagInv
  <2>5. QED
    BY <2>2, <2>3, <2>4, AtMostOne
<1>2. QED
  BY <1>1, KeeperAlways, PTL

\* Under the same premises a channel ends the process only by giving up, after one attempt
\* more than max_reconnects, or by a write to a connection just lost.
THEOREM DeathCorrect == Spec => [](apart => DiesOfAttempts)
<1>1. KeeperInv => (apart => DiesOfAttempts)
  BY DEF KeeperInv, DeathInv, DiesOfAttempts
<1>2. QED
  BY <1>1, KeeperAlways, PTL

\* Under the same premises no activate() waits for a descriptor that was closed under it.
THEOREM NobodySpins == Spec => [](calm /\ apart => \A t \in Ids : ~Spins(t))
<1>1. KeeperInv => (calm /\ apart => \A t \in Ids : ~Spins(t))
  <2> SUFFICES ASSUME KeeperInv, calm, apart, NEW t \in Ids, Spins(t) PROVE FALSE
    OBVIOUS
  <2>1. PICK c \in Channels : c = threads[t].ch
    BY DEF KeeperInv, TypeInv, Thread
  <2>2. Works(c)
    BY <2>1 DEF KeeperInv, Kept, InCall, CallInv, Connects, Spins
  <2>3. fd[c] \in Fds \cup {-1}
    BY DEF KeeperInv, TypeInv, FileType
  <2>4. QED
    BY <2>1, <2>2, <2>3, Bounds, ChannelAssumption DEF Works, Spins, IsOpen
<1>2. QED
  BY <1>1, KeeperAlways, PTL

\* The number that disconnect() closes is that of a connection that no longer works.
LEMMA ClosesBroken ==
  ASSUME TypeInv, NEW t \in Ids, \A c \in Channels : Kept(c), Disconnect(t),
         NEW n \in Fds, table[n] # "free", n \notin broken
  PROVE  table'[n] # "free"
<1>1. PICK c \in Channels : threads[t].ch = c
  BY DEF TypeInv, Thread
<1>2. InCall(c, t) /\ Seeks(t)
  BY <1>1 DEF Disconnect, InCall, Seeks
<1>3. Broken(c)
  BY <1>2 DEF Kept, CallInv
<1>4. n # fd[c] \/ ~(fd[c] > 0)
  BY <1>3 DEF Broken
<1>5. UNCHANGED table \/ (fd[c] > 0 /\ table' = [table EXCEPT ![fd[c]] = "free"])
  BY <1>1 DEF Disconnect, CloseFd
<1>6. table'[n] = table[n]
  BY <1>4, <1>5 DEF TypeInv, FileType
<1>7. QED
  BY <1>6

\* tick() closes the number that its channel remembers: no other channel's that works.
LEMMA DropsOwn ==
  ASSUME TypeInv, OwnInv, NEW c \in Channels, TickDrops(c), NEW n \in Fds, table[n] # "free",
         n \notin broken, table'[n] = "free"
  PROVE  table[n] \in dropping' \ dropping
<1>0. fd \in [Channels -> Fds \cup {-1}] /\ table \in [Fds -> Channels \cup {"free"}]
  BY DEF TypeInv, FileType
<1>1. fd[c] = n
  BY <1>0 DEF TickDrops, CloseFd
<1>2. table[n] = c
  BY <1>1 DEF OwnInv, Remembers
<1>3. QED
  BY <1>0, <1>2 DEF TickDrops

LEMMA TakesNoneDown == KeeperInv /\ apart /\ [Next]_vars => [apart => TakesDownNone]_vars
<1> SUFFICES ASSUME KeeperInv, Next, apart, calm, NEW n \in Fds, table[n] # "free", n \notin broken,
                    table'[n] = "free"
             PROVE  table[n] \in dropping' \ dropping
  BY DEF TakesDownNone
<1>1. TypeInv /\ OwnInv /\ \A c \in Channels : Kept(c)
  BY DEF KeeperInv
<1>2. \A t \in Ids : ~Disconnect(t)
  BY <1>1, ClosesBroken
<1>3. ASSUME NEW t \in Ids, Step(t) PROVE FALSE
  <2>1. PICK c \in Channels : threads[t].ch = c
    BY <1>1 DEF TypeInv, Thread
  <2>2. CASE Connected(t) \/ NotConnected(t)
    <3>1. table' = table \/ table' = [table EXCEPT ![LowestFree] = c]
      BY <2>1, <2>2 DEF Connected, NotConnected
    <3>2. QED
      BY <1>1, <3>1, ChannelAssumption DEF TypeInv, FileType
  <2>3. CASE UNCHANGED table
    BY <2>3
  <2>4. QED
    BY <1>2, <1>3, <2>2, <2>3 DEF Step, files, Wake, Abort, GiveUp, Proceed, StopPolling,
       Succeeded, Retry, AlreadyActive, Ready, Register, StartPolling, ReconnectWithin, SetActive,
       PollEnds, PollFails
<1>4. PICK c \in Channels : TickDrops(c)
  BY <1>3 DEF Next, files, Interrupted, ShortRead, PeerCloses, TickForgets, Incoming, HubDies
<1>5. QED
  BY <1>1, <1>4, DropsOwn

\* Under the same premises, of several channels as of one, reconnect() never closes a
\* connection that works.
THEOREM ConnectionsKept == Spec => [][apart => TakesDownNone]_vars
<1>1. KeeperInv /\ [Next]_vars => [apart => TakesDownNone]_vars
  BY TakesNoneDown DEF vars
<1>2. QED
  BY <1>1, KeeperAlways, PTL DEF Spec

-----------------------------------------------------------------------------
(* A channel that is alone in its process: nobody else opens descriptors.  *)

Single == \A c, d \in Channels : c = d

LEMMA SingleApart == Single /\ Spec => []apart
<1>1. Init => apart
  BY DEF Init
<1>2. Single /\ TypeInv /\ apart /\ [Next]_vars => apart'
  <2> SUFFICES ASSUME Single, TypeInv, apart, [Next]_vars PROVE apart'
    OBVIOUS
  <2>1. ASSUME NEW t \in Ids, Connected(t) PROVE apart'
    <3>1. threads[t].ch \in Channels
      BY DEF TypeInv, Thread
    <3>2. QED
      BY <2>1, <3>1 DEF Connected, Single
  <2>2. ASSUME NEW t \in Ids, Step(t) PROVE apart'
    BY <2>1, <2>2 DEF files, Step, Wake, Abort, GiveUp, Proceed, StopPolling,
       Disconnect, Succeeded, Retry, AlreadyActive, NotConnected, Ready, Register,
       StartPolling, ReconnectWithin, SetActive, PollEnds, PollFails
  <2>3. ASSUME NEW t \in Ids, Interrupted(t) \/ ShortRead(t) PROVE apart'
    BY <2>3 DEF files, Interrupted, ShortRead
  <2>4. QED
    BY <2>2, <2>3 DEF Next, vars, files, PeerCloses, TickDrops, TickForgets, Incoming, HubDies
<1>3. Single => Single'
  BY DEF Single
<1>4. Spec => []TypeInv
  BY TypeInit, TypeStep, PTL DEF Spec
<1>5. QED
  BY <1>1, <1>2, <1>3, <1>4, PTL DEF Spec

\* One thread at a time keeps a channel that is alone in its process, as long as no
\* connection is lost during a reconnection.
THEOREM LoneKeeper == Single /\ Spec => []OneKeeper
BY SingleApart, KeeperCorrect, PTL

\* Such a channel ends the process only by giving up or by a write to a lost connection.
THEOREM LoneDeath == Single /\ Spec => []DiesOfAttempts
BY SingleApart, DeathCorrect, PTL

\* Such a channel never closes its connection while it works.
THEOREM LoneConnection == Single /\ Spec => KeepsWorkingConnections
BY SingleApart, ConnectionsKept, PTL DEF KeepsWorkingConnections

-----------------------------------------------------------------------------
(* Nobody forgets a channel: whatever is lost while it reconnects, and     *)
(* whatever number its connection gets.                                    *)

\* What a thread does, or a signal to it.
Acts(t) == Step(t) \/ Interrupted(t)

Of(c, t)  == threads[t].ch = c /\ threads[t].pc # "none"
Own(c, t) == Of(c, t) /\ threads[t].caller # HubCall

\* A delayed attempt and a poll thread are detached; the caller of a nested reconnect()
\* is a startPolling() of the same channel, which waits for that call alone.
StackInv ==
  /\ \A t \in Ids : threads[t].pc \in {"sleep", "select"} => threads[t].caller = Nobody
  /\ \A t, u \in Ids : threads[t].pc # "none" /\ threads[t].caller = u =>
       u # t /\ threads[u].pc = "within" /\ threads[u].ch = threads[t].ch
  /\ \A t, v \in Ids : threads[t].pc # "none" /\ threads[v].pc # "none" =>
       (threads[t].caller \in Ids /\ threads[t].caller = threads[v].caller => t = v)

\* What a step of a call does to the threads, by its form.
Others(S)  == \A v \in Ids \ S : threads'[v] = threads[v]
Passes(t, p) == threads'[t].pc = p /\ threads'[t].ch = threads[t].ch
                  /\ threads'[t].caller = threads[t].caller
Ends(t)    == threads'[t].pc = "none"
Starts(n, p, c, u) == threads[n].pc = "none" /\ threads'[n].pc = p /\ threads'[n].ch = c
                        /\ threads'[n].caller = u

Turn(t) ==        \* it goes on
  \E p \in Pcs \ {"none", "select", "within"} :
    /\ Passes(t, p) /\ Others({t}) /\ threads[t].pc \notin {"none", "select", "within"}
    /\ p = "sleep" => threads[t].caller = Nobody
    /\ p = "enter" => threads[t].pc = "sleep"
    /\ p = "activate" => threads[t].pc = "close"
    /\ p = "ready" => threads[t].pc = "activate"
    /\ p = "register" => threads[t].pc = "ready"
    /\ p = "launch" => threads[t].pc = "register"
    /\ p \in {"sleep", "stop", "close", "after"} =>
         threads[t].caller # HubCall \/ threads[t].pc \in {"after", "enter", "stop"}

Finish(t) ==      \* it ends, and nobody waits for it but the hub
  /\ Ends(t) /\ Others({t}) /\ threads[t].pc \notin {"none", "within"}
  /\ threads[t].caller \notin Ids
  /\ \/ ~alive \/ threads[t].caller = HubCall
     \/ threads[t].pc = "select" /\ ~pipeRunning[threads[t].ch]
     \/ threads[t].pc = "after" /\ pipeRunning[threads[t].ch]

HandBack(t) ==    \* it ends, and its caller goes on, or ends with it
  \E u \in Ids : /\ threads[t].caller = u /\ threads[t].pc \in {"enter", "after"}
                 /\ Ends(t) /\ Others({t, u})
                 /\ \/ Passes(u, "setActive") /\ (~alive \/ pipeRunning[threads[t].ch])
                    \/ Passes(u, "after") /\ threads[u].caller # HubCall
                    \/ Ends(u) /\ threads[t].pc = "enter" /\ threads[u].caller = HubCall
                         /\ attempts[threads[t].ch] > MaxReconnects

HandOn(t) ==      \* it ends, its caller goes on, and a delayed attempt follows
  \E u, n \in Ids : /\ threads[t].caller = u /\ threads[t].pc = "after"
                    /\ Ends(t) /\ Passes(u, "setActive") /\ n # t /\ n # u
                    /\ Starts(n, "sleep", threads[t].ch, Nobody) /\ Others({t, u, n})

Fork(t) ==        \* it starts a poll thread, or a reconnection within itself
  \E n \in Ids : /\ threads[t].pc = "launch" /\ n # t /\ Others({t, n})
                 /\ \/ Passes(t, "setActive") /\ Starts(n, "select", threads[t].ch, Nobody)
                         /\ pipeRunning'[threads[t].ch]
                    \/ Passes(t, "within") /\ Starts(n, "enter", threads[t].ch, t)

Fail(t) ==        \* the poll thread makes way for a reconnection
  /\ threads[t].pc = "select" /\ Others({t}) /\ threads'[t].pc = "enter"
  /\ threads'[t].ch = threads[t].ch /\ threads'[t].caller = Nobody

LEMMA ActivateEndsForm ==
  ASSUME threads \in [Ids -> Thread], NEW t \in Ids, ActivateEnds(t),
         threads[t].pc \in {"activate", "register", "setActive"}
  PROVE  Turn(t) \/ (Finish(t) /\ threads[t].caller = HubCall)
<1>1. CASE threads[t].caller = HubCall
  BY <1>1, Bounds DEF Finish, Ends, Others, ActivateEnds, Idle
<1>2. CASE threads[t].caller # HubCall
  <2>1. threads' = [threads EXCEPT ![t].pc = "after"]
    BY <1>2 DEF ActivateEnds
  <2>2. Passes(t, "after") /\ Others({t})
    BY <2>1 DEF Passes, Others, Thread
  <2>3. QED
    BY <1>2, <2>2 DEF Turn, Pcs
<1>3. QED
  BY <1>1, <1>2

LEMMA ReturnedForm ==
  ASSUME threads \in [Ids -> Thread], StackInv, NEW t \in Ids, threads' = Returned(t),
         \/ threads[t].pc = "enter" /\ ~alive
         \/ threads[t].pc = "after" /\ pipeRunning[threads[t].ch]
  PROVE  Finish(t) \/ HandBack(t)
<1>1. CASE threads[t].caller \notin Ids
  BY <1>1 DEF Returned, Finish, Ends, Others, Idle
<1>2. ASSUME NEW u \in Ids, threads[t].caller = u PROVE HandBack(t)
  <2>1. u # t
    BY <1>2 DEF StackInv
  <2> DEFINE ts == [threads EXCEPT ![t] = Idle]
  <2>2. ts[u] = threads[u] /\ ts[t].pc = "none" /\ \A v \in Ids \ {t} : ts[v] = threads[v]
    BY <2>1 DEF Idle
  <2>3. ts \in [Ids -> Thread]
    BY ThreadValues, ThreadUpdate DEF Pcs
  <2>4. threads' = [ts EXCEPT ![u].pc = "setActive"]
    BY <1>2 DEF Returned
  <2> HIDE DEF ts
  <2>5. Ends(t) /\ Others({t, u}) /\ Passes(u, "setActive")
    BY <2>1, <2>2, <2>3, <2>4 DEF Ends, Others, Passes, Thread
  <2>6. QED
    BY <1>2, <2>5 DEF HandBack
<1>3. QED
  BY <1>1, <1>2

LEMMA StepForms ==
  ASSUME TypeInv, StackInv, NEW t \in Ids, Acts(t)
  PROVE  \/ threads' = threads \/ Turn(t) \/ Finish(t) \/ HandBack(t) \/ HandOn(t)
         \/ Fork(t) \/ Fail(t)
<1>0. threads \in [Ids -> Thread]
  BY DEF TypeInv
<1>1. CASE Abort(t) \/ Succeeded(t)
  BY <1>0, <1>1, ReturnedForm DEF Abort, Succeeded
<1>2. CASE AlreadyActive(t) \/ NotConnected(t) \/ SetActive(t)
  BY <1>0, <1>2, ActivateEndsForm DEF AlreadyActive, NotConnected, SetActive
<1>3. ASSUME NEW p \in {"enter", "stop", "close", "activate", "ready", "register",
                         "launch"},
             threads' = [threads EXCEPT ![t].pc = p],
             \/ threads[t].pc = "sleep" /\ p = "enter"
             \/ threads[t].pc = "enter" /\ p = "stop"
             \/ threads[t].pc = "stop" /\ p = "close"
             \/ threads[t].pc = "close" /\ p = "activate"
             \/ threads[t].pc = "activate" /\ p = "ready"
             \/ threads[t].pc = "ready" /\ p = "register"
             \/ threads[t].pc = "register" /\ p = "launch"
      PROVE  Turn(t)
  <2>1. Passes(t, p) /\ Others({t})
    BY <1>0, <1>3 DEF Passes, Others, Thread
  <2>2. QED
    BY <1>3, <2>1 DEF Turn, Pcs
<1>4. CASE Wake(t) \/ Proceed(t) \/ StopPolling(t) \/ Disconnect(t) \/ Connected(t) \/ Ready(t)
  BY <1>3, <1>4 DEF Wake, Proceed, StopPolling, Disconnect, Connected, Ready
<1>5. CASE Register(t)
  BY <1>0, <1>3, <1>5, ActivateEndsForm DEF Register
<1>6. CASE GiveUp(t)
  <2>1. CASE threads[t].caller \notin Ids
    BY <1>6, <2>1 DEF GiveUp
  <2>2. ASSUME NEW u \in Ids, threads[t].caller = u PROVE HandBack(t)
    <3>1. u # t /\ threads[t].pc = "enter" /\ attempts[threads[t].ch] > MaxReconnects
      BY <1>6, <2>2 DEF GiveUp, StackInv
    <3> DEFINE ts == [threads EXCEPT ![t] = Idle]
    <3>2. ts[u] = threads[u] /\ ts[t].pc = "none" /\ \A v \in Ids \ {t} : ts[v] = threads[v]
      BY <1>0, <3>1 DEF Idle
    <3>3. ts \in [Ids -> Thread]
      BY <1>0, ThreadValues, ThreadUpdate DEF Pcs
    <3>4. threads' = [ts EXCEPT ![u] = IF @.caller = HubCall THEN Idle
                                         ELSE [@ EXCEPT !.pc = "after"]]
      BY <1>6, <2>2 DEF GiveUp
    <3> HIDE DEF ts
    <3>5. Ends(t) /\ Others({t, u})
      BY <3>1, <3>2, <3>3, <3>4 DEF Ends, Others
    <3>6. CASE threads[u].caller = HubCall
      <4>1. Ends(u)
        BY <3>2, <3>3, <3>4, <3>6 DEF Ends, Idle
      <4>2. QED
        BY <2>2, <3>1, <3>5, <3>6, <4>1 DEF HandBack
    <3>7. CASE threads[u].caller # HubCall
      <4>1. threads'[u] = [threads[u] EXCEPT !.pc = "after"]
        BY <3>2, <3>3, <3>4, <3>7
      <4>2. Passes(u, "after")
        BY <1>0, <4>1 DEF Passes, Thread
      <4>3. QED
        BY <2>2, <3>1, <3>5, <3>7, <4>2 DEF HandBack
    <3>8. QED
      BY <3>6, <3>7
  <2>3. QED
    BY <2>1, <2>2
<1>7. CASE Retry(t)
  <2>1. CASE threads[t].caller = Nobody
    <3>1. threads' = [threads EXCEPT ![t].pc = "sleep"] /\ threads[t].pc = "after"
      BY <1>7, <2>1 DEF Retry
    <3>2. Passes(t, "sleep") /\ Others({t})
      BY <1>0, <3>1 DEF Passes, Others, Thread
    <3>3. QED
      BY <2>1, <3>1, <3>2 DEF Turn, Pcs
  <2>2. ASSUME NEW u \in Ids, threads[t].caller = u PROVE HandOn(t)
    <3> DEFINE c == threads[t].ch
               ts == Returned(t)
    <3>1. Unused # {} /\ threads[t].pc = "after"
          /\ threads' = [ts EXCEPT ![NewThread] = Call("sleep", c, Nobody)]
      BY <1>7, <2>2, Bounds DEF Retry
    <3>2. PICK n \in Ids : n = NewThread /\ threads[n].pc = "none"
      BY <3>1, NewIsUnused
    <3>3. u # t /\ threads[u].pc = "within" /\ n # t /\ n # u
      BY <2>2, <3>1, <3>2 DEF StackInv
    <3>4. ts = [[threads EXCEPT ![t] = Idle] EXCEPT ![u].pc = "setActive"]
      BY <2>2 DEF Returned
    <3>5. /\ ts[t].pc = "none" /\ ts[u].pc = "setActive" /\ ts[u].ch = threads[u].ch
          /\ ts[u].caller = threads[u].caller
          /\ \A v \in Ids \ {t, u} : ts[v] = threads[v]
      BY <1>0, <3>3, <3>4 DEF Idle, Thread
    <3>6. ts \in [Ids -> Thread]
      BY <1>0, ReturnedType
    <3>7. Call("sleep", c, Nobody).pc = "sleep" /\ Call("sleep", c, Nobody).ch = c
          /\ Call("sleep", c, Nobody).caller = Nobody
      BY DEF Call
    <3> HIDE DEF ts
    <3>8. Ends(t) /\ Passes(u, "setActive") /\ Others({t, u, n})
      BY <3>1, <3>2, <3>3, <3>5, <3>6 DEF Ends, Passes, Others
    <3>9. Starts(n, "sleep", c, Nobody)
      BY <3>1, <3>2, <3>6, <3>7 DEF Starts
    <3>10. QED
      BY <2>2, <3>1, <3>3, <3>8, <3>9 DEF HandOn
  <2>3. QED
    BY <1>7, <2>1, <2>2 DEF Retry
<1>8. CASE StartPolling(t) \/ ReconnectWithin(t)
  <2> DEFINE c == threads[t].ch
  <2>1. PICK n \in Ids : n = NewThread /\ threads[n].pc = "none"
    BY <1>8, NewIsUnused DEF StartPolling, ReconnectWithin
  <2>2. threads[t].pc = "launch" /\ n # t
    BY <1>8, <2>1 DEF StartPolling, ReconnectWithin
  <2>3. ASSUME NEW p \in Pcs, NEW x, threads' = [threads EXCEPT ![t].pc = p, ![n] = x]
        PROVE  Passes(t, p) /\ threads'[n] = x /\ Others({t, n})
    <3> DEFINE ts == [threads EXCEPT ![t].pc = p]
    <3>1. /\ ts[t].pc = p /\ ts[t].ch = threads[t].ch /\ ts[t].caller = threads[t].caller
          /\ \A v \in Ids \ {t} : ts[v] = threads[v]
      BY <1>0 DEF Thread
    <3>2. ts \in [Ids -> Thread]
      BY <1>0, ThreadUpdate, ThreadValues
    <3>3. threads' = [ts EXCEPT ![n] = x]
      BY <2>3
    <3> HIDE DEF ts
    <3>4. QED
      BY <2>2, <3>1, <3>2, <3>3 DEF Passes, Others
  <2>4. CASE StartPolling(t)
    <3>1. /\ threads' = [threads EXCEPT ![t].pc = "setActive", ![n] = Poller(c, fd[c])]
          /\ pipeRunning' = [pipeRunning EXCEPT ![c] = TRUE]
      BY <2>1, <2>4 DEF StartPolling
    <3>2. Passes(t, "setActive") /\ threads'[n] = Poller(c, fd[c]) /\ Others({t, n})
      BY <2>3, <3>1 DEF Pcs
    <3>3. c \in Channels /\ pipeRunning \in [Channels -> BOOLEAN]
      BY <1>0 DEF Thread, TypeInv, FlagType
    <3>4. Starts(n, "select", c, Nobody) /\ pipeRunning'[c]
      BY <2>1, <3>1, <3>2, <3>3 DEF Starts, Poller
    <3>5. QED
      BY <2>2, <3>2, <3>4 DEF Fork
  <2>5. CASE ReconnectWithin(t)
    <3>1. threads' = [threads EXCEPT ![t].pc = "within", ![n] = Call("enter", c, t)]
      BY <2>1, <2>5 DEF ReconnectWithin
    <3>2. Passes(t, "within") /\ threads'[n] = Call("enter", c, t) /\ Others({t, n})
      BY <2>3, <3>1 DEF Pcs
    <3>3. Starts(n, "enter", c, t)
      BY <2>1, <3>2 DEF Starts, Call
    <3>4. QED
      BY <2>2, <3>2, <3>3 DEF Fork
  <2>6. QED
    BY <1>8, <2>4, <2>5
<1>9. CASE PollEnds(t)
  <2>1. threads' = [threads EXCEPT ![t] = Idle] /\ threads[t].pc = "select"
        /\ (~pipeRunning[threads[t].ch] \/ ~alive)
    BY <1>9 DEF PollEnds
  <2>2. threads[t].caller \notin Ids
    BY <2>1 DEF StackInv
  <2>3. QED
    BY <1>0, <2>1, <2>2 DEF Finish, Ends, Others, Idle
<1>10. CASE PollFails(t) \/ Interrupted(t)
  <2>1. threads' = [threads EXCEPT ![t] = Call("enter", threads[t].ch, Nobody)]
        /\ threads[t].pc = "select"
    BY <1>10 DEF PollFails, Interrupted
  <2>2. QED
    BY <1>0, <2>1 DEF Fail, Others, Call
<1>11. QED
  BY <1>1, <1>2, <1>4, <1>5, <1>6, <1>7, <1>8, <1>9, <1>10 DEF Acts, Step

LEMMA StackStep ==
  ASSUME TypeInv, StackInv, NEW t \in Ids, Acts(t)
  PROVE  StackInv'
<1>0. threads \in [Ids -> Thread]
  BY DEF TypeInv
<1> USE DEF StackInv
<1>1. CASE threads' = threads
  BY <1>1
<1>2. CASE Turn(t)
  BY <1>2 DEF Turn, Passes, Others
<1>3. CASE Finish(t)
  BY <1>3 DEF Finish, Ends, Others
<1>4. CASE HandBack(t)
  BY <1>4 DEF HandBack, Passes, Ends, Others
<1>5. CASE HandOn(t)
  BY <1>5 DEF HandOn, Passes, Ends, Starts, Others
<1>6. CASE Fork(t)
  BY <1>6 DEF Fork, Passes, Starts, Others
<1>7. CASE Fail(t)
  BY <1>7 DEF Fail, Others
<1>8. QED
  BY <1>1, <1>2, <1>3, <1>4, <1>5, <1>6, <1>7, StepForms

\* The hub's own call of activate() finds a channel that nobody has touched, and so does
\* the reconnection it makes if its connection is dropped at once: it cannot give up.
Untouched(c, T) == attempts[c] = 0 /\ \A v \in Ids : Of(c, v) => v \in T

FirstInv ==
  \A t \in Ids : threads[t].pc # "none" /\ threads[t].caller = HubCall =>
    /\ threads[t].pc \in {"activate", "ready", "register", "launch", "within", "setActive"}
    /\ threads[t].pc \in {"activate", "ready", "register", "launch"} => Untouched(threads[t].ch, {t})
    /\ \A u \in Ids : threads[u].pc = "enter" /\ threads[u].caller = t =>
         Untouched(threads[t].ch, {t, u})

\* A step leaves the channels of other threads alone.
LEMMA OthersLeft ==
  ASSUME TypeInv, StackInv, NEW t \in Ids, Acts(t), NEW d \in Channels, d # threads[t].ch
  PROVE  /\ attempts'[d] = attempts[d] /\ pipeRunning'[d] = pipeRunning[d]
         /\ handle'[d] = handle[d]
         /\ \A v \in Ids : Of(d, v) \/ Of(d, v)' => threads'[v] = threads[v]
<1>0. threads \in [Ids -> Thread] /\ attempts \in [Channels -> Nat]
      /\ pipeRunning \in [Channels -> BOOLEAN] /\ handle \in [Channels -> BOOLEAN]
  BY DEF TypeInv, FlagType
<1>1. attempts'[d] = attempts[d]
  BY <1>0 DEF Acts, Step, Wake, Abort, GiveUp, Proceed, StopPolling, Disconnect, Succeeded, Retry,
     AlreadyActive, Connected, NotConnected, Ready, Register, StartPolling, ReconnectWithin,
     SetActive, PollEnds, PollFails, Interrupted
<1>2. pipeRunning'[d] = pipeRunning[d] /\ handle'[d] = handle[d]
  BY <1>0 DEF Acts, Step, Wake, Abort, GiveUp, Proceed, StopPolling, Disconnect, Succeeded, Retry,
     AlreadyActive, Connected, NotConnected, Ready, Register, StartPolling, ReconnectWithin,
     SetActive, PollEnds, PollFails, Interrupted
<1>3. ASSUME NEW v \in Ids, Of(d, v) \/ Of(d, v)' PROVE threads'[v] = threads[v]
  <2> USE <1>3 DEF Of
  <2>1. CASE threads' = threads
    BY <2>1
  <2>2. CASE Turn(t) \/ Finish(t) \/ Fail(t)
    BY <2>2 DEF Turn, Finish, Fail, Passes, Ends, Others
  <2>3. CASE HandBack(t) \/ HandOn(t)
    BY <2>3 DEF HandBack, HandOn, Passes, Ends, Starts, Others, StackInv
  <2>4. CASE Fork(t)
    BY <2>4 DEF Fork, Passes, Starts, Others
  <2>5. QED
    BY <2>1, <2>2, <2>3, <2>4, StepForms
<1>4. QED
  BY <1>1, <1>2, <1>3

\* Only the end of a reconnection counts attempts.
LEMMA AttemptsKept ==
  ASSUME NEW t \in Ids, Acts(t), threads[t].pc # "after"
  PROVE  attempts' = attempts
BY DEF Acts, Step, Wake, Abort, GiveUp, Proceed, StopPolling, Disconnect, Succeeded, Retry,
   AlreadyActive, Connected, NotConnected, Ready, Register, StartPolling, ReconnectWithin,
   SetActive, PollEnds, PollFails, Interrupted

LEMMA FirstStep ==
  ASSUME TypeInv, StackInv, FirstInv, NEW t \in Ids, Acts(t)
  PROVE  FirstInv'
<1>0. /\ threads \in [Ids -> Thread] /\ attempts \in [Channels -> Nat]
      /\ threads' \in [Ids -> Thread]
  BY TypeStep DEF TypeInv, FlagType, Next, Acts
<1>1. threads[t].ch \in Channels /\ threads[t].pc # "none"
  BY <1>0 DEF Thread, Acts, Step, Wake, Abort, GiveUp, Proceed, StopPolling, Disconnect, Succeeded,
     Retry, AlreadyActive, Connected, NotConnected, Ready, Register, StartPolling, ReconnectWithin,
     SetActive, PollEnds, PollFails, Interrupted
<1>2. SUFFICES ASSUME NEW h \in Ids, threads'[h].pc # "none", threads'[h].caller = HubCall
      PROVE  /\ threads'[h].pc \in {"activate", "ready", "register", "launch", "within", "setActive"}
             /\ threads'[h].pc \in {"activate", "ready", "register", "launch"} =>
                  Untouched(threads[h].ch, {h})'
             /\ \A u \in Ids : threads'[u].pc = "enter" /\ threads'[u].caller = h =>
                  Untouched(threads[h].ch, {h, u})'
  BY DEF FirstInv
<1>3. threads[h].pc # "none" /\ threads[h].caller = HubCall /\ threads'[h].ch = threads[h].ch
  <2> USE <1>2, Bounds
  <2>1. CASE threads' = threads
    BY <2>1
  <2>2. CASE Turn(t) \/ Finish(t) \/ Fail(t)
    BY <2>2 DEF Turn, Finish, Fail, Passes, Ends, Others
  <2>3. CASE HandBack(t)
    BY <2>3 DEF HandBack, Passes, Ends, Others, StackInv
  <2>4. CASE HandOn(t)
    BY <2>4 DEF HandOn, Passes, Ends, Starts, Others, StackInv
  <2>5. CASE Fork(t)
    BY <1>1, <2>5 DEF Fork, Passes, Starts, Others
  <2>6. QED
    BY <2>1, <2>2, <2>3, <2>4, <2>5, StepForms
<1>4. PICK d \in Channels : d = threads[h].ch
  BY <1>0 DEF Thread
<1>5. StackInv'
  BY StackStep
<1> SUFFICES /\ threads'[h].pc \in {"activate", "ready", "register", "launch", "within", "setActive"}
             /\ threads'[h].pc \in {"activate", "ready", "register", "launch"} => Untouched(d, {h})'
             /\ \A u \in Ids : threads'[u].pc = "enter" /\ threads'[u].caller = h =>
                  Untouched(d, {h, u})'
  BY <1>3, <1>4 DEF Untouched
<1>6. CASE d # threads[t].ch
  <2>1. threads'[h] = threads[h]
    BY <1>3, <1>4, <1>5, <1>6, OthersLeft DEF Of
  <2>2. attempts'[d] = attempts[d] /\ \A v \in Ids : Of(d, v)' => Of(d, v)
    BY <1>4, <1>5, <1>6, OthersLeft DEF Of
  <2>3. ASSUME NEW u \in Ids, threads'[u].pc = "enter", threads'[u].caller = h
        PROVE  threads[u].pc = "enter" /\ threads[u].caller = h
    <3>1. Of(d, u)'
      BY <1>3, <1>4, <1>5, <2>3 DEF StackInv, Of
    <3>2. QED
      BY <1>4, <1>5, <1>6, <2>3, <3>1, OthersLeft
  <2>4. QED
    BY <1>3, <1>4, <1>5, <2>1, <2>2, <2>3 DEF FirstInv, Untouched
<1>7. CASE h = t
  <2>1. threads[t].pc \in {"activate", "ready", "register", "launch", "within", "setActive"}
        /\ (threads[t].pc \in {"activate", "ready", "register", "launch"} => Untouched(d, {t}))
    BY <1>3, <1>4, <1>5, <1>7 DEF FirstInv
  <2>2. attempts' = attempts
    BY <2>1, AttemptsKept
  <2>3. CASE threads' = threads
    BY <1>3, <1>4, <1>5, <1>7, <2>2, <2>3 DEF FirstInv, Untouched, Of
  <2>4. CASE Turn(t)
    <3>1. threads'[t].pc \in {"ready", "register", "launch", "setActive"} /\ Others({t})
          /\ (threads'[t].pc # "setActive" => threads[t].pc \in {"activate", "ready", "register"})
      BY <1>3, <1>4, <1>5, <1>7, <2>1, <2>4 DEF Turn, Passes, Pcs
    <3>2. ~(\E u \in Ids : threads'[u].pc = "enter" /\ threads'[u].caller = h)
      BY <1>4, <1>5, <1>7, <3>1 DEF StackInv
    <3>3. threads'[t].pc # "setActive" => Untouched(d, {t})'
      BY <1>3, <1>4, <1>5, <2>1, <2>2, <3>1 DEF Untouched, Of, Others
    <3>4. QED
      BY <1>7, <3>1, <3>2, <3>3
  <2>5. CASE Fork(t)
    <3>1. PICK n \in Ids :
            /\ Others({t, n}) /\ n # t /\ threads[t].pc = "launch"
            /\ \/ threads'[t].pc = "setActive"
               \/ threads'[t].pc = "within" /\ Starts(n, "enter", d, t)
      BY <1>4, <1>7, <2>5 DEF Fork, Passes
    <3>2. CASE threads'[t].pc = "setActive"
      BY <1>4, <1>5, <1>7, <3>2 DEF StackInv
    <3>3. CASE threads'[t].pc = "within" /\ Starts(n, "enter", d, t)
      <4>1. \A u \in Ids : threads'[u].pc = "enter" /\ threads'[u].caller = t => u = n
        BY <1>4, <1>5, <3>3, Bounds DEF StackInv, Starts
      <4>2. Untouched(d, {t, n})'
        BY <1>3, <1>4, <1>5, <2>1, <2>2, <3>1 DEF Untouched, Of, Others
      <4>3. QED
        BY <1>7, <3>3, <4>1, <4>2
    <3>4. QED
      BY <3>1, <3>2, <3>3
  <2>6. ~Finish(t) /\ ~HandBack(t) /\ ~HandOn(t) /\ ~Fail(t)
    BY <1>2, <1>3, <1>4, <1>5, <1>7, <2>1, Bounds DEF Finish, HandBack, HandOn, Fail, Ends
  <2>7. QED
    BY <2>3, <2>4, <2>5, <2>6, StepForms
<1>8. CASE h # t /\ d = threads[t].ch
  <2>1. threads[h].pc \in {"within", "setActive"}
    <3>1. /\ threads[h].pc \in {"activate", "ready", "register", "launch", "within", "setActive"}
          /\ threads[h].pc \in {"activate", "ready", "register", "launch"} => Untouched(d, {h})
      BY <1>3, <1>4 DEF FirstInv
    <3>2. Of(d, t)
      BY <1>1, <1>8 DEF Of
    <3>3. ~Untouched(d, {h})
      BY <1>8, <3>2 DEF Untouched
    <3>4. QED
      BY <3>1, <3>3
  <2>2. threads'[h].pc \in {"within", "setActive"}
        /\ (threads'[h].pc = "within" => threads'[h] = threads[h])
    <3>1. CASE threads' = threads \/ Turn(t) \/ Finish(t) \/ Fail(t)
      BY <1>8, <2>1, <3>1 DEF Turn, Finish, Fail, Others
    <3>2. CASE HandBack(t)
      BY <1>2, <1>3, <1>4, <1>5, <1>8, <2>1, <3>2 DEF HandBack, Passes, Ends, Others
    <3>3. CASE HandOn(t)
      BY <1>3, <1>4, <1>5, <1>8, <2>1, <3>3 DEF HandOn, Passes, Starts, Others
    <3>4. CASE Fork(t)
      BY <1>3, <1>4, <1>5, <1>8, <2>1, <3>4 DEF Fork, Starts, Others
    <3>5. QED
      BY <3>1, <3>2, <3>3, <3>4, StepForms
  <2>3. ASSUME NEW u \in Ids, threads'[u].pc = "enter", threads'[u].caller = h
        PROVE  Untouched(d, {h, u})'
    <3>1. threads[u].pc = "enter" /\ threads[u].caller = h /\ (u = t => threads' = threads)
      <4> USE <1>8, <2>3, Bounds
      <4>1. CASE threads' = threads
        BY <4>1
      <4>2. CASE Turn(t)
        BY <4>2 DEF Turn, Passes, Others, StackInv
      <4>3. CASE Finish(t) \/ Fail(t)
        BY <4>3 DEF Finish, Fail, Ends, Others
      <4>4. CASE HandBack(t)
        BY <1>3, <1>4, <1>5, <2>1, <4>4 DEF HandBack, Passes, Ends, Others
      <4>5. CASE HandOn(t)
        BY <4>5 DEF HandOn, Passes, Ends, Starts, Others
      <4>6. CASE Fork(t)
        BY <4>6 DEF Fork, Passes, Starts, Others
      <4>7. QED
        BY <4>1, <4>2, <4>3, <4>4, <4>5, <4>6, StepForms
    <3>2. Untouched(d, {h, u})
      BY <1>3, <1>4, <1>5, <3>1 DEF FirstInv
    <3>3. t = u
      BY <1>1, <1>8, <3>2 DEF Untouched, Of
    <3>4. threads' = threads /\ attempts' = attempts
      BY <3>1, <3>3, AttemptsKept
    <3>5. QED
      BY <3>2, <3>4 DEF Untouched, Of
  <2>4. QED
    BY <2>2, <2>3
<1>9. QED
  BY <1>6, <1>7, <1>8

LEMMA FirstInit == Init => StackInv /\ FirstInv
<1> SUFFICES ASSUME Init PROVE StackInv /\ FirstInv
  OBVIOUS
<1>1. ASSUME NEW t \in Ids, threads[t].pc # "none"
      PROVE  \E c \in Channels : First[c] = t /\ threads[t] = Call("activate", c, HubCall)
  <2>1. \E c \in Channels : First[c] = t
    BY <1>1 DEF Init, Idle
  <2>2. (CHOOSE c \in Channels : First[c] = t) \in Channels
        /\ First[CHOOSE c \in Channels : First[c] = t] = t
    BY <2>1
  <2>3. QED
    BY <2>1, <2>2 DEF Init
<1>2. ASSUME NEW t \in Ids, threads[t].pc # "none"
      PROVE  threads[t].pc = "activate" /\ threads[t].caller = HubCall
             /\ threads[t].ch \in Channels /\ First[threads[t].ch] = t
  <2>1. PICK c \in Channels : First[c] = t /\ threads[t] = Call("activate", c, HubCall)
    BY <1>1, <1>2
  <2>2. QED
    BY <2>1 DEF Call
<1>3. StackInv
  BY <1>2, Bounds DEF StackInv
<1>4. FirstInv
  <2>1. ASSUME NEW t \in Ids, threads[t].pc # "none"
        PROVE  Untouched(threads[t].ch, {t}) /\ threads[t].pc = "activate"
    BY <1>2, <2>1 DEF Untouched, Of, Init
  <2>2. QED
    BY <1>2, <2>1 DEF FirstInv
<1>5. QED
  BY <1>3, <1>4

\* A channel that says it is polled has a poll thread, or the reconnection that takes
\* its place, up to stopPolling(); one that stopped its poll thread has a reconnection.
Watcher(c, t) == Of(c, t) /\ threads[t].caller = Nobody
                   /\ threads[t].pc \in {"select", "enter", "stop"}
Mender(c, t)  == Own(c, t) /\ threads[t].pc # "select"

Watch(c) ==
  /\ handle[c] = pipeRunning[c]
  /\ alive /\ death = "no" =>
       /\ pipeRunning[c] => \E t \in Ids : Watcher(c, t)
       /\ ~pipeRunning[c] /\ (\E t \in Ids : Polls(c, t)) => \E t \in Ids : Mender(c, t)

LEMMA FlagSteps ==
  ASSUME TypeInv, NEW c \in Channels, NEW t \in Ids, Acts(t), threads[t].ch = c,
         handle[c] = pipeRunning[c]
  PROVE  /\ death = "no" /\ alive' = alive /\ handle'[c] = pipeRunning'[c]
         /\ pipeRunning'[c] # pipeRunning[c] =>
              IF pipeRunning'[c] THEN StartPolling(t) ELSE StopPolling(t)
<1>1. pipeRunning \in [Channels -> BOOLEAN] /\ handle \in [Channels -> BOOLEAN]
  BY DEF TypeInv, FlagType
<1>2. death = "no" /\ alive' = alive
  BY DEF Acts, Step, Wake, Abort, GiveUp, Proceed, StopPolling, Disconnect, Succeeded, Retry,
     AlreadyActive, Connected, NotConnected, Ready, Register, StartPolling, ReconnectWithin,
     SetActive, PollEnds, PollFails, Interrupted
<1>3. CASE StopPolling(t)
  <2>1. /\ pipeRunning' = [pipeRunning EXCEPT ![c] = @ /\ ~handle[c]]
        /\ handle' = [handle EXCEPT ![c] = FALSE]
    BY <1>3 DEF StopPolling
  <2>2. pipeRunning'[c] = FALSE /\ handle'[c] = FALSE
    BY <1>1, <2>1
  <2>3. QED
    BY <1>2, <1>3, <2>2
<1>4. CASE StartPolling(t)
  BY <1>1, <1>2, <1>4 DEF StartPolling
<1>5. CASE UNCHANGED <<pipeRunning, handle>>
  BY <1>2, <1>5
<1>6. QED
  BY <1>3, <1>4, <1>5 DEF Acts, Step, Wake, Abort, GiveUp, Proceed, Disconnect, Succeeded, Retry,
     AlreadyActive, Connected, NotConnected, Ready, Register, ReconnectWithin, SetActive, PollEnds,
     PollFails, Interrupted

LEMMA WatcherKept ==
  ASSUME TypeInv, StackInv, NEW c \in Channels, Watch(c), NEW t \in Ids, Acts(t),
         threads[t].ch = c, alive, death' = "no", pipeRunning'[c]
  PROVE  \E w \in Ids : Watcher(c, w)'
<1>0. threads \in [Ids -> Thread]
  BY DEF TypeInv
<1>1. CASE ~pipeRunning[c]
  <2>1. StartPolling(t)
    BY <1>1, FlagSteps DEF Watch
  <2>2. PICK n \in Ids : n = NewThread
    BY <2>1, NewIsUnused DEF StartPolling
  <2>3. threads'[n] = Poller(c, fd[c])
    BY <1>0, <2>1, <2>2 DEF StartPolling
  <2>4. Watcher(c, n)'
    BY <2>3 DEF Watcher, Of, Poller
  <2>5. QED
    BY <2>4
<1>2. CASE pipeRunning[c]
  <2>1. PICK w \in Ids : Watcher(c, w)
    BY <1>2, FlagSteps DEF Watch
  <2>2. ~StopPolling(t)
    <3>1. pipeRunning \in [Channels -> BOOLEAN]
      BY DEF TypeInv, FlagType
    <3>2. QED
      BY <3>1 DEF StopPolling, Watch
  <2>3. CASE w # t
    <3>1. threads'[w] = threads[w]
      <4> USE <2>1, <2>3 DEF Watcher, Of
      <4>1. CASE threads' = threads
        BY <4>1
      <4>2. CASE Turn(t) \/ Finish(t) \/ Fail(t)
        BY <4>2 DEF Turn, Finish, Fail, Others
      <4>3. CASE HandBack(t) \/ HandOn(t)
        BY <4>3 DEF HandBack, HandOn, Starts, Others, StackInv
      <4>4. CASE Fork(t)
        BY <4>4 DEF Fork, Starts, Others
      <4>5. QED
        BY <4>1, <4>2, <4>3, <4>4, StepForms
    <3>2. QED
      BY <2>1, <3>1 DEF Watcher, Of
  <2>4. CASE w = t
    <3>1. CASE threads[t].pc = "select"
      <4>1. PollFails(t) \/ Interrupted(t)
        BY <1>2, <3>1 DEF Acts, Step, PollEnds, Wake, Abort, GiveUp, Proceed, StopPolling,
           Disconnect, Succeeded, Retry, AlreadyActive, Connected, NotConnected, Ready, Register,
           StartPolling, ReconnectWithin, SetActive
      <4>2. threads'[t] = Call("enter", c, Nobody)
        BY <1>0, <4>1 DEF PollFails, Interrupted
      <4>3. QED
        BY <4>2 DEF Watcher, Of, Call
    <3>2. CASE threads[t].pc = "enter"
      <4>1. Proceed(t)
        BY <2>1, <2>4, <3>2 DEF Watcher, Acts, Step, PollEnds, PollFails, Interrupted, Wake, Abort, GiveUp,
           StopPolling, Disconnect, Succeeded, Retry, AlreadyActive, Connected, NotConnected,
           Ready, Register, StartPolling, ReconnectWithin, SetActive
      <4>2. threads'[t] = [threads[t] EXCEPT !.pc = "stop"]
        BY <1>0, <4>1 DEF Proceed
      <4>3. QED
        BY <1>0, <2>1, <2>4, <4>2 DEF Watcher, Of, Thread
    <3>3. CASE threads[t].pc = "stop"
      BY <2>2, <3>3 DEF Acts, Step, PollEnds, PollFails, Interrupted, Wake, Abort, GiveUp, Proceed, Disconnect,
         Succeeded, Retry, AlreadyActive, Connected, NotConnected, Ready, Register, StartPolling,
         ReconnectWithin, SetActive
    <3>4. QED
      BY <2>1, <2>4, <3>1, <3>2, <3>3 DEF Watcher
  <2>5. QED
    BY <2>3, <2>4
<1>3. QED
  BY <1>1, <1>2

LEMMA MenderKept ==
  ASSUME TypeInv, StackInv, FirstInv, NEW c \in Channels, NEW t \in Ids, Acts(t),
         threads[t].ch = c, alive, ~pipeRunning[c], NEW w \in Ids, Mender(c, w)
  PROVE  \E v \in Ids : Mender(c, v)'
<1> USE DEF Mender, Own, Of
<1>0. threads \in [Ids -> Thread] /\ attempts \in [Channels -> Nat]
  BY DEF TypeInv, FlagType
<1>1. CASE threads' = threads
  BY <1>1
<1>2. CASE Turn(t)
  <2>1. Mender(c, w)'
    BY <1>2, Bounds DEF Turn, Passes, Others
  <2>2. QED
    BY <2>1
<1>3. CASE Finish(t)
  <2>1. w # t
    BY <1>3 DEF Finish
  <2>2. QED
    BY <1>3, <2>1 DEF Finish, Others
<1>4. CASE HandBack(t)
  <2>1. PICK u \in Ids : /\ threads[t].caller = u /\ threads[t].pc \in {"enter", "after"}
                         /\ Ends(t) /\ Others({t, u})
                         /\ \/ Passes(u, "after") /\ threads[u].caller # HubCall
                            \/ Ends(u) /\ threads[t].pc = "enter" /\ threads[u].caller = HubCall
                                 /\ attempts[c] > MaxReconnects
    BY <1>4 DEF HandBack
  <2>2. u # t /\ threads[u].ch = c /\ threads[u].pc = "within"
    BY <2>1 DEF StackInv
  <2>3. ~Ends(u)
    <3>1. threads[t].pc = "enter" /\ threads[u].caller = HubCall => attempts[c] = 0
      BY <2>1, <2>2 DEF FirstInv, Untouched
    <3>2. QED
      BY <2>1, <3>1, Bounds DEF Ends, Passes
  <2>4. Mender(c, u)'
    BY <2>1, <2>2, <2>3 DEF Passes
  <2>5. QED
    BY <2>4
<1>5. CASE HandOn(t)
  <2>1. PICK n \in Ids : Starts(n, "sleep", c, Nobody)
    BY <1>5 DEF HandOn
  <2>2. Mender(c, n)'
    BY <2>1 DEF Starts
  <2>3. QED
    BY <2>2
<1>6. CASE Fork(t)
  <2>1. PICK n \in Ids :
          /\ n # t /\ Others({t, n}) /\ threads[n].pc = "none"
          /\ Passes(t, "setActive") \/ Passes(t, "within")
    BY <1>6 DEF Fork, Starts
  <2>2. Mender(c, w)'
    BY <2>1 DEF Passes, Others
  <2>3. QED
    BY <2>2
<1>7. CASE Fail(t)
  BY <1>7 DEF Fail, Others
<1>8. QED
  BY <1>1, <1>2, <1>3, <1>4, <1>5, <1>6, <1>7, StepForms

ForgetInv == TypeInv /\ StackInv /\ FirstInv /\ \A c \in Channels : Watch(c)

\* The channel whose thread steps: it keeps a watcher, or somebody who mends it.
LEMMA StepOwns ==
  ASSUME ForgetInv, NEW c \in Channels, NEW t \in Ids, Acts(t), threads[t].ch = c,
         alive, death' = "no"
  PROVE  /\ pipeRunning'[c] => \E v \in Ids : Watcher(c, v)'
         /\ ~pipeRunning'[c] /\ (\E v \in Ids : Own(c, v)) => \E v \in Ids : Mender(c, v)'
<1>0. TypeInv /\ StackInv /\ FirstInv /\ Watch(c) /\ death = "no"
  BY FlagSteps DEF ForgetInv, Watch
<1>1. pipeRunning'[c] => \E v \in Ids : Watcher(c, v)'
  BY <1>0, WatcherKept
<1>2. ASSUME ~pipeRunning'[c], pipeRunning[c] PROVE Mender(c, t)'
  <2>1. StopPolling(t)
    BY <1>0, <1>2, FlagSteps DEF Watch
  <2>2. threads[t].pc = "stop" /\ threads' = [threads EXCEPT ![t].pc = "close"]
    BY <2>1 DEF StopPolling
  <2>3. threads[t].caller # HubCall
    BY <1>0, <2>2 DEF FirstInv
  <2>4. QED
    BY <1>0, <2>2, <2>3 DEF Mender, Own, Of, TypeInv, Thread
<1>3. ASSUME ~pipeRunning'[c], ~pipeRunning[c], NEW v \in Ids, Own(c, v)
      PROVE  \E w \in Ids : Mender(c, w)'
  <2>1. Polls(c, v) \/ Mender(c, v)
    BY <1>3 DEF Own, Of, Polls, Mender
  <2>2. PICK w \in Ids : Mender(c, w)
    BY <1>0, <1>3, <2>1 DEF Watch
  <2>3. QED
    BY <1>0, <1>3, <2>2, MenderKept
<1>4. QED
  BY <1>1, <1>2, <1>3

LEMMA WatchStep ==
  ASSUME ForgetInv, NEW t \in Ids, Acts(t), NEW c \in Channels
  PROVE  Watch(c)'
<1>0. TypeInv /\ StackInv /\ FirstInv /\ Watch(c)
  BY DEF ForgetInv
<1>1. alive' = alive /\ death = "no"
  BY DEF Acts, Step, Wake, Abort, GiveUp, Proceed, StopPolling, Disconnect, Succeeded, Retry,
     AlreadyActive, Connected, NotConnected, Ready, Register, StartPolling, ReconnectWithin,
     SetActive, PollEnds, PollFails, Interrupted
<1>2. CASE threads[t].ch # c
  <2>1. /\ pipeRunning'[c] = pipeRunning[c] /\ handle'[c] = handle[c]
        /\ \A v \in Ids : Of(c, v) \/ Of(c, v)' => threads'[v] = threads[v]
    BY <1>0, <1>2, OthersLeft
  <2>2. \A v \in Ids : /\ Watcher(c, v) => Watcher(c, v)'
                       /\ Mender(c, v) => Mender(c, v)'
                       /\ Polls(c, v)' => Polls(c, v)
    BY <2>1 DEF Watcher, Mender, Own, Of, Polls
  <2>3. ASSUME alive PROVE pipeRunning'[c] => \E v \in Ids : Watcher(c, v)'
    <3>1. pipeRunning[c] => \E v \in Ids : Watcher(c, v)
      BY <1>0, <1>1, <2>3 DEF Watch
    <3>2. QED
      BY <2>1, <2>2, <3>1
  <2>4. ASSUME alive, ~pipeRunning'[c], NEW p \in Ids, Polls(c, p)'
        PROVE  \E v \in Ids : Mender(c, v)'
    <3>1. ~pipeRunning[c] /\ Polls(c, p)
      BY <2>1, <2>2, <2>4
    <3>2. PICK v \in Ids : Mender(c, v)
      BY <1>0, <1>1, <2>4, <3>1 DEF Watch
    <3>3. QED
      BY <2>2, <3>2
  <2>5. handle'[c] = pipeRunning'[c]
    BY <1>0, <2>1 DEF Watch
  <2>6. QED
    BY <1>1, <2>3, <2>4, <2>5 DEF Watch
<1>3. CASE threads[t].ch = c
  <2>1. handle'[c] = pipeRunning'[c]
    BY <1>0, <1>3, FlagSteps DEF Watch
  <2>2. ASSUME alive, death' = "no", ~pipeRunning'[c], NEW p \in Ids, Polls(c, p)'
        PROVE  \E v \in Ids : Own(c, v)
    <3>1. CASE threads' = threads
      BY <1>0, <2>2, <3>1, Bounds DEF Own, Of, Polls, StackInv
    <3>2. CASE Turn(t) \/ Finish(t) \/ Fail(t)
      BY <1>0, <2>2, <3>2, Bounds DEF Turn, Finish, Fail, Passes, Ends, Others, Own, Of, Polls, StackInv
    <3>3. CASE HandBack(t)
      BY <1>0, <2>2, <3>3, Bounds DEF HandBack, Passes, Ends, Others, Own, Of, Polls, StackInv
    <3>4. CASE HandOn(t)
      BY <1>0, <2>2, <3>4, Bounds DEF HandOn, Passes, Ends, Starts, Others, Own, Of, Polls, StackInv
    <3>5. CASE Fork(t)
      BY <1>0, <1>3, <2>2, <3>5, Bounds DEF Fork, Passes, Starts, Others, Own, Of, Polls, StackInv
    <3>6. QED
      BY <1>0, <3>1, <3>2, <3>3, <3>4, <3>5, StepForms
  <2>3. QED
    BY <1>1, <1>3, <2>1, <2>2, StepOwns DEF Watch
<1>4. QED
  BY <1>2, <1>3

LEMMA ForgetStep == ForgetInv /\ [Next]_vars => ForgetInv'
<1> SUFFICES ASSUME ForgetInv, [Next]_vars PROVE ForgetInv'
  OBVIOUS
<1>1. TypeInv'
  BY TypeStep DEF ForgetInv
<1>2. ASSUME NEW t \in Ids, Acts(t) PROVE ForgetInv'
  BY <1>1, <1>2, StackStep, FirstStep, WatchStep DEF ForgetInv
<1>3. CASE UNCHANGED <<threads, attempts, pipeRunning, handle>>
             /\ (alive' /\ death' = "no" => alive /\ death = "no")
  <2>1. StackInv' /\ FirstInv'
    BY <1>3 DEF ForgetInv, StackInv, FirstInv, Untouched, Of
  <2>2. \A c \in Channels : Watch(c)'
    BY <1>3 DEF ForgetInv, Watch, Watcher, Mender, Own, Of, Polls
  <2>3. QED
    BY <1>1, <2>1, <2>2 DEF ForgetInv
<1>4. QED
  BY <1>2, <1>3 DEF Acts, ForgetInv, TypeInv, FlagType, Next, vars, ShortRead, PeerCloses,
     TickDrops, TickForgets, Incoming, HubDies

LEMMA ForgetAlways == Spec => []ForgetInv
<1>1. Init => \A c \in Channels : Watch(c)
  BY DEF Init, Watch, Polls, Idle, Call
<1>2. Init => ForgetInv
  BY <1>1, TypeInit, FirstInit DEF ForgetInv
<1>3. QED
  BY <1>2, ForgetStep, PTL DEF Spec

NoneForgotten ==
  alive' /\ death' = "no" =>
    \A c \in Channels : (\E t \in Ids : Own(c, t)) => \E t \in Ids : Own(c, t)'

\* From its first poll thread or reconnection on a channel always has one, until the hub
\* dies or the process ends: no order of losses, timeouts of tick(), nested attempts and
\* reused descriptor numbers makes the last of them go without leaving another behind.
THEOREM NeverForgotten == Spec => [][NoneForgotten]_vars
<1>1. ASSUME ForgetInv, Next PROVE NoneForgotten
  <2> SUFFICES ASSUME alive', death' = "no", NEW c \in Channels, NEW w \in Ids, Own(c, w)
               PROVE  \E v \in Ids : Own(c, v)'
    BY DEF NoneForgotten
  <2>1. ASSUME NEW t \in Ids, Acts(t) PROVE \E v \in Ids : Own(c, v)'
    <3>1. alive
      BY <2>1 DEF Acts, Step, Wake, Abort, GiveUp, Proceed, StopPolling, Disconnect, Succeeded,
         Retry, AlreadyActive, Connected, NotConnected, Ready, Register, StartPolling,
         ReconnectWithin, SetActive, PollEnds, PollFails, Interrupted
    <3>2. CASE threads[t].ch = c
      BY <1>1, <2>1, <3>1, <3>2, StepOwns, Bounds DEF Watcher, Mender, Own, Of
    <3>3. CASE threads[t].ch # c
      BY <1>1, <2>1, <3>3, OthersLeft DEF ForgetInv, Own, Of
    <3>4. QED
      BY <3>2, <3>3
  <2>2. CASE threads' = threads
    BY <2>2 DEF Own, Of
  <2>3. QED
    BY <1>1, <2>1, <2>2 DEF Acts, Next, ShortRead, PeerCloses, TickDrops, TickForgets, Incoming, HubDies
<1>2. QED
  BY <1>1, ForgetAlways, PTL DEF Spec
=============================================================================
